------------------------- MODULE WorkerEventsProofs --------------------------
(***************************************************************************)
(* Theorems about _worker_events and _stop for any timeout, read size,     *)
(* length of a line and pipe, and any amount of output.                    *)
(*                                                                         *)
(* Reads cut the output anywhere, so that the records and the bytes that   *)
(* are still pending or in the pipe must be put together again: Intact     *)
(* says that they are all of it, by the lemmas about sequences that are    *)
(* cut in two.  The rest of EventsInv ties the generator's step to what it *)
(* has raised, to the worker it has or has not waited for, and to the time *)
(* that is left.                                                           *)
(***************************************************************************)
EXTENDS WorkerEvents, SequenceTheorems, WellFoundedInduction, TLAPS

-----------------------------------------------------------------------------
(* The inductive invariant.                                                *)

Looping == pc \in {"head", "events", "lines"}

Placed ==
    /\ worker \in {"running", "exited", "reaped"}
    /\ open \subseteq Streams
    /\ pc \in {"start", "head", "events", "lines", "tick", "record", "exit",
                "stop", "terminate", "grace", "kill", "last wait", "closed"}
    /\ events \subseteq registered /\ registered \subseteq Streams

Timed ==
    left \in 0 .. Timeout /\ away \in 0 .. MaxAway /\ active \in 0 .. Timeout

Piped ==
    /\ written \in Seq(Tokens) /\ out \in Seq(Tokens)
    /\ pending \in Seq(Tokens) /\ delivered \in Seq(Tokens)
    /\ Len(out) <= PipeSize /\ err \in 0 .. PipeSize

(* The generator has raised nothing before it stops, and stops a worker    *)
(* only as long as it is there.                                            *)
Phased ==
    /\ Looping \/ pc \in {"start", "tick", "record"} => outcome = "none"
    /\ pc = "exit" => outcome = "exit"
    /\ outcome = "exit" => worker = "reaped"
    /\ pc \in {"terminate", "kill"} => worker # "reaped"
    /\ pc = "closed" => worker = "reaped" \/ outcome \in Unstopped

(* Time that is not left has been spent by the generator. *)
Spent ==
    /\ left + active >= Timeout
    /\ outcome \in {"timeout", "lingers"} => active = Timeout

(* A stream that is no longer watched has nothing more to come. *)
Watched ==
    /\ "stdout" \notin registered => "stdout" \notin open /\ out = <<>>
    /\ outcome = "exit" => "stdout" \notin registered /\ pending = <<>>

Intact ==
    outcome \notin {"bad JSON", "long line"} \cup Unstopped =>
        written = delivered \o pending \o out

(* Only while lines are taken from it can there be one in pending. *)
Measured ==
    /\ pc \in {"start", "head", "events", "tick"} => ~ HasLine(pending) /\ Len(pending) <= LineLimit
    /\ Len(pending) <= LineLimit + ReadSize

(* What a worker can be blamed for, in an output w. *)
LineIn(w, i, j) ==
    /\ i = 0 \/ w[i] = "nl"
    /\ \A k \in i + 1 .. j : w[k] # "nl"

LongLineIn(w) ==
    \E i \in 0 .. Len(w) : \E j \in i .. Len(w) : LineIn(w, i, j) /\ j - i > LineLimit

BadLineIn(w) ==
    \E i \in 0 .. Len(w) : \E j \in i .. Len(w) - 1 :
        /\ LineIn(w, i, j) /\ w[j + 1] = "nl"
        /\ i = j \/ \E k \in i + 1 .. j : w[k] = "junk"

EndsInLine(w) == Len(w) > 0 /\ w[Len(w)] # "nl"

(* Records are whole lines, and what a worker was blamed for has happened. *)
Blamed ==
    /\ delivered = <<>> \/ delivered[Len(delivered)] = "nl"
    /\ outcome = "long line" => LongLineIn(written)
    /\ outcome = "bad JSON" => BadLineIn(written)
    /\ outcome = "unfinished line" => EndsInLine(written) /\ "stdout" \notin open

EventsInv ==
    /\ Placed /\ Timed /\ Piped
    /\ Phased /\ Spent
    /\ Watched /\ Intact /\ Measured /\ Blamed

-----------------------------------------------------------------------------
(* Sequences.                                                              *)

(* A set of numbers that is not empty has a least one. *)
LEMMA LeastOf ==
    ASSUME NEW T \in SUBSET Nat, T # {}
    PROVE  Min(T) \in T /\ \A y \in T : Min(T) <= y
<1>1. PICK x \in T : \A y \in T : ~ (<<y, x>> \in OpToRel(<, Nat))
  BY NatLessThanWellFounded, WFMin
<1>2. ASSUME NEW y \in T, y < x
      PROVE  FALSE
  <2>1. <<y, x>> \in {ss \in Nat \X Nat : ss[1] < ss[2]}
    BY <1>2
  <2>2. <<y, x>> \in OpToRel(<, Nat)
    BY <2>1 DEF OpToRel
  <2> QED
    BY <1>1, <2>2
<1>3. \A y \in T : x <= y
  BY <1>2
<1> QED
  BY <1>3 DEF Min

(* A sequence cut in two. *)
LEMMA Cut ==
    ASSUME NEW S, NEW s \in Seq(S), NEW k \in 0 .. Len(s)
    PROVE  /\ SubSeq(s, 1, k) \in Seq(S) /\ SubSeq(s, k + 1, Len(s)) \in Seq(S)
           /\ Len(SubSeq(s, 1, k)) = k
           /\ Len(SubSeq(s, k + 1, Len(s))) = Len(s) - k
           /\ s = SubSeq(s, 1, k) \o SubSeq(s, k + 1, Len(s))
<1>1. Len(s) \in Nat /\ \A i \in 1 .. Len(s) : s[i] \in S
  BY ElementOfSeq, LenProperties
<1>2. SubSeq(s, 1, k) \in Seq(S) /\ Len(SubSeq(s, 1, k)) = k
  BY <1>1, SubSeqProperties
<1>3. SubSeq(s, k + 1, Len(s)) \in Seq(S) /\ Len(SubSeq(s, k + 1, Len(s))) = Len(s) - k
  <2>1. PICK m : m = k + 1 /\ m \in Int
    BY <1>1
  <2>2. \A i \in m .. Len(s) : s[i] \in S
    BY <1>1, <2>1
  <2>3. /\ SubSeq(s, m, Len(s)) \in Seq(S)
        /\ Len(SubSeq(s, m, Len(s))) = IF m <= Len(s) THEN Len(s) - m + 1 ELSE 0
    BY <1>1, <2>1, <2>2, SubSeqProperties
  <2> QED
    BY <1>1, <2>1, <2>3
<1>4. SubSeq(s, 1, k) \o SubSeq(s, k + 1, Len(s)) = SubSeq(s, 1, Len(s))
  <2>1. 1 \in 1 .. Len(s) + 1 /\ k \in 1 - 1 .. Len(s) /\ Len(s) \in k .. Len(s)
    BY <1>1
  <2> QED
    BY <2>1, ConcatAdjacentSubSeq, Zenon
<1> QED
  BY <1>2, <1>3, <1>4, SubSeqFull

(* The end of the first line is its first newline. *)
LEMMA LineFound ==
    ASSUME NEW b \in Seq(Tokens), HasLine(b)
    PROVE  /\ LineEnd(b) \in 1 .. Len(b) /\ b[LineEnd(b)] = "nl"
           /\ \A i \in 1 .. LineEnd(b) - 1 : b[i] # "nl"
<1> DEFINE I == {i \in 1 .. Len(b) : b[i] = "nl"}
<1>1. I \in SUBSET Nat /\ I # {} /\ LineEnd(b) = Min(I)
  BY LenProperties DEF HasLine, Contains, LineEnd, SelectInSeq
<1>2. Min(I) \in I /\ \A y \in I : Min(I) <= y
  BY <1>1, LeastOf
<1> HIDE DEF I
<1>3. LineEnd(b) \in I /\ \A y \in I : LineEnd(b) <= y
  BY <1>1, <1>2
<1> QED
  BY <1>3 DEF I

(* What a read takes from the pipe and what it leaves. *)
LEMMA Reading ==
    ASSUME NEW o \in Seq(Tokens)
    PROVE  /\ Chunk(o) \in Seq(Tokens) /\ Rest(o) \in Seq(Tokens)
           /\ Len(Chunk(o)) <= ReadSize /\ Len(Rest(o)) <= Len(o)
           /\ o = Chunk(o) \o Rest(o)
<1>1. PICK k : k = Least(ReadSize, Len(o))
  OBVIOUS
<1>2. k \in 0 .. Len(o) /\ k <= ReadSize /\ Len(o) \in Nat
  BY <1>1, LenProperties, EventsConstants DEF Least
<1>3. Chunk(o) = SubSeq(o, 1, k) /\ Rest(o) = SubSeq(o, k + 1, Len(o))
  BY <1>1 DEF Chunk, Rest
<1>4. /\ SubSeq(o, 1, k) \in Seq(Tokens) /\ SubSeq(o, k + 1, Len(o)) \in Seq(Tokens)
      /\ Len(SubSeq(o, 1, k)) = k
      /\ Len(SubSeq(o, k + 1, Len(o))) = Len(o) - k
      /\ o = SubSeq(o, 1, k) \o SubSeq(o, k + 1, Len(o))
  BY <1>2, Cut
<1>5. Len(Chunk(o)) <= ReadSize /\ Len(Rest(o)) <= Len(o)
  BY <1>2, <1>3, <1>4
<1> QED
  BY <1>3, <1>4, <1>5

(* What is taken for a line and what is left. *)
LEMMA Lining ==
    ASSUME NEW b \in Seq(Tokens), HasLine(b)
    PROVE  /\ FirstLine(b) \in Seq(Tokens) /\ AfterLine(b) \in Seq(Tokens)
           /\ Append(FirstLine(b), "nl") \in Seq(Tokens)
           /\ Len(FirstLine(b)) = LineEnd(b) - 1
           /\ Len(AfterLine(b)) < Len(b)
           /\ b = Append(FirstLine(b), "nl") \o AfterLine(b)
<1>1. PICK k : k = LineEnd(b)
  OBVIOUS
<1>2. k \in 1 .. Len(b) /\ b[k] = "nl" /\ Len(b) \in Nat /\ \A i \in 1 .. Len(b) : b[i] \in Tokens
  BY <1>1, LineFound, LenProperties, ElementOfSeq
<1>3. /\ SubSeq(b, 1, k) \in Seq(Tokens) /\ SubSeq(b, k + 1, Len(b)) \in Seq(Tokens)
      /\ Len(SubSeq(b, 1, k)) = k
      /\ Len(SubSeq(b, k + 1, Len(b))) = Len(b) - k
      /\ b = SubSeq(b, 1, k) \o SubSeq(b, k + 1, Len(b))
  BY <1>2, Cut
<1>4. /\ SubSeq(b, 1, k - 1) \in Seq(Tokens) /\ Len(SubSeq(b, 1, k - 1)) = k - 1
      /\ \A i \in 1 .. k - 1 : SubSeq(b, 1, k - 1)[i] = b[i]
  BY <1>2, SubSeqProperties
<1>5. Append(SubSeq(b, 1, k - 1), "nl") = SubSeq(b, 1, k)
  <2>1. PICK f : f = SubSeq(b, 1, k - 1)
    OBVIOUS
  <2>2. /\ Append(f, "nl") \in Seq(Tokens) /\ Len(Append(f, "nl")) = k
        /\ \A i \in 1 .. k - 1 : Append(f, "nl")[i] = f[i]
        /\ Append(f, "nl")[k] = "nl"
    BY <1>2, <1>4, <2>1, AppendProperties DEF Tokens
  <2>3. \A i \in 1 .. k : SubSeq(b, 1, k)[i] = b[i]
    BY <1>2, SubSeqProperties
  <2>4. \A i \in 1 .. k : Append(f, "nl")[i] = SubSeq(b, 1, k)[i]
    BY <1>2, <1>4, <2>1, <2>2, <2>3
  <2> QED
    BY <1>3, <2>1, <2>2, <2>4, SeqEqual
<1>6. FirstLine(b) = SubSeq(b, 1, k - 1) /\ AfterLine(b) = SubSeq(b, k + 1, Len(b))
  BY <1>1 DEF FirstLine, AfterLine
<1>7. Len(FirstLine(b)) = LineEnd(b) - 1
  BY <1>1, <1>4, <1>6
<1>8. Len(AfterLine(b)) < Len(b)
  <2>1. Len(AfterLine(b)) = Len(b) - k
    BY <1>3, <1>6
  <2> QED
    BY <1>2, <2>1
<1> QED
  BY <1>3, <1>4, <1>5, <1>6, <1>7, <1>8

-----------------------------------------------------------------------------
(* Types.                                                                  *)

(* The steps of the finally clause that go on with it.                     *)
Ending == Stop \/ Terminate \/ Gone \/ GraceOver \/ Kill \/ Killed

(* The step into the try, and those by which the worker is given up.       *)
Leaving == Start \/ NotSignalled \/ LastWaitOver \/ Abandon

LEMMA LeavingSteps ==
    ASSUME Leaving
    PROVE  /\ UNCHANGED <<worker, out, err, open, written>>
           /\ UNCHANGED <<registered, events, pending, delivered, left, away, active>>
           /\ \/ pc = "start" /\ pc' = "head" /\ outcome' = outcome
              \/ pc' = "closed" /\ outcome' \in Unstopped
BY DEF Leaving, Start, NotSignalled, LastWaitOver, Abandon, GivesUp, Unstopped, workerVars, clock

LEMMA PlacedStep == ASSUME Placed, [Next]_vars PROVE Placed'
<1>1. CASE Worker
  BY <1>1 DEF Placed, Worker, WriteOut, WriteErr, CloseStream, WorkerExits, generator
<1>2. CASE Elapse \/ ElapseAway \/ Interrupt \/ Consumer
  BY <1>2 DEF Placed, Elapse, ElapseAway, Interrupt, Raise, Consumer, Resume, Close, Suspended,
              workerVars, clock
<1>3. CASE Ending
  BY <1>3 DEF Placed, Ending, Stop, MustStop, Polled, Terminate, Signal, Gone, GraceOver,
              Stubborn, Kill, Killed, stopping
<1>4. CASE TimesOut \/ Select \/ SelectNothing \/ EventsDone \/ Unfinished \/ Wait \/ WaitTimesOut
  BY <1>4 DEF Placed, TimesOut, Select, SelectNothing, EventsDone, Unfinished, Wait,
              WaitTimesOut, Raise, workerVars, clock
<1>5. CASE ReadOut \/ ReadErr \/ \E s \in Streams : ReadEnd(s)
  BY <1>5 DEF Placed, ReadOut, ReadErr, ReadEnd, workerVars, clock
<1>6. CASE YieldRecord \/ BadLine \/ LinesDone
  BY <1>6 DEF Placed, YieldRecord, BadLine, LinesDone, Raise, workerVars, clock
<1>7. CASE UNCHANGED vars
  BY <1>7 DEF Placed, vars
<1>8. CASE Leaving
  BY <1>8, LeavingSteps DEF Placed
<1> QED
  BY <1>1, <1>2, <1>3, <1>4, <1>5, <1>6, <1>7, <1>8
  DEF Next, Leaving, Ending, Stopping, Step

LEMMA TimedStep == ASSUME Timed, [Next]_vars PROVE Timed'
<1>1. CASE Elapse \/ SelectNothing \/ WaitTimesOut
  BY <1>1, EventsConstants DEF Timed, Elapse, SelectNothing, WaitTimesOut, Ran, Least
<1>2. CASE ElapseAway \/ Consumer
  BY <1>2, EventsConstants DEF Timed, ElapseAway, Consumer, Resume, Close, Extended
<1>3. ASSUME UNCHANGED clock
      PROVE  Timed'
  BY <1>3 DEF Timed, clock
<1>4. CASE Worker \/ UNCHANGED vars
  BY <1>3, <1>4 DEF Worker, WriteOut, WriteErr, CloseStream, WorkerExits, generator, vars, clock
<1>5. CASE Ending
  BY <1>3, <1>5 DEF Ending, Stop, Terminate, Gone, GraceOver, Kill, Killed, stopping
<1>6. CASE \/ TimesOut \/ Select \/ EventsDone \/ Unfinished \/ Wait \/ ReadOut \/ ReadErr
           \/ (\E s \in Streams : ReadEnd(s)) \/ YieldRecord \/ BadLine \/ LinesDone \/ Interrupt
  BY <1>3, <1>6 DEF TimesOut, Select, EventsDone, Unfinished, Wait, ReadOut, ReadErr, ReadEnd,
                    YieldRecord, BadLine, LinesDone, Interrupt
<1>7. CASE Leaving
  BY <1>7, LeavingSteps DEF Timed
<1> QED
  BY <1>1, <1>2, <1>4, <1>5, <1>6, <1>7
  DEF Next, Leaving, Ending, Stopping, Step

(* What the steps that touch the output do to it. *)
LEMMA PipedStep == ASSUME Piped, [Next]_vars PROVE Piped'
<1>1. ASSUME NEW token \in Tokens, WriteOut(token)
      PROVE  Piped'
  <2>1. /\ out' = Append(out, token) /\ written' = Append(written, token)
        /\ Len(out) < PipeSize /\ UNCHANGED <<pending, delivered, err>>
    BY <1>1 DEF WriteOut, generator
  <2>2. /\ out' \in Seq(Tokens) /\ Len(out') = Len(out) + 1 /\ written' \in Seq(Tokens)
        /\ Len(out) \in Nat
    BY <2>1, AppendProperties, LenProperties DEF Piped
  <2> QED
    BY <2>1, <2>2, EventsConstants DEF Piped
<1>2. CASE WriteErr \/ ReadErr
  <2>1. UNCHANGED <<written, out, pending, delivered>>
    BY <1>2 DEF WriteErr, ReadErr, generator
  <2>0. PipeSize \in Nat /\ ReadSize \in Nat /\ err \in Nat
    BY EventsConstants DEF Piped
  <2>2. PICK x \in Nat, p \in Nat, r \in Nat : x = err /\ p = PipeSize /\ r = ReadSize
    BY <2>0, Zenon
  <2>3. x <= p
    BY <2>2 DEF Piped
  <2>4. (err' = x + 1 /\ x < p) \/ (err' = x - Least(r, x))
    BY <1>2, <2>2, Zenon DEF WriteErr, ReadErr
  <2>5. Least(r, x) \in 0 .. x
    BY DEF Least
  <2>6. err' \in 0 .. p
    BY <2>3, <2>4, <2>5
  <2> QED
    BY <2>1, <2>2, <2>6 DEF Piped
<1>3. CASE ReadOut
  <2>1. /\ pending' = pending \o Chunk(out) /\ out' = Rest(out)
        /\ UNCHANGED <<written, delivered, err>>
    BY <1>3 DEF ReadOut
  <2>2. /\ Chunk(out) \in Seq(Tokens) /\ Rest(out) \in Seq(Tokens) /\ Len(Rest(out)) <= Len(out)
    BY Reading DEF Piped
  <2>3. pending' \in Seq(Tokens)
    BY <2>1, <2>2, ConcatProperties DEF Piped
  <2>4. Len(out) \in Nat /\ Len(Rest(out)) \in Nat
    BY <2>2, LenProperties DEF Piped
  <2>5. Len(out') <= PipeSize
    BY <2>1, <2>2, <2>4, EventsConstants DEF Piped
  <2> QED
    BY <2>1, <2>2, <2>3, <2>5 DEF Piped
<1>4. CASE YieldRecord \/ BadLine
  <2>1. HasLine(pending) /\ pending' = AfterLine(pending) /\ UNCHANGED <<written, out, err>>
    BY <1>4 DEF YieldRecord, BadLine, workerVars
  <2>2. delivered' = delivered \/ delivered' = delivered \o Append(FirstLine(pending), "nl")
    BY <1>4 DEF YieldRecord, BadLine
  <2>3. AfterLine(pending) \in Seq(Tokens) /\ Append(FirstLine(pending), "nl") \in Seq(Tokens)
    BY <2>1, Lining DEF Piped
  <2>4. delivered' \in Seq(Tokens)
    BY <2>2, <2>3, ConcatProperties DEF Piped
  <2> QED
    BY <2>1, <2>3, <2>4 DEF Piped
<1>5. ASSUME UNCHANGED <<written, out, err, pending, delivered>>
      PROVE  Piped'
  BY <1>5 DEF Piped
<1>6. CASE (\E s \in Streams : CloseStream(s)) \/ WorkerExits \/ Elapse \/ ElapseAway \/ UNCHANGED vars
  BY <1>5, <1>6 DEF CloseStream, WorkerExits, Elapse, ElapseAway, generator, workerVars, vars
<1>7. CASE Ending \/ Consumer \/ Interrupt
  BY <1>5, <1>7 DEF Ending, Stop, Terminate, Gone, GraceOver, Kill, Killed, stopping,
                    Consumer, Resume, Close, Interrupt, workerVars
<1>8. CASE \/ TimesOut \/ Select \/ SelectNothing \/ EventsDone \/ Unfinished \/ Wait \/ WaitTimesOut
           \/ (\E s \in Streams : ReadEnd(s)) \/ LinesDone
  BY <1>5, <1>8 DEF TimesOut, Select, SelectNothing, EventsDone, Unfinished, Wait, WaitTimesOut,
                    ReadEnd, LinesDone, workerVars
<1>9. CASE Leaving
  BY <1>9, LeavingSteps DEF Piped
<1> QED
  BY <1>1, <1>2, <1>3, <1>4, <1>6, <1>7, <1>8, <1>9
  DEF Next, Leaving, Ending, Stopping, Worker, Step

-----------------------------------------------------------------------------
(* Steps and errors.                                                       *)

LEMMA PhasedStep == ASSUME Placed, Phased, [Next]_vars PROVE Phased'
<1> USE DEF Phased, Looping
<1>1. CASE Worker
  BY <1>1 DEF Placed, Worker, WriteOut, WriteErr, CloseStream, WorkerExits, generator
<1>2. CASE Elapse \/ ElapseAway \/ Interrupt \/ Consumer
  BY <1>2 DEF Elapse, ElapseAway, Interrupt, Raise, Consumer, Resume, Close, Suspended,
              workerVars, clock
<1>3. CASE Ending
  BY <1>3 DEF Placed, Ending, Stop, MustStop, Polled, Terminate, Signal, Gone, GraceOver,
              Stubborn, Kill, Killed, stopping
<1>4. CASE TimesOut \/ Select \/ SelectNothing \/ EventsDone \/ Unfinished \/ Wait \/ WaitTimesOut
  BY <1>4 DEF TimesOut, Select, SelectNothing, EventsDone, Unfinished, Wait,
              WaitTimesOut, Raise, workerVars, clock
<1>5. CASE ReadOut \/ ReadErr \/ \E s \in Streams : ReadEnd(s)
  BY <1>5 DEF ReadOut, ReadErr, ReadEnd, workerVars, clock
<1>6. CASE YieldRecord \/ BadLine \/ LinesDone
  BY <1>6 DEF YieldRecord, BadLine, LinesDone, Raise, workerVars, clock
<1>7. CASE UNCHANGED vars
  BY <1>7 DEF vars
<1>8. CASE Leaving
  BY <1>8, LeavingSteps DEF Unstopped
<1> QED
  BY <1>1, <1>2, <1>3, <1>4, <1>5, <1>6, <1>7, <1>8
  DEF Next, Leaving, Ending, Stopping, Step

LEMMA SpentStep == ASSUME Placed, Phased, Timed, Spent, [Next]_vars PROVE Spent'
<1>1. Timeout \in Nat /\ left \in 0 .. Timeout /\ active \in 0 .. Timeout /\ left + active >= Timeout
  BY EventsConstants DEF Timed, Spent
<1>2. CASE Elapse \/ SelectNothing
  <2>1. left > 0 /\ left' = left - 1 /\ active' = Least(active + 1, Timeout) /\ outcome' = outcome
    BY <1>2 DEF Elapse, SelectNothing, Ran
  <2>2. left' + active' >= Timeout /\ (active = Timeout => active' = Timeout)
    BY <1>1, <2>1 DEF Least
  <2> QED
    BY <2>1, <2>2 DEF Spent
<1>3. CASE TimesOut
  <2>1. left <= 0 /\ left' = left /\ active' = active
    BY <1>3 DEF TimesOut, clock
  <2>2. active' = Timeout /\ left' + active' >= Timeout
    BY <1>1, <2>1
  <2> QED
    BY <2>2 DEF Spent
<1>4. CASE WaitTimesOut
  <2>1. left' = Least(left, 0) /\ active' = Least(active + (left - left'), Timeout)
    BY <1>4 DEF WaitTimesOut, Ran
  <2>2. left' = 0
    BY <1>1, <2>1 DEF Least
  <2>3. active' = Timeout
    BY <1>1, <2>1, <2>2 DEF Least
  <2>4. left' + active' >= Timeout
    BY <1>1, <2>2, <2>3
  <2> QED
    BY <2>3, <2>4 DEF Spent
<1>5. ASSUME UNCHANGED <<left, active>>,
             outcome' \in {"timeout", "lingers"} => outcome' = outcome
      PROVE  Spent'
  BY <1>5 DEF Spent
<1>6. CASE Worker \/ Ending \/ UNCHANGED vars
  BY <1>5, <1>6 DEF Worker, WriteOut, WriteErr, CloseStream, WorkerExits, generator,
       Ending, Stop, Terminate, Gone, GraceOver, Kill, Killed, stopping, clock, vars
<1>7. CASE ElapseAway \/ Interrupt \/ Consumer
  BY <1>5, <1>7 DEF ElapseAway, Interrupt, Raise, Consumer, Resume, Close, Extended, clock
<1>8. CASE \/ Select \/ EventsDone \/ Unfinished \/ Wait \/ ReadOut \/ ReadErr
           \/ (\E s \in Streams : ReadEnd(s)) \/ YieldRecord \/ BadLine \/ LinesDone
  BY <1>5, <1>8 DEF Select, EventsDone, Unfinished, Wait, ReadOut, ReadErr, ReadEnd,
       YieldRecord, BadLine, LinesDone, Raise, clock
<1>9. CASE Leaving
  BY <1>9, LeavingSteps DEF Spent, Unstopped
<1> QED
  BY <1>2, <1>3, <1>4, <1>6, <1>7, <1>8, <1>9
  DEF Next, Leaving, Ending, Stopping, Step

-----------------------------------------------------------------------------
(* The output.                                                             *)

LEMMA WatchedStep == ASSUME Placed, Phased, Piped, Watched, [Next]_vars PROVE Watched'
<1> USE DEF Watched
<1>1. CASE Worker
  BY <1>1 DEF Placed, Phased, Worker, WriteOut, WriteErr, CloseStream, WorkerExits, generator
<1>2. CASE ReadOut
  BY <1>2 DEF Placed, Phased, Looping, ReadOut, clock
<1>3. CASE YieldRecord \/ BadLine
  BY <1>3 DEF Phased, Looping, YieldRecord, BadLine, Raise, workerVars, clock
<1>4. CASE \E s \in Streams : ReadEnd(s)
  BY <1>4 DEF ReadEnd, AtEnd, Streams, workerVars, clock
<1>5. CASE Elapse \/ ElapseAway \/ Interrupt \/ Consumer
  BY <1>5 DEF Phased, Looping, Elapse, ElapseAway, Interrupt, Raise, Consumer, Resume, Close, Suspended,
              workerVars, clock
<1>6. CASE Ending
  BY <1>6 DEF Ending, Stop, Terminate, Signal, Gone, GraceOver, Kill, Killed, stopping
<1>7. CASE TimesOut \/ Select \/ SelectNothing \/ EventsDone \/ Unfinished \/ Wait \/ WaitTimesOut
  BY <1>7 DEF TimesOut, Select, SelectNothing, EventsDone, Unfinished, Wait,
              WaitTimesOut, Raise, workerVars, clock
<1>8. CASE ReadErr \/ LinesDone
  BY <1>8 DEF ReadErr, LinesDone, Raise, workerVars, clock
<1>9. CASE UNCHANGED vars
  BY <1>9 DEF vars
<1>10. CASE Leaving
  BY <1>10, LeavingSteps DEF Unstopped
<1> QED
  BY <1>1, <1>2, <1>3, <1>4, <1>5, <1>6, <1>7, <1>8, <1>9, <1>10
  DEF Next, Leaving, Ending, Stopping, Step

(* What is written comes after all that was written before. *)
LEMMA Growing ==
    ASSUME NEW s \in Seq(Tokens), NEW o \in Seq(Tokens), NEW token \in Tokens
    PROVE  Append(s \o o, token) = s \o Append(o, token)
<1>1. PICK y : y = <<token>>
  OBVIOUS
<1>2. y \in Seq(Tokens)
  BY <1>1
<1>3. PICK z \in Seq(Tokens) : z = s \o o
  BY ConcatProperties
<1>4. Append(o, token) = o \o y
  BY <1>1, AppendIsConcat, Zenon
<1>5. Append(z, token) = z \o y
  BY <1>1, AppendIsConcat, Zenon
<1>6. (s \o o) \o y = s \o (o \o y)
  BY <1>2
<1> QED
  BY <1>3, <1>4, <1>5, <1>6, Zenon

LEMMA IntactStep == ASSUME Placed, Phased, Piped, Intact, [Next]_vars PROVE Intact'
<1>1. ASSUME NEW token \in Tokens, WriteOut(token)
      PROVE  Intact'
  <2>1. /\ out' = Append(out, token) /\ written' = Append(written, token)
        /\ UNCHANGED <<pending, delivered, outcome>>
    BY <1>1 DEF WriteOut, generator
  <2>2. delivered \in Seq(Tokens) /\ pending \in Seq(Tokens) /\ out \in Seq(Tokens)
    BY DEF Piped
  <2>3. PICK s \in Seq(Tokens) : s = delivered \o pending
    BY <2>2, ConcatProperties
  <2>4. Append(s \o out, token) = s \o Append(out, token)
    BY <2>2, Growing, Zenon
  <2>5. Append(delivered \o pending \o out, token) = delivered \o pending \o Append(out, token)
    BY <2>3, <2>4, Zenon
  <2> QED
    BY <2>1, <2>5 DEF Intact
<1>2. CASE ReadOut
  <2>1. /\ pending' = pending \o Chunk(out) /\ out' = Rest(out)
        /\ UNCHANGED <<written, delivered, outcome>>
    BY <1>2 DEF ReadOut
  <2>2. /\ Chunk(out) \in Seq(Tokens) /\ Rest(out) \in Seq(Tokens)
        /\ out = Chunk(out) \o Rest(out)
    BY Reading DEF Piped
  <2>3. PICK c, r : c = Chunk(out) /\ r = Rest(out)
    OBVIOUS
  <2>4. (delivered \o pending) \o (c \o r) = delivered \o (pending \o c) \o r
    <3>1. /\ delivered \in Seq(Tokens) /\ pending \in Seq(Tokens)
          /\ c \in Seq(Tokens) /\ r \in Seq(Tokens)
      BY <2>2, <2>3 DEF Piped
    <3> QED
      BY <3>1
  <2> QED
    BY <2>1, <2>2, <2>3, <2>4 DEF Intact
<1>3. CASE YieldRecord
  <2>1. /\ HasLine(pending) /\ pending' = AfterLine(pending)
        /\ delivered' = delivered \o Append(FirstLine(pending), "nl")
        /\ UNCHANGED <<written, out, outcome>>
    BY <1>3 DEF YieldRecord, workerVars
  <2>2. PICK l, a : l = Append(FirstLine(pending), "nl") /\ a = AfterLine(pending)
    OBVIOUS
  <2>3. l \in Seq(Tokens) /\ a \in Seq(Tokens) /\ pending = l \o a
    BY <2>1, <2>2, Lining DEF Piped
  <2>4. delivered \o (l \o a) = (delivered \o l) \o a
    <3>1. delivered \in Seq(Tokens)
      BY DEF Piped
    <3> QED
      BY <2>3, <3>1
  <2> QED
    BY <2>1, <2>2, <2>3, <2>4 DEF Intact
<1>4. CASE BadLine
  BY <1>4 DEF BadLine, Raise, Intact
<1>5. ASSUME UNCHANGED <<written, out, pending, delivered>>,
             outcome \in {"bad JSON", "long line"} \cup Unstopped => outcome' = outcome
      PROVE  Intact'
  BY <1>5 DEF Intact
<1>6. CASE WriteErr \/ (\E s \in Streams : CloseStream(s)) \/ WorkerExits \/ Elapse \/ ElapseAway
           \/ UNCHANGED vars
  BY <1>5, <1>6 DEF WriteErr, CloseStream, WorkerExits, Elapse, ElapseAway, generator, workerVars, vars
<1>7. CASE Ending
  BY <1>7 DEF Intact, Ending, Stop, Terminate, Gone, GraceOver, Kill, Killed, stopping
<1>8. CASE Consumer \/ Interrupt
  BY <1>5, <1>8 DEF Unstopped, Phased, Looping, Consumer, Resume, Close, Suspended, Interrupt, Raise, workerVars
<1>9. CASE \/ TimesOut \/ Select \/ SelectNothing \/ EventsDone \/ Unfinished \/ Wait \/ WaitTimesOut
           \/ ReadErr \/ (\E s \in Streams : ReadEnd(s)) \/ LinesDone
  BY <1>5, <1>9 DEF Unstopped, Phased, Looping, TimesOut, Select, SelectNothing, EventsDone, Unfinished, Wait,
                    WaitTimesOut, ReadErr, ReadEnd, LinesDone, Raise, workerVars
<1>10. CASE Leaving
  BY <1>10, LeavingSteps DEF Intact
<1> QED
  BY <1>1, <1>2, <1>3, <1>4, <1>6, <1>7, <1>8, <1>9, <1>10
  DEF Next, Leaving, Ending, Stopping, Worker, Step

LEMMA MeasuredStep == ASSUME Placed, Piped, Measured, [Next]_vars PROVE Measured'
<1>1. CASE ReadOut
  <2>1. pc = "events" /\ pending' = pending \o Chunk(out) /\ pc' = "lines"
    BY <1>1 DEF ReadOut
  <2>2. Chunk(out) \in Seq(Tokens) /\ Len(Chunk(out)) <= ReadSize
    BY Reading DEF Piped
  <2>3. /\ Len(pending') = Len(pending) + Len(Chunk(out))
        /\ Len(pending) \in Nat /\ Len(Chunk(out)) \in Nat
    BY <2>1, <2>2, ConcatProperties, LenProperties DEF Piped
  <2>4. Len(pending) <= LineLimit
    BY <2>1 DEF Measured
  <2>5. Len(pending') <= LineLimit + ReadSize
    BY <2>2, <2>3, <2>4, EventsConstants
  <2> QED
    BY <2>1, <2>5 DEF Measured
<1>2. CASE YieldRecord \/ BadLine
  <2>1. HasLine(pending) /\ pending' = AfterLine(pending) /\ pc' \in {"record", "stop"}
    BY <1>2 DEF YieldRecord, BadLine, Raise
  <2>2. /\ Len(AfterLine(pending)) < Len(pending)
        /\ Len(pending) \in Nat /\ Len(AfterLine(pending)) \in Nat
    BY <2>1, Lining, LenProperties DEF Piped
  <2>3. Len(pending') <= LineLimit + ReadSize
    BY <2>1, <2>2, EventsConstants DEF Measured
  <2> QED
    BY <2>1, <2>3 DEF Measured
<1>3. CASE LinesDone
  <2>1. ~ HasLine(pending) /\ pending' = pending
    BY <1>3 DEF LinesDone
  <2>2. pc' = "stop" \/ (pc' = "events" /\ ~ (Len(pending) > LineLimit))
    BY <1>3 DEF LinesDone, Raise, Overfull
  <2>3. ~ (Len(pending) > LineLimit) => Len(pending) <= LineLimit
    BY LenProperties, EventsConstants DEF Piped
  <2> QED
    BY <2>1, <2>2, <2>3 DEF Measured, HasLine, Contains
<1>4. ASSUME pending' = pending,
             pc' \in {"start", "head", "events", "tick"} => pc \in {"start", "head", "events", "tick"}
      PROVE  Measured'
  BY <1>4 DEF Measured, HasLine, Contains
<1>5. CASE Worker \/ Elapse \/ ElapseAway \/ UNCHANGED vars
  BY <1>4, <1>5 DEF Worker, WriteOut, WriteErr, CloseStream, WorkerExits, Elapse, ElapseAway,
                    generator, vars
<1>6. CASE Ending
  BY <1>4, <1>6 DEF Ending, Stop, Terminate, Signal, Gone, GraceOver, Stubborn, Kill, Killed, stopping
<1>7. CASE Consumer \/ Interrupt
  BY <1>4, <1>7 DEF Consumer, Resume, Close, Suspended, Interrupt, Raise
<1>8. CASE \/ TimesOut \/ Select \/ SelectNothing \/ EventsDone \/ Unfinished \/ Wait \/ WaitTimesOut
           \/ ReadErr \/ (\E s \in Streams : ReadEnd(s))
  BY <1>4, <1>8 DEF TimesOut, Select, SelectNothing, EventsDone, Unfinished, Wait, WaitTimesOut,
                    ReadErr, ReadEnd, Raise
<1>9. CASE Leaving
  BY <1>9, LeavingSteps DEF Measured, HasLine, Contains
<1> QED
  BY <1>1, <1>2, <1>3, <1>5, <1>6, <1>7, <1>8, <1>9
  DEF Next, Leaving, Ending, Stopping, Step

(* Where the pieces are in the whole. *)
LEMMA Places ==
    ASSUME NEW d \in Seq(Tokens), NEW q \in Seq(Tokens), NEW o \in Seq(Tokens)
    PROVE  /\ Len(d) \in Nat /\ Len(q) \in Nat /\ Len(o) \in Nat
           /\ Len(d \o q \o o) = Len(d) + Len(q) + Len(o)
           /\ \A k \in 1 .. Len(d) : (d \o q \o o)[k] = d[k]
           /\ \A k \in 1 .. Len(q) : (d \o q \o o)[Len(d) + k] = q[k]
<1>1. Len(d) \in Nat /\ Len(q) \in Nat /\ Len(o) \in Nat
  BY LenProperties
<1>2. PICK x \in Seq(Tokens) : x = d \o q
  BY ConcatProperties
<1>3. /\ Len(x) = Len(d) + Len(q)
      /\ \A i \in 1 .. Len(d) + Len(q) : x[i] = IF i <= Len(d) THEN d[i] ELSE q[i - Len(d)]
  BY <1>2, ConcatProperties
<1>4. /\ Len(x \o o) = Len(x) + Len(o)
      /\ \A i \in 1 .. Len(x) + Len(o) : (x \o o)[i] = IF i <= Len(x) THEN x[i] ELSE o[i - Len(x)]
  BY ConcatProperties
<1>5. \A k \in 1 .. Len(d) : (x \o o)[k] = d[k]
  BY <1>1, <1>3, <1>4
<1>6. \A k \in 1 .. Len(q) : (x \o o)[Len(d) + k] = q[k]
  <2> SUFFICES ASSUME NEW k \in 1 .. Len(q)
               PROVE  (x \o o)[Len(d) + k] = q[k]
    OBVIOUS
  <2>1. /\ Len(d) + k \in 1 .. Len(d) + Len(q) /\ ~ (Len(d) + k <= Len(d))
        /\ Len(d) + k - Len(d) = k /\ Len(d) + k <= Len(x) /\ Len(d) + k \in 1 .. Len(x) + Len(o)
    BY <1>1, <1>3
  <2> QED
    BY <1>3, <1>4, <2>1
<1> QED
  BY <1>1, <1>2, <1>3, <1>4, <1>5, <1>6

(* The line that is refused is in the output, at the end of the records. *)
LEMMA BadLineJust ==
    ASSUME EventsInv, BadLine
    PROVE  \/ outcome' = "long line" /\ LongLineIn(written)
           \/ outcome' = "bad JSON" /\ BadLineIn(written)
<1>1. PICK d, q, o, l : d = delivered /\ q = pending /\ o = out /\ l = FirstLine(pending)
  OBVIOUS
<1>2. PICK i, m : i = Len(d) /\ m = Len(l)
  OBVIOUS
<1>3. /\ d \in Seq(Tokens) /\ q \in Seq(Tokens) /\ o \in Seq(Tokens)
      /\ HasLine(q) /\ written = d \o q \o o /\ written' = written
      /\ d = <<>> \/ d[Len(d)] = "nl"
  BY <1>1 DEF EventsInv, Piped, BadLine, workerVars, Phased, Looping, Intact, Unstopped, Blamed
<1>4. /\ Len(written) = Len(d) + Len(q) + Len(o)
      /\ \A k \in 1 .. Len(d) : written[k] = d[k]
      /\ \A k \in 1 .. Len(q) : written[Len(d) + k] = q[k]
      /\ Len(d) \in Nat /\ Len(q) \in Nat /\ Len(o) \in Nat
  BY <1>3, Places
<1>5. /\ m = LineEnd(q) - 1 /\ LineEnd(q) \in 1 .. Len(q) /\ q[LineEnd(q)] = "nl"
      /\ \A k \in 1 .. LineEnd(q) - 1 : q[k] # "nl"
      /\ l \in Seq(Tokens)
  BY <1>1, <1>2, <1>3, Lining, LineFound
<1>6. \A k \in 1 .. m : l[k] = q[k]
  <2>1. l = SubSeq(q, 1, m)
    BY <1>1, <1>5 DEF FirstLine
  <2>2. \A k \in 1 .. m : q[k] \in Tokens
    BY <1>3, <1>4, <1>5, ElementOfSeq
  <2> QED
    BY <1>4, <1>5, <2>1, <2>2, SubSeqProperties
<1>7. /\ i \in Nat /\ m \in Nat /\ i + m + 1 <= Len(written) /\ Len(written) \in Nat
      /\ i \in 0 .. Len(written) /\ i + m \in i .. Len(written) - 1
      /\ i + m \in i .. Len(written)
  BY <1>2, <1>4, <1>5
<1>8. written[i + m + 1] = "nl"
  <2>1. PICK e \in 1 .. Len(q) : e = LineEnd(q)
    BY <1>5
  <2>2. e = m + 1
    BY <1>5, <2>1
  <2>3. Len(d) + e = i + m + 1
    BY <1>2, <1>7, <2>2
  <2>4. written[Len(d) + e] = q[e]
    BY <1>4, <2>1
  <2> QED
    BY <1>5, <2>1, <2>3, <2>4
<1>9. LineIn(written, i, i + m)
  <2>1. i = 0 \/ written[i] = "nl"
    <3>1. d = <<>> => i = 0
      BY <1>2
    <3>2. d # <<>> => i \in 1 .. Len(d)
      BY <1>2, <1>3, <1>4, EmptySeq
    <3> QED
      BY <1>2, <1>3, <1>4, <3>1, <3>2
  <2>2. ASSUME NEW k \in i + 1 .. i + m
        PROVE  written[k] # "nl"
    <3>0. k \in Int /\ i + 1 <= k /\ k <= i + m
      BY <1>7, <2>2
    <3>1. PICK j : j = k - i /\ j \in 1 .. m /\ k = Len(d) + j
      BY <1>2, <1>7, <3>0
    <3>2. j \in 1 .. Len(q) /\ j \in 1 .. LineEnd(q) - 1
      BY <1>4, <1>5, <3>1
    <3> QED
      BY <1>4, <1>5, <3>1, <3>2
  <2> QED
    BY <2>1, <2>2 DEF LineIn
<1>10. \/ outcome' = "long line" /\ m > LineLimit
       \/ outcome' = "bad JSON" /\ (l = <<>> \/ Contains(l, "junk"))
  BY <1>1, <1>2 DEF BadLine, Raise, TooLong, IsJson
<1>11. CASE outcome' = "long line" /\ m > LineLimit
  <2>1. PICK e : e = i + m
    OBVIOUS
  <2>3. i \in 0 .. Len(written) /\ e \in i .. Len(written) /\ LineIn(written, i, e) /\ e - i > LineLimit
    <3>1. e - i = m
      BY <1>7, <2>1
    <3> QED
      BY <1>7, <1>9, <1>11, <2>1, <3>1
  <2>2. \E a \in 0 .. Len(written) : \E b \in a .. Len(written) : LineIn(written, a, b) /\ b - a > LineLimit
    BY <2>3, Zenon
  <2> QED
    BY <1>11, <2>2, Zenon DEF LongLineIn
<1>12. CASE outcome' = "bad JSON" /\ (l = <<>> \/ Contains(l, "junk"))
  <2>1. i = i + m \/ \E k \in i + 1 .. i + m : written[k] = "junk"
    <3>1. CASE l = <<>>
      BY <1>2, <1>7, <3>1
    <3>2. CASE Contains(l, "junk")
      <4>1. PICK k \in 1 .. m : l[k] = "junk"
        BY <1>2, <3>2 DEF Contains
      <4>2. k \in 1 .. Len(q) /\ q[k] = "junk"
        BY <1>4, <1>5, <1>6, <4>1
      <4>3. written[Len(d) + k] = "junk" /\ Len(d) + k \in i + 1 .. i + m
        BY <1>2, <1>4, <1>7, <4>1, <4>2
      <4> QED
        BY <4>3
    <3> QED
      BY <1>12, <3>1, <3>2
  <2>2. \E a \in 0 .. Len(written) : \E b \in a .. Len(written) - 1 :
           /\ LineIn(written, a, b) /\ written[b + 1] = "nl"
           /\ a = b \/ \E k \in a + 1 .. b : written[k] = "junk"
    <3>1. PICK e : e = i + m
      OBVIOUS
    <3>2. /\ i \in 0 .. Len(written) /\ e \in i .. Len(written) - 1
          /\ LineIn(written, i, e) /\ written[e + 1] = "nl"
          /\ i = e \/ \E k \in i + 1 .. e : written[k] = "junk"
      BY <1>7, <1>8, <1>9, <2>1, <3>1
    <3> QED
      BY <3>2, Zenon
  <2> QED
    BY <1>12, <2>2, Zenon DEF BadLineIn
<1> QED
  BY <1>10, <1>11, <1>12

(* More output does not take a refused line away. *)
LEMMA BlameGrows ==
    ASSUME NEW w \in Seq(Tokens), NEW t \in Tokens
    PROVE  /\ LongLineIn(w) => LongLineIn(Append(w, t))
           /\ BadLineIn(w) => BadLineIn(Append(w, t))
<1>1. PICK v : v = Append(w, t)
  OBVIOUS
<1>2. /\ Len(w) \in Nat /\ Len(v) = Len(w) + 1
      /\ \A k \in 1 .. Len(w) : v[k] = w[k]
  BY <1>1, AppendProperties, LenProperties
<1>3. ASSUME NEW i \in 0 .. Len(w), NEW j \in i .. Len(w), LineIn(w, i, j)
      PROVE  LineIn(v, i, j)
  BY <1>2, <1>3 DEF LineIn
<1>4. ASSUME LongLineIn(w)
      PROVE  LongLineIn(v)
  <2>1. PICK i \in 0 .. Len(w) : \E j \in i .. Len(w) : LineIn(w, i, j) /\ j - i > LineLimit
    BY <1>4 DEF LongLineIn
  <2>2. PICK j \in i .. Len(w) : LineIn(w, i, j) /\ j - i > LineLimit
    BY <2>1
  <2>3. i \in 0 .. Len(v) /\ j \in i .. Len(v) /\ LineIn(v, i, j)
    BY <1>2, <1>3, <2>2
  <2> QED
    BY <2>2, <2>3, Zenon DEF LongLineIn
<1>5. ASSUME BadLineIn(w)
      PROVE  BadLineIn(v)
  <2>1. PICK i \in 0 .. Len(w) : \E j \in i .. Len(w) - 1 :
           /\ LineIn(w, i, j) /\ w[j + 1] = "nl"
           /\ i = j \/ \E k \in i + 1 .. j : w[k] = "junk"
    BY <1>5, Zenon DEF BadLineIn
  <2>2. PICK j \in i .. Len(w) - 1 :
           /\ LineIn(w, i, j) /\ w[j + 1] = "nl"
           /\ i = j \/ \E k \in i + 1 .. j : w[k] = "junk"
    BY <2>1
  <2>3. i \in 0 .. Len(v) /\ j \in i .. Len(v) - 1 /\ j \in i .. Len(w) /\ j + 1 \in 1 .. Len(w)
    BY <1>2, <2>2
  <2>4. LineIn(v, i, j) /\ v[j + 1] = "nl"
    BY <1>2, <1>3, <2>2, <2>3
  <2>5. i = j \/ \E k \in i + 1 .. j : v[k] = "junk"
    <3>1. CASE i = j
      BY <3>1
    <3>2. CASE i # j
      <4>1. PICK k \in i + 1 .. j : w[k] = "junk"
        BY <2>2, <3>2
      <4>2. v[k] = "junk"
        BY <1>2, <2>3, <4>1
      <4> QED
        BY <4>1, <4>2
    <3> QED
      BY <3>1, <3>2
  <2> QED
    BY <2>3, <2>4, <2>5, Zenon DEF BadLineIn
<1> QED
  BY <1>1, <1>4, <1>5, Zenon

(* What is pending after the records is a line without its end. *)
LEMMA PendingSeen ==
    ASSUME Piped, Intact, outcome = "none", ~ HasLine(pending),
           delivered = <<>> \/ delivered[Len(delivered)] = "nl"
    PROVE  /\ Len(pending) > LineLimit => LongLineIn(written)
           /\ pending # <<>> /\ out = <<>> => EndsInLine(written)
<1>1. PICK d, q, o : d = delivered /\ q = pending /\ o = out
  OBVIOUS
<1>2. PICK i, e : i = Len(d) /\ e = i + Len(q)
  OBVIOUS
<1>3. /\ d \in Seq(Tokens) /\ q \in Seq(Tokens) /\ o \in Seq(Tokens)
      /\ written = d \o q \o o
      /\ d = <<>> \/ d[Len(d)] = "nl"
  BY <1>1 DEF Piped, Intact, Unstopped
<1>4. /\ Len(written) = Len(d) + Len(q) + Len(o)
      /\ \A k \in 1 .. Len(d) : written[k] = d[k]
      /\ \A k \in 1 .. Len(q) : written[Len(d) + k] = q[k]
      /\ Len(d) \in Nat /\ Len(q) \in Nat /\ Len(o) \in Nat
  BY <1>3, Places
<1>5. /\ i \in 0 .. Len(written) /\ e \in i .. Len(written) /\ e - i = Len(q)
  BY <1>2, <1>4
<1>6. \A k \in 1 .. Len(q) : q[k] # "nl"
  BY <1>1 DEF HasLine, Contains
<1>7. LineIn(written, i, e)
  <2>1. i = 0 \/ written[i] = "nl"
    <3>1. d = <<>> => i = 0
      BY <1>2
    <3>2. d # <<>> => i \in 1 .. Len(d)
      BY <1>2, <1>3, <1>4, EmptySeq
    <3> QED
      BY <1>2, <1>3, <1>4, <3>1, <3>2
  <2>2. ASSUME NEW k \in i + 1 .. e
        PROVE  written[k] # "nl"
    <3>0. k \in Int /\ i + 1 <= k /\ k <= e
      BY <1>2, <1>4, <2>2
    <3>1. PICK j : j = k - Len(d)
      OBVIOUS
    <3>2. j \in 1 .. Len(q) /\ k = Len(d) + j
      BY <1>2, <1>4, <3>0, <3>1
    <3> QED
      BY <1>4, <1>6, <3>2
  <2> QED
    BY <2>1, <2>2 DEF LineIn
<1>8. Len(q) > LineLimit => LongLineIn(written)
  BY <1>5, <1>7, Zenon DEF LongLineIn
<1>9. ASSUME q # <<>>, o = <<>>
      PROVE  EndsInLine(written)
  <2>1. Len(q) \in 1 .. Len(q) /\ Len(o) = 0
    BY <1>3, <1>4, <1>9, EmptySeq
  <2>2. Len(written) = Len(d) + Len(q) /\ Len(written) > 0
    BY <1>4, <2>1
  <2> QED
    BY <1>4, <1>6, <2>1, <2>2 DEF EndsInLine
<1> QED
  BY <1>1, <1>8, <1>9

LEMMA BlamedStep == ASSUME EventsInv, [Next]_vars PROVE Blamed'
<1> USE DEF EventsInv
<1>1. Piped /\ written \in Seq(Tokens)
  BY DEF Piped
<1>2. ASSUME NEW token \in Tokens, WriteOut(token)
      PROVE  Blamed'
  <2>1. /\ written' = Append(written, token) /\ "stdout" \in open
        /\ delivered' = delivered /\ outcome' = outcome
    BY <1>2 DEF WriteOut, generator
  <2>2. /\ LongLineIn(written) => LongLineIn(written')
        /\ BadLineIn(written) => BadLineIn(written')
    BY <1>1, <2>1, BlameGrows
  <2> QED
    BY <2>1, <2>2 DEF Blamed
<1>3. ASSUME YieldRecord
      PROVE  Blamed'
  <2>1. PICK l : l = FirstLine(pending)
    OBVIOUS
  <2>2. /\ delivered' = delivered \o Append(l, "nl") /\ HasLine(pending)
        /\ outcome' = outcome /\ outcome = "none"
    BY <1>3, <2>1 DEF YieldRecord, Phased, Looping
  <2>3. delivered \in Seq(Tokens) /\ Append(l, "nl") \in Seq(Tokens) /\ l \in Seq(Tokens)
    BY <2>1, <2>2, Lining DEF Piped
  <2>4. Append(l, "nl")[Len(Append(l, "nl"))] = "nl" /\ Len(Append(l, "nl")) \in Nat /\ Len(Append(l, "nl")) > 0
    <3>1. Len(Append(l, "nl")) = Len(l) + 1 /\ Append(l, "nl")[Len(l) + 1] = "nl" /\ Len(l) \in Nat
      BY <2>3, AppendProperties, LenProperties DEF Tokens
    <3> QED
      BY <3>1
  <2>5. PICK d, a : d = delivered /\ a = Append(l, "nl")
    OBVIOUS
  <2>6. /\ Len(d \o a) = Len(d) + Len(a)
        /\ \A k \in 1 .. Len(d) + Len(a) : (d \o a)[k] = IF k <= Len(d) THEN d[k] ELSE a[k - Len(d)]
        /\ Len(d) \in Nat /\ Len(a) \in Nat /\ Len(a) > 0 /\ a[Len(a)] = "nl"
    BY <2>3, <2>4, <2>5, ConcatProperties, LenProperties
  <2>7. (d \o a)[Len(d \o a)] = "nl"
    <3>1. /\ Len(d) + Len(a) \in 1 .. Len(d) + Len(a) /\ ~ (Len(d) + Len(a) <= Len(d))
          /\ Len(d) + Len(a) - Len(d) = Len(a)
      BY <2>6
    <3> QED
      BY <2>6, <3>1
  <2> QED
    BY <2>2, <2>5, <2>7 DEF Blamed
<1>4. ASSUME BadLine
      PROVE  Blamed'
  <2>1. written' = written /\ delivered' = delivered
    BY <1>4 DEF BadLine, workerVars
  <2>2. \/ outcome' = "long line" /\ LongLineIn(written)
        \/ outcome' = "bad JSON" /\ BadLineIn(written)
    BY <1>4, BadLineJust
  <2> QED
    BY <2>1, <2>2 DEF Blamed
<1>5. ASSUME LinesDone \/ Unfinished
      PROVE  Blamed'
  <2>1. /\ outcome = "none" /\ ~ HasLine(pending)
        /\ UNCHANGED <<written, open, delivered>>
    BY <1>5 DEF LinesDone, Unfinished, Phased, Looping, Measured, workerVars
  <2>2. /\ Len(pending) > LineLimit => LongLineIn(written)
        /\ pending # <<>> /\ out = <<>> => EndsInLine(written)
    BY <1>1, <2>1, PendingSeen DEF Blamed
  <2>3. CASE LinesDone
    BY <2>1, <2>2, <2>3 DEF LinesDone, Overfull, Raise, Blamed
  <2>4. CASE Unfinished
    BY <2>1, <2>2, <2>4 DEF Unfinished, Raise, Watched, Blamed
  <2> QED
    BY <1>5, <2>3, <2>4
<1>6. ASSUME UNCHANGED <<written, delivered>>, open' \subseteq open,
             \/ outcome' = outcome
             \/ outcome' \notin {"long line", "bad JSON", "unfinished line"}
      PROVE  Blamed'
  BY <1>6 DEF Blamed
<1>7. CASE \/ WriteErr \/ (\E s \in Streams : CloseStream(s)) \/ WorkerExits
           \/ Elapse \/ ElapseAway \/ Interrupt
  BY <1>6, <1>7 DEF WriteErr, CloseStream, WorkerExits, generator, Elapse, ElapseAway, Interrupt,
       Raise, workerVars
<1>8. CASE Consumer \/ UNCHANGED vars
  BY <1>6, <1>8 DEF Consumer, Resume, Close, workerVars, vars
<1>9. CASE Ending
  BY <1>6, <1>9 DEF Ending, Stop, Terminate, Gone, GraceOver, Kill, Killed, stopping
<1>10. CASE \/ TimesOut \/ Select \/ SelectNothing \/ EventsDone \/ Wait \/ WaitTimesOut
            \/ ReadOut \/ ReadErr \/ \E s \in Streams : ReadEnd(s)
  BY <1>6, <1>10 DEF TimesOut, Select, SelectNothing, EventsDone, Wait, WaitTimesOut, ReadOut,
       ReadErr, ReadEnd, Raise, workerVars, clock
<1>11. CASE Leaving
  BY <1>11, LeavingSteps DEF Blamed, Unstopped
<1> QED
  BY <1>2, <1>3, <1>4, <1>5, <1>7, <1>8, <1>9, <1>10, <1>11
  DEF Next, Leaving, Ending, Stopping, Step, Worker

-----------------------------------------------------------------------------
(* The theorems.                                                           *)

LEMMA EventsStart == ASSUME Init PROVE EventsInv
<1> USE EventsConstants DEF Init
<1>1. <<>> \in Seq(Tokens) /\ Len(<<>>) = 0 /\ <<>> \o <<>> \o <<>> = <<>>
  BY EmptySeq, ConcatEmptySeq
<1>2. Placed /\ Timed /\ Phased /\ Spent /\ Watched
  BY DEF Placed, Timed, Phased, Looping, Spent, Watched
<1>3. Piped /\ Intact /\ Blamed
  BY <1>1 DEF Piped, Intact, Blamed
<1>4. ~ HasLine(pending)
  BY <1>1 DEF HasLine, Contains
<1>5. Measured
  BY <1>1, <1>4 DEF Measured
<1> QED
  BY <1>2, <1>3, <1>5 DEF EventsInv

LEMMA EventsStep == ASSUME EventsInv, [Next]_vars PROVE EventsInv'
<1>1. Placed /\ Timed /\ Piped /\ Phased /\ Spent /\ Watched /\ Intact /\ Measured
  BY DEF EventsInv
<1>2. Placed' /\ Timed' /\ Piped' /\ Phased' /\ Spent'
  BY <1>1, PlacedStep, TimedStep, PipedStep, PhasedStep, SpentStep
<1>3. Watched' /\ Intact' /\ Measured' /\ Blamed'
  BY <1>1, WatchedStep, IntactStep, MeasuredStep, BlamedStep
<1> QED
  BY <1>2, <1>3 DEF EventsInv

LEMMA EventsInvariant == Spec => []EventsInv
<1>1. Init => EventsInv
  BY EventsStart
<1>2. EventsInv /\ [Next]_vars => EventsInv'
  BY EventsStep
<1> QED
  BY <1>1, <1>2, PTL DEF Spec

(* Types, and the most that an unfinished line can take, whatever is       *)
(* written and however it is cut.                                          *)
THEOREM EventsTyped == Spec => []TypeOK
<1>1. EventsInv => left <= Timeout
  <2>1. Timeout \in Nat
    BY EventsConstants
  <2> QED
    BY <2>1 DEF EventsInv, Timed
<1>2. EventsInv => TypeOK
  BY <1>1, Zenon DEF EventsInv, Placed, Timed, Piped, Measured, TypeOK
<1> QED
  BY <1>2, EventsInvariant, PTL

(* The records, the unfinished line and the pipe hold all that was         *)
(* written, in its order.                                                  *)
THEOREM OutputIsIntact == Spec => []NothingLost
<1>1. EventsInv => NothingLost
  BY DEF EventsInv, Intact, NothingLost
<1> QED
  BY <1>1, EventsInvariant, PTL

(* The exit code comes after every record, and from a worker that has been *)
(* waited for.                                                             *)
THEOREM ExitComesLast == Spec => []AllBeforeExit
<1>1. ASSUME EventsInv, outcome = "exit"
      PROVE  delivered = written /\ worker = "reaped"
  <2>1. written = delivered \o pending \o out /\ delivered \in Seq(Tokens)
    BY <1>1 DEF EventsInv, Intact, Unstopped, Piped
  <2>2. out = <<>> /\ pending = <<>> /\ worker = "reaped"
    BY <1>1 DEF EventsInv, Watched, Phased
  <2> QED
    BY <2>1, <2>2, ConcatEmptySeq
<1>2. EventsInv => AllBeforeExit
  BY <1>1 DEF AllBeforeExit
<1> QED
  BY <1>2, EventsInvariant, PTL

(* A line is refused for what the worker wrote, and not for how it was     *)
(* read.                                                                   *)
THEOREM WorkerIsToBlame == Spec => []BlameIsJust
<1>1. ASSUME EventsInv PROVE BlameIsJust
  <2>1. outcome = "long line" =>
           \E i \in 0 .. Len(written) : \E j \in i .. Len(written) : OneLine(i, j) /\ j - i > LineLimit
    BY <1>1 DEF EventsInv, Blamed, LongLineIn, LineIn, OneLine
  <2>2. outcome = "bad JSON" =>
           \E i \in 0 .. Len(written) : \E j \in i .. Len(written) - 1 :
              /\ OneLine(i, j) /\ written[j + 1] = "nl"
              /\ i = j \/ \E k \in i + 1 .. j : written[k] = "junk"
    BY <1>1, Zenon DEF EventsInv, Blamed, BadLineIn, LineIn, OneLine
  <2>3. outcome = "unfinished line" => Len(written) > 0 /\ written[Len(written)] # "nl"
    BY <1>1 DEF EventsInv, Blamed, EndsInLine
  <2> QED
    BY <2>1, <2>2, <2>3 DEF BlameIsJust
<1>2. EventsInv => BlameIsJust
  BY <1>1
<1> QED
  BY <1>2, EventsInvariant, PTL

(* The time the consumer takes is not the worker's. *)
THEOREM TimeIsTheGenerators == Spec => []TimesOutJustly
<1>1. EventsInv => TimesOutJustly
  BY EventsConstants DEF EventsInv, Spent, TimesOutJustly
<1> QED
  BY <1>1, EventsInvariant, PTL

(* The worker is gone when the generator is. *)
THEOREM WorkerIsGone == Spec => []NoWorkerLeft
<1>1. EventsInv => NoWorkerLeft
  BY DEF EventsInv, Phased, NoWorkerLeft, Closed
<1> QED
  BY <1>1, EventsInvariant, PTL

(* Signals go to the worker's own process group. *)
THEOREM SignalsReachTheWorker == Spec => SignalsItsWorker
<1>1. EventsInv /\ [Next]_vars => [Signals => worker # "reaped"]_vars
  BY DEF EventsInv, Phased, Signals
<1> QED
  BY <1>1, EventsInvariant, PTL DEF Spec, SignalsItsWorker
=============================================================================
