------------------------------ MODULE GpuSearch -----------------------------
(***************************************************************************)
(* The search mode of cuda/salsa_search.cu: the host loop over batches and *)
(* the threads of the kernel that share a hit counter, an overflow flag    *)
(* and a hit buffer.                                                       *)
(*                                                                         *)
(* A thread's test of one candidate is a step, and so is what it does with *)
(* the position that atomicAdd gave it, so that every order of the         *)
(* threads' atomics and stores is explored.  The host waits for the kernel *)
(* before it reads.  Whether a candidate matches never changes: the Salsa  *)
(* block and the comparison with the target have no state, and every set   *)
(* of matching candidates is considered.                                   *)
(***************************************************************************)
EXTENDS Integers, Sequences, Functions

CONSTANTS
    Requests,           \* Command lines: START, COUNT and BATCH_COUNT.
    Grid,               \* Threads of a launch, blocks and threads together.
    HitCapacity,        \* hit_capacity: places in the hit buffer.
    Timed               \* MAX_SECONDS is not 0.

ASSUME GpuConstants ==
    /\ Requests \subseteq [start : Nat, count : Nat, batch : Nat \ {0}]
    /\ Grid \in Nat \ {0} /\ HitCapacity \in Nat \ {0}
    /\ Timed \in BOOLEAN

Lanes == 0 .. Grid - 1
Nothing == -1           \* What a place of the buffer holds at first.

VARIABLES
    request,        \* The worker's command line.
    matches,        \* The candidates that match; fixed from the start.
    pc,             \* The host's next step.
    next,           \* Host: candidates below next are published.
    count,          \* Host: size of the batch in flight.
    lane,           \* lane[t]: the thread t of the running kernel.
    hitCount,       \* Device: hit_count
    overflow,       \* Device: overflow
    hits,           \* Device: the hit buffer, never cleared, and what is behind it.
    output,         \* The records on standard output.
    exit            \* "running", then "ok" or "error".

device == <<hitCount, overflow, hits>>
vars == <<request, matches, pc, next, count, lane, hitCount, overflow, hits, output, exit>>

Start == request.start
Count == request.count
BatchCount == request.batch
End == Start + Count

(* The positions that atomicAdd can hand out: the buffer's, and those      *)
(* behind its end.                                                         *)
Places == 0 .. HitCapacity + BatchCount

(* A thread: the index i it is at, the candidate's position in the buffer  *)
(* when it has one.                                                        *)
Idle == [at |-> "done", i |-> 0, position |-> 0]

Init ==
    /\ request \in Requests
    /\ matches \in SUBSET (Start .. End - 1)
    /\ pc = "device"
    /\ next = Start
    /\ count = 0
    /\ lane = [t \in Lanes |-> Idle]
    /\ hitCount = 0 /\ overflow = FALSE
    /\ hits = [k \in Places |-> Nothing]
    /\ output = <<>>
    /\ exit = "running"

-----------------------------------------------------------------------------
(* The host.                                                               *)

Device ==
    /\ pc = "device"
    /\ output' = <<[type |-> "device"]>>
    /\ pc' = "head"
    /\ UNCHANGED <<request, matches, next, count, lane, device, exit>>

BatchSize(n) == IF BatchCount < End - n THEN BatchCount ELSE End - n

(* Slip: the flags of the last batch left as they are. *)
ClearedNot(value, zero) == value

(* cudaMemset of the counter and of the flag. *)
Cleared(value, zero) == zero

(* The next batch: clear, launch. *)
Launch ==
    /\ pc = "head"
    /\ next < End
    /\ count' = BatchSize(next)
    /\ hitCount' = Cleared(hitCount, 0)
    /\ overflow' = Cleared(overflow, FALSE)
    /\ lane' = [t \in Lanes |-> [at |-> "test", i |-> t, position |-> 0]]
    /\ pc' = "kernel"
    /\ UNCHANGED <<request, matches, next, hits, output, exit>>

(* "next < end" fails, or the time is up: the summary. *)
Stop ==
    /\ pc = "head"
    /\ next >= End \/ Timed
    /\ output' = Append(output,
          [type |-> "summary", start |-> Start, next |-> next,
           tested |-> next - Start, completed |-> next = End,
           reason |-> IF next = End THEN "completed" ELSE "max_seconds"])
    /\ pc' = "exit"
    /\ UNCHANGED <<request, matches, next, count, lane, device, exit>>

Exit ==
    /\ pc = "exit"
    /\ exit' = "ok"
    /\ pc' = "gone"
    /\ UNCHANGED <<request, matches, next, count, lane, device, output>>

Overflowed(found, flag) == flag \/ found > HitCapacity

KernelOver == \A t \in Lanes : lane[t].at = "done"

(* The kernel is over and did not fit: nothing of the batch is published.  *)
Refuse ==
    /\ pc = "kernel" /\ KernelOver
    /\ Overflowed(hitCount, overflow)
    /\ output' = Append(output, [type |-> "error"])
    /\ exit' = "error"
    /\ pc' = "gone"
    /\ UNCHANGED <<request, matches, next, count, lane, device>>

(* The first hitCount places of the buffer, sorted. *)
Found == [k \in 1 .. hitCount |-> hits[k - 1]]

(* Slip: the hits as the threads stored them. *)
AsStored(s) == s

Sorts(order, s) ==
    \A j, k \in DOMAIN s : j < k => s[order[j]] <= s[order[k]]

(* std::sort: the same elements, none before a smaller one. *)
InOrder(s) ==
    LET order == CHOOSE f \in Bijection(DOMAIN s, DOMAIN s) : Sorts(f, s)
    IN [k \in DOMAIN s |-> s[order[k]]]

Publish ==
    /\ pc = "kernel" /\ KernelOver
    /\ ~ Overflowed(hitCount, overflow)
    /\ output' = Append(output,
          [type |-> "batch", start |-> next, count |-> count,
           hits |-> InOrder(Found), overflow |-> FALSE])
    /\ next' = next + count
    /\ pc' = "head"
    /\ UNCHANGED <<request, matches, count, lane, device, exit>>

(* Arguments refused, a CUDA call or a write that fails: a message on the  *)
(* standard error and a code other than 0.                                 *)
Fail ==
    /\ pc \in {"device", "head", "kernel", "exit"}
    /\ exit' = "error"
    /\ pc' = "gone"
    /\ UNCHANGED <<request, matches, next, count, lane, device, output>>

-----------------------------------------------------------------------------
(* The kernel, one thread of which is t.                                   *)

(* The grid-stride loop: the thread's next index, if there is one. *)
Onward(t) ==
    IF lane[t].i + Grid < count
    THEN [at |-> "test", i |-> lane[t].i + Grid, position |-> 0]
    ELSE Idle

(* A launch has more threads than the batch has candidates. *)
Spare(t) ==
    /\ pc = "kernel" /\ lane[t].at = "test"
    /\ lane[t].i >= count
    /\ lane' = [lane EXCEPT ![t] = Idle]
    /\ UNCHANGED <<request, matches, pc, next, count, device, output, exit>>

Miss(t) ==
    /\ pc = "kernel" /\ lane[t].at = "test"
    /\ lane[t].i < count
    /\ next + lane[t].i \notin matches
    /\ lane' = [lane EXCEPT ![t] = Onward(t)]
    /\ UNCHANGED <<request, matches, pc, next, count, device, output, exit>>

(* atomicAdd gives every hit a position of its own. *)
Hit(t) ==
    /\ pc = "kernel" /\ lane[t].at = "test"
    /\ lane[t].i < count
    /\ next + lane[t].i \in matches
    /\ hitCount' = hitCount + 1
    /\ lane' = [lane EXCEPT ![t].at = "store", ![t].position = hitCount]
    /\ UNCHANGED <<request, matches, pc, next, count, overflow, hits, output, exit>>

Fits(position) == position < HitCapacity

Store(t) ==
    /\ pc = "kernel" /\ lane[t].at = "store"
    /\ IF Fits(lane[t].position)
       THEN /\ hits' = [hits EXCEPT ![lane[t].position] = next + lane[t].i]
            /\ UNCHANGED overflow
       ELSE /\ overflow' = TRUE
            /\ UNCHANGED hits
    /\ lane' = [lane EXCEPT ![t] = Onward(t)]
    /\ UNCHANGED <<request, matches, pc, next, count, hitCount, output, exit>>

-----------------------------------------------------------------------------
Host == Device \/ Launch \/ Stop \/ Exit \/ Refuse \/ Publish \/ Fail

Lane(t) == Spare(t) \/ Miss(t) \/ Hit(t) \/ Store(t)

Next == Host \/ \E t \in Lanes : Lane(t)

Spec == Init /\ [][Next]_vars

-----------------------------------------------------------------------------
(* Properties.                                                             *)

InFlight == {t \in Lanes : lane[t].at = "store"}

Taken(t) == lane[t].position

(* Every place below the counter that fits is either filled with a hit of  *)
(* this batch or about to be, by one thread, and no hit fills two places:  *)
(* what the host copies after the kernel is this batch's hits and nothing  *)
(* left of an earlier batch in the same buffer; and nothing is ever stored *)
(* behind the buffer's end (lines 60-61, 157, 178).                        *)
BufferAccounted ==
    /\ \A k \in Places : k >= HitCapacity => hits[k] = Nothing
    /\ pc = "kernel" =>
        LET fitting == {k \in 0 .. hitCount - 1 : k < HitCapacity}
            filled  == {k \in fitting : \A t \in InFlight : Taken(t) # k}
        IN /\ \A t, u \in InFlight : Taken(t) = Taken(u) => t = u
           /\ \A k \in filled : hits[k] \in next .. next + count - 1
           /\ \A j, k \in filled : hits[j] = hits[k] => j = k

(* The worker keeps the protocol its driver relies on: the kernel's races  *)
(* never change what a batch lists, an overfull batch is never published,  *)
(* and batches and summary add up (lines 172-193).                         *)
Candidates == UNION {r.start .. r.start + r.count - 1 : r \in Requests}

Protocol == INSTANCE WorkerProtocol
    WITH HitLists <- UNION {[1 .. n -> Candidates] : n \in 0 .. HitCapacity}

ImplementsProtocol == Protocol!Spec
=============================================================================
