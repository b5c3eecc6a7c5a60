------------------------------ MODULE GpuSystem -----------------------------
(***************************************************************************)
(* The whole search: run_search, its checkpoint and its pipe, with the     *)
(* host and the kernel of salsa_search.cu in the worker's place.           *)
(*                                                                         *)
(* SearchSystem has any worker that keeps WorkerProtocol there, GpuSearch  *)
(* is one worker on its own.  Here every segment has a worker with the     *)
(* command line that the driver gives it and with memory of its own, and   *)
(* the host looks at SearchSystem's clock.                                 *)
(***************************************************************************)
EXTENDS SearchSystem

CONSTANTS
    Grid,           \* Threads of a launch.
    HitCapacity     \* Places in the hit buffer, 4096.

VARIABLES
    host,           \* GpuSearch's pc,
    published,      \* next,
    launched,       \* count,
    lane,
    hitCount, overflow,
    buffer          \* and hits.

kernel == <<host, published, launched, lane, hitCount, overflow, buffer>>
wholeVars == <<systemVars, kernel>>

(* The command lines of run_search. *)
Requests ==
    UNION {{[start |-> WorkerStart(c, n), count |-> WorkerCount(c, n), batch |-> b] :
                n \in 0 .. Total[c] - 1, b \in BatchSizes} : c \in Configs}

Gpu == INSTANCE GpuSearch
    WITH pc <- host, next <- published, count <- launched, hits <- buffer, Timed <- TRUE

ASSUME GpuSystemConstants ==
    /\ Grid \in Nat \ {0}
    /\ HitCapacity \in Nat \ {0}

(* SearchRunner's records have room for every list of a whole buffer. *)
ASSUME ListsSuffice ==
    \A n \in 0 .. HitCapacity : \A s \in [1 .. n -> Gpu!Candidates] :
        Worker!Ascending(s) => s \in HitLists

-----------------------------------------------------------------------------
(* The worker's process.                                                   *)

(* cudaMalloc and the host's first variables. *)
StartHost ==
    /\ host' = IF exit' = "running" THEN "device" ELSE "gone"
    /\ published' = request'.start
    /\ launched' = 0
    /\ lane' = [t \in Gpu!Lanes |-> Gpu!Idle]
    /\ hitCount' = 0 /\ overflow' = FALSE
    /\ buffer' = [k \in 0 .. HitCapacity + request'.batch |-> Gpu!Nothing]

EndHost == host' = "gone" /\ UNCHANGED <<published, launched, lane, hitCount, overflow, buffer>>

(* The clock is looked at as soon as the record before is written. *)
HostDevice ==
    /\ Gpu!Device
    /\ goesOn' = AnotherBatch(request.start)
    /\ phase' = 0
    /\ UNCHANGED <<runner, taken, elapsed, charged>>

HostPublish ==
    /\ Gpu!Publish
    /\ goesOn' = AnotherBatch(published')
    /\ phase' = 0
    /\ UNCHANGED <<runner, taken, elapsed, charged>>

HostLaunch == goesOn /\ Gpu!Launch /\ UNCHANGED <<runner, goesOn, taken, clocks>>

HostStop == ~ goesOn /\ Gpu!Stop /\ UNCHANGED <<runner, goesOn, taken, clocks>>

HostExit == Gpu!Exit /\ UNCHANGED <<runner, goesOn, taken, clocks>>

HostRefuse == Gpu!Refuse /\ UNCHANGED <<runner, goesOn, taken, clocks>>

HostFails == Gpu!Fail /\ UNCHANGED <<runner, goesOn, taken, clocks>>

Thread(t) == Gpu!Lane(t) /\ UNCHANGED <<runner, goesOn, taken, clocks>>

(* What the worker does as long as nothing fails in it. *)
GpuWorker ==
    \/ HostDevice \/ HostLaunch \/ HostPublish \/ HostRefuse \/ HostStop \/ HostExit
    \/ \E t \in Gpu!Lanes : Thread(t)

-----------------------------------------------------------------------------
WholeInit ==
    /\ SystemInit
    /\ host = "gone" /\ published = 0 /\ launched = 0
    /\ lane = [t \in Gpu!Lanes |-> Gpu!Idle]
    /\ hitCount = 0 /\ overflow = FALSE
    /\ buffer = [k \in 0 .. HitCapacity + request.batch |-> Gpu!Nothing]

WholeDriver(p) ==
    \/ StartWorker(p) /\ StartHost
    \/ (SeeExit(p) \/ Refuse(p)) /\ EndHost
    \/ (ReadRecord(p) \/ Alone(p)) /\ UNCHANGED kernel

WholeNext ==
    \/ \E p \in Procs : WholeDriver(p) \/ (Abandon(p) /\ EndHost)
    \/ SystemPowerLoss /\ EndHost
    \/ GpuWorker \/ HostFails
    \/ (Tick \/ TickAway) /\ UNCHANGED kernel

WholeSpec == WholeInit /\ [][WholeNext]_wholeVars

(* The driver reads on, host and threads run, and the caller resumes. *)
WholeFair ==
    /\ WholeSpec
    /\ \A p \in Procs : WF_wholeVars(WholeDriver(p))
    /\ WF_wholeVars(GpuWorker)

-----------------------------------------------------------------------------
(* Properties.                                                             *)

(* What the driver hears of the threads, in every segment and after every  *)
(* resumption, is what an honest worker would have said: what is shown of  *)
(* SearchSystem, and so of lost, repeated and refused hits, holds of the   *)
(* kernel and the driver together.                                         *)
ImplementsSystem == SystemSpec
=============================================================================
