----------------------------- MODULE SearchProofs ----------------------------
(***************************************************************************)
(* Theorems about run_search for any processes, searches, batch sizes,     *)
(* shard size, limits and times: first of the driver with any worker       *)
(* (SearchRunner), then of the driver and an honest worker at the two ends *)
(* of a pipe (SearchSystem), then with the CUDA worker there (GpuSystem).  *)
(*                                                                         *)
(* NoLostHit says nothing of the session that is about to write the next   *)
(* document, so it is not inductive.  RunnerInv adds what makes the write  *)
(* safe: one session at a time, whose position is the one on the path, and *)
(* whose hits between that position and its goal are all either handled or *)
(* still to be handed out.                                                 *)
(*                                                                         *)
(* The driver's position is a number of its own, and the worker may be     *)
(* ahead of it by any number of records.  SystemInv says how they belong   *)
(* together: the records are a chain from the start of the request, and    *)
(* the driver is where the chain is after the records that it took.        *)
(***************************************************************************)
EXTENDS GpuSystem, TLAPS

USE DEF Unlaunched

-----------------------------------------------------------------------------
(* The inductive invariant of the driver.                                  *)

SegmentEnd(s) == s.from + WorkerCount(s.cfg, s.from)

Active(s) == s.pc # "idle"

(* What is on the path, by how far the session is. *)
Located(s) ==
    /\ s.pc = "load" => s.from = Unlaunched
    /\ s.pc \in {"events", "yield"} => s.from # Unlaunched
    /\ s.pc \in {"loop", "events", "yield"} => visible = Document(s.cfg, s.next)
    /\ s.pc = "save" /\ s.from # Unlaunched => visible = Document(s.cfg, s.next)
    /\ s.pc = "save" /\ s.from = Unlaunched => visible = NoFile /\ s.goal = 0
    /\ s.pc = "sync" => visible = Document(s.cfg, s.goal)

(* A session stays in the segment it gave its worker. *)
Within(s) ==
    s.from # Unlaunched =>
        /\ s.pc \in {"events", "yield", "save", "sync"} =>
              s.from < Total[s.cfg] /\ s.from <= s.next /\ s.next <= SegmentEnd(s)
        /\ s.pc \in {"yield", "save", "sync"} =>
              s.next < s.goal /\ s.goal <= SegmentEnd(s)

(* The candidate that the hit i of the batch stands for. *)
Candidate(s, i) == s.hits[i] + Delta(s.cfg, s.from)

(* The batch being handed out lists the hits from next up to goal, and the *)
(* first at - 1 of them are handled.                                       *)
HandedOut(s) ==
    s.pc = "yield" =>
        /\ s.at \in DOMAIN s.hits
        /\ \A i \in DOMAIN s.hits : Candidate(s, i) \in Hits[s.cfg] /\ Candidate(s, i) >= s.next
        /\ \A i \in DOMAIN s.hits : i < s.at => Candidate(s, i) \in handled[s.cfg]
        /\ \A h \in Hits[s.cfg] : s.next <= h /\ h < s.goal =>
              \E i \in DOMAIN s.hits : h = Candidate(s, i)

SessionInv(s) ==
    /\ s \in Session
    /\ s.next <= Total[s.cfg] /\ s.goal <= Total[s.cfg]
    /\ s.outcome = "complete" => Hits[s.cfg] \subseteq handled[s.cfg]
    /\ Located(s)
    /\ Within(s)
    /\ HandedOut(s)
    /\ s.pc = "save" => Covered(s.cfg, s.goal)

(* The path holds the most advanced document of the one search there is,   *)
(* and all that may return are justified.                                  *)
FilesInv ==
    /\ visible \in survivors
    /\ survivors \subseteq Content
    /\ visible \notin Checkpoint => survivors = {visible}
    /\ \A doc \in survivors \cap Checkpoint :
          /\ doc.pos <= Total[doc.cfg]
          /\ Covered(doc.cfg, doc.pos)
          /\ doc.cfg = visible.cfg
          /\ doc.pos <= visible.pos

OneAtATime == \A p, q \in Procs : Active(session[p]) /\ Active(session[q]) => p = q

RunnerInv ==
    /\ session \in [Procs -> Session]
    /\ handled \in [Configs -> SUBSET Int]
    /\ FilesInv
    /\ OneAtATime
    /\ \A p \in Procs : SessionInv(session[p])

-----------------------------------------------------------------------------
(* Arithmetic.                                                             *)

LEMMA DivMod ==
    ASSUME NEW n \in Nat, NEW S \in Nat \ {0}
    PROVE  n = S * (n \div S) + (n % S) /\ n % S \in 0 .. S - 1 /\ n \div S \in Nat
BY SMT

(* Products of one factor are a factor apart. *)
LEMMA ProductsApart ==
    ASSUME NEW q \in Nat, NEW k \in Nat, NEW S \in Nat \ {0}, S * q < S * k
    PROVE  S * q + S <= S * k
<1>1. q < k
  <2> SUFFICES ASSUME q >= k PROVE FALSE
    OBVIOUS
  <2>1. PICK d \in Nat : q = k + d
    <3> WITNESS q - k \in Nat
    <3> QED  OBVIOUS
  <2>2. S * q = S * k + S * d
    BY <2>1
  <2>3. S * d \in Nat /\ S * k \in Nat
    OBVIOUS
  <2> QED  BY <2>2, <2>3
<1>2. PICK d \in Nat : k = q + 1 + d
  <2> WITNESS k - q - 1 \in Nat
  <2> QED  BY <1>1
<1>3. S * k = S * q + S + S * d
  BY <1>2
<1>4. S * d \in Nat /\ S * q \in Nat
  OBVIOUS
<1> QED  BY <1>3, <1>4

(* A segment launched at n is not empty, stays in the search, and its      *)
(* worker's number w is the candidate w + Delta.                           *)
LEMMA Segment ==
    ASSUME NEW c \in Configs, NEW n \in Nat, n < Total[c]
    PROVE  /\ WorkerStart(c, n) \in Nat
           /\ Delta(c, n) \in Int
           /\ WorkerCount(c, n) \in Nat \ {0}
           /\ n + WorkerCount(c, n) <= Total[c]
           /\ \A w \in Int : Tested(c, n, w) = w + Delta(c, n)
<1> USE ShardSizePositive, TotalsWhole, OthersTyped
<1>1. CASE Sharded(c)
  <2> DEFINE q == n \div ShardSize
             k == Total[c] \div ShardSize
  <2>1. n = ShardSize * q + (n % ShardSize) /\ n % ShardSize \in 0 .. ShardSize - 1 /\ q \in Nat
    BY DivMod
  <2>2. Total[c] = ShardSize * k + (Total[c] % ShardSize) /\ k \in Nat
    BY DivMod
  <2>3. Total[c] % ShardSize = 0
    BY <1>1 DEF Sharded
  <2>4. ShardSize * k = Total[c] /\ ShardSize * q \in Nat
    BY <2>1, <2>2, <2>3
  <2>0. ~ Exact(c)
    BY <1>1 DEF Sharded, Exact
  <2> HIDE DEF q, k
  <2>10. ShardSize * q <= n
    BY <2>1, <2>4
  <2>11. ShardSize * q < ShardSize * k
    BY <2>10, <2>4
  <2>5. ShardSize * q + ShardSize <= ShardSize * k
    BY <2>1, <2>2, <2>11, ProductsApart
  <2>6. WorkerStart(c, n) = n % ShardSize
    BY <1>1, <2>0 DEF WorkerStart
  <2>7. WorkerCount(c, n) = ShardSize - (n % ShardSize)
    BY <1>1, <2>0, <2>6 DEF WorkerCount
  <2>8. \A w \in Int : Tested(c, n, w) = q * ShardSize + w
    BY <1>1, <2>0 DEF Tested, Shard, q
  <2>9. q * ShardSize = ShardSize * q
    BY <2>1
  <2>12. WorkerStart(c, n) \in Nat /\ WorkerCount(c, n) \in Nat \ {0}
    BY <2>1, <2>6, <2>7
  <2>13. Delta(c, n) = ShardSize * q
    <3> DEFINE m == n % ShardSize
               a == ShardSize * q
    <3>1. m \in Int /\ a \in Int /\ n = a + m /\ Delta(c, n) = n - m
      BY <2>1, <2>4, <2>6 DEF Delta
    <3> HIDE DEF m, a
    <3>2. Delta(c, n) = a
      BY <3>1
    <3> QED
      BY <3>2 DEF a
  <2>14. n + WorkerCount(c, n) = ShardSize * q + ShardSize
    <3> DEFINE m == n % ShardSize
               a == ShardSize * q
    <3>1. m \in Int /\ a \in Int /\ n = a + m /\ WorkerCount(c, n) = ShardSize - m
      BY <2>1, <2>4, <2>7
    <3> HIDE DEF m, a
    <3>2. n + WorkerCount(c, n) = a + ShardSize
      BY <3>1
    <3> QED
      BY <3>2 DEF a
  <2>15. \A w \in Int : Tested(c, n, w) = w + Delta(c, n)
    BY <2>4, <2>8, <2>9, <2>13
  <2> QED
    BY <2>4, <2>5, <2>12, <2>13, <2>14, <2>15
<1>2. CASE ~ Sharded(c) /\ Exact(c)
  BY <1>2 DEF WorkerStart, WorkerCount, Delta, Tested, Exact
<1>3. CASE ~ Sharded(c) /\ ~ Exact(c)
  BY <1>3 DEF WorkerStart, WorkerCount, Delta, Tested
<1> QED
  BY <1>1, <1>2, <1>3

-----------------------------------------------------------------------------
(* Initial states, and steps that change one session only.                 *)

(* An ended session has nothing left to be right about. *)
LEMMA EndedInv ==
    ASSUME NEW c \in Configs, NEW b \in BatchSizes, NEW s, s.cfg = c, s.batch = b,
           NEW o \in Outcomes,
           o = "complete" => Hits[c] \subseteq handled[c]
    PROVE  SessionInv(Ended(s, o)) /\ Ended(s, o).pc = "idle"
<1> DEFINE e == Ended(s, o)
<1>1. e \in Session
  BY DEF Ended, NewSession, Session, PCs
<1>3. /\ e.pc = "idle" /\ e.outcome = o /\ e.cfg = c
      /\ e.next = 0 /\ e.goal = 0 /\ e.from = Unlaunched
  BY DEF Ended, NewSession
<1> HIDE DEF e
<1>4. SessionInv(e)
  BY <1>1, <1>3, TotalsWhole DEF SessionInv, Located, Within, HandedOut
<1> QED
  BY <1>3, <1>4 DEF e

LEMMA InitInv == Init => RunnerInv
<1> SUFFICES ASSUME Init PROVE RunnerInv
  OBVIOUS
<1>1. PICK c \in Configs, b \in BatchSizes :
        session = [p \in Procs |-> Ended(NewSession(c, b), "none")]
  BY DEF Init
<1>2. \A p \in Procs : SessionInv(session[p]) /\ session[p].pc = "idle"
  <2>1. NewSession(c, b).cfg = c /\ NewSession(c, b).batch = b
    BY DEF NewSession
  <2>2. SessionInv(Ended(NewSession(c, b), "none")) /\ Ended(NewSession(c, b), "none").pc = "idle"
    BY <2>1, EndedInv DEF Outcomes
  <2> QED
    BY <1>1, <2>2, Zenon
<1>3. FilesInv
  BY FilesDistinct DEF Init, FilesInv, Content
<1>4. session \in [Procs -> Session]
  BY <1>1, <1>2 DEF SessionInv
<1> QED
  BY <1>2, <1>3, <1>4 DEF RunnerInv, OneAtATime, Active, Init

(* The session of p becomes s, which is active only if it was, or nobody was. *)
LEMMA LocalStep ==
    ASSUME RunnerInv, NEW p \in Procs, NEW s,
           Becomes(p, s),
           UNCHANGED <<visible, survivors, handled>>,
           s.pc # "idle" => session[p].pc # "idle" \/ LockFree,
           SessionInv(s)
    PROVE  RunnerInv'
<1>1. /\ session' \in [Procs -> Session]
      /\ session'[p] = s
      /\ \A q \in Procs \ {p} : session'[q] = session[q]
  BY DEF RunnerInv, Becomes, SessionInv
<1>2. \A q \in Procs : SessionInv(session'[q])
  BY <1>1 DEF RunnerInv
<1>3. \A q \in Procs : SessionInv(session[q])'
  BY <1>2 DEF SessionInv, Located, Within, HandedOut, Covered
<1>4. FilesInv'
  BY DEF RunnerInv, FilesInv, Covered
<1>5. OneAtATime'
  BY <1>1 DEF RunnerInv, OneAtATime, Active, LockFree, At
<1> QED
  BY <1>1, <1>3, <1>4, <1>5 DEF RunnerInv

-----------------------------------------------------------------------------
(* One lemma per action.                                                   *)

LEMMA OpenInv == ASSUME RunnerInv, NEW p \in Procs, Open(p) PROVE RunnerInv'
<1>1. PICK c \in Configs, b \in BatchSizes : Becomes(p, NewSession(c, b))
  BY DEF Open
<1> DEFINE s == NewSession(c, b)
<1>2. s \in Session
  BY DEF NewSession, Session, PCs, Outcomes
<1>3. /\ s.pc = "load" /\ s.outcome = "none" /\ s.cfg = c
      /\ s.next = 0 /\ s.goal = 0 /\ s.from = Unlaunched
  BY DEF NewSession
<1>4. Becomes(p, s) /\ LockFree /\ UNCHANGED <<visible, survivors, handled>>
  BY <1>1 DEF Open
<1> HIDE DEF s
<1>5. SessionInv(s)
  BY <1>2, <1>3, TotalsWhole DEF SessionInv, Located, Within, HandedOut
<1> QED
  BY <1>4, <1>5, LocalStep

(* Every way a session ends. *)
LEMMA EndingInv ==
    ASSUME RunnerInv, NEW p \in Procs, NEW o \in Outcomes,
           o = "complete" => Hits[session[p].cfg] \subseteq handled[session[p].cfg],
           Becomes(p, Ended(session[p], o)),
           UNCHANGED <<visible, survivors, handled>>
    PROVE  RunnerInv'
<1> DEFINE s == Ended(session[p], o)
<1>1. session[p].cfg \in Configs /\ session[p].batch \in BatchSizes
  BY DEF RunnerInv, Session
<1>2. SessionInv(s) /\ s.pc = "idle"
  BY <1>1, EndedInv
<1>3. Becomes(p, s)
  OBVIOUS
<1> HIDE DEF s
<1> QED
  BY <1>2, <1>3, LocalStep

LEMMA LoadNothingInv == ASSUME RunnerInv, NEW p \in Procs, LoadNothing(p) PROVE RunnerInv'
<1> DEFINE t == session[p]
           s == [t EXCEPT !.pc = "save", !.goal = 0]
<1>1. SessionInv(t)
  BY DEF RunnerInv
<1>2. t.pc = "load" /\ visible = NoFile /\ Becomes(p, s)
      /\ UNCHANGED <<visible, survivors, handled>>
  BY DEF LoadNothing, At
<1>3. s \in Session
  BY <1>1 DEF SessionInv, Session, PCs
<1>4. /\ s.pc = "save" /\ s.goal = 0
      /\ s.next = t.next /\ s.from = t.from /\ s.cfg = t.cfg /\ s.outcome = t.outcome
  BY <1>1 DEF SessionInv, Session
<1>5. Covered(t.cfg, 0)
  BY <1>1, HitsAreCandidates DEF Covered, SessionInv, Session
<1> HIDE DEF s
<1>6. SessionInv(s)
  BY <1>1, <1>2, <1>3, <1>4, <1>5, TotalsWhole DEF SessionInv, Session, Located, Within, HandedOut
<1> HIDE DEF t
<1>7. s.pc # "idle" => t.pc # "idle"
  BY <1>2
<1> QED
  BY <1>2, <1>6, <1>7, LocalStep DEF t

LEMMA LoadPositionInv == ASSUME RunnerInv, NEW p \in Procs, LoadPosition(p) PROVE RunnerInv'
<1> DEFINE t == session[p]
           s == [t EXCEPT !.pc = "loop", !.next = visible.pos]
<1>1. SessionInv(t)
  BY DEF RunnerInv
<1>2. t.pc = "load" /\ Usable(t.cfg, visible) /\ Becomes(p, s)
      /\ UNCHANGED <<visible, survivors, handled>>
  BY DEF LoadPosition, At
<1>3. visible \in Checkpoint /\ visible.cfg = t.cfg /\ visible.pos <= Total[t.cfg]
  BY <1>2 DEF Usable
<1>4. s \in Session
  BY <1>1, <1>3 DEF SessionInv, Session, PCs, Checkpoint
<1>5. /\ s.pc = "loop" /\ s.next = visible.pos
      /\ s.goal = t.goal /\ s.from = t.from /\ s.cfg = t.cfg /\ s.outcome = t.outcome
  BY <1>1 DEF SessionInv, Session
<1>6. visible = Document(t.cfg, visible.pos)
  BY <1>3 DEF Checkpoint, Document
<1> HIDE DEF s
<1>7. SessionInv(s)
  BY <1>1, <1>2, <1>3, <1>4, <1>5, <1>6 DEF SessionInv, Located, Within, HandedOut
<1> QED
  BY <1>2, <1>7, LocalStep

LEMMA SaveInv == ASSUME RunnerInv, NEW p \in Procs, Save(p) PROVE RunnerInv'
<1> DEFINE t == session[p]
           s == [t EXCEPT !.pc = "sync"]
           d == Document(t.cfg, t.goal)
<1>1. SessionInv(t) /\ t.pc = "save"
  BY DEF RunnerInv, Save, At
<1>2. /\ visible' = d /\ survivors' = survivors \cup {d} /\ handled' = handled
      /\ session' = [session EXCEPT ![p] = s]
  BY DEF Save, File!Replace, Becomes
<1>3. s \in Session
  BY <1>1 DEF SessionInv, Session, PCs
<1>4. /\ s.pc = "sync" /\ s.goal = t.goal
      /\ s.next = t.next /\ s.from = t.from /\ s.cfg = t.cfg /\ s.outcome = t.outcome
  BY <1>1 DEF SessionInv, Session
<1>5. d \in Checkpoint /\ d.cfg = t.cfg /\ d.pos = t.goal
  BY <1>1 DEF SessionInv, Session, Document, Checkpoint
<1>6. visible = NoFile \/ (visible = Document(t.cfg, t.next) /\ t.next < t.goal)
  BY <1>1 DEF SessionInv, Located, Within
<1>7. \A e \in survivors \cap Checkpoint : e.cfg = t.cfg /\ e.pos <= t.goal
  <2>1. CASE visible = NoFile
    BY <2>1, FilesDistinct DEF RunnerInv, FilesInv
  <2>2. CASE visible = Document(t.cfg, t.next) /\ t.next < t.goal
    <3>1. visible.cfg = t.cfg /\ visible.pos = t.next /\ t.next \in Nat /\ t.goal \in Nat
      BY <1>1, <2>2 DEF Document, SessionInv, Session
    <3>2. \A e \in survivors \cap Checkpoint : e.pos \in Nat /\ e.cfg = visible.cfg /\ e.pos <= visible.pos
      BY DEF RunnerInv, FilesInv, Checkpoint
    <3> QED
      BY <2>2, <3>1, <3>2
  <2> QED
    BY <1>6, <2>1, <2>2
<1>8. FilesInv'
  <2>1. visible' \in survivors' /\ survivors' \subseteq Content /\ visible' \in Checkpoint
    BY <1>2, <1>5 DEF RunnerInv, FilesInv, Content
  <2>2. d.pos <= Total[d.cfg] /\ Covered(d.cfg, d.pos) /\ d.pos <= d.pos
    BY <1>1, <1>5 DEF SessionInv, Session
  <2>3. ASSUME NEW e \in survivors' \cap Checkpoint
        PROVE  /\ e.pos <= Total[e.cfg] /\ Covered(e.cfg, e.pos)'
               /\ e.cfg = visible'.cfg /\ e.pos <= visible'.pos
    <3>1. CASE e \in survivors
      BY <1>2, <1>5, <1>7, <3>1 DEF RunnerInv, FilesInv, Covered
    <3>2. CASE e = d
      BY <1>2, <2>2, <3>2 DEF Covered
    <3> QED
      BY <1>2, <3>1, <3>2
  <2> QED
    BY <2>1, <2>3 DEF FilesInv
<1>9. session' \in [Procs -> Session] /\ session'[p] = s
  BY <1>2, <1>3 DEF RunnerInv
<1> HIDE DEF s
<1>11. SessionInv(session[p])'
  <2>1. Located(session[p])'
    BY <1>2, <1>4, <1>9 DEF Located
  <2>2. Within(session[p])'
    BY <1>1, <1>4, <1>9 DEF SessionInv, Within, SegmentEnd
  <2>3. HandedOut(session[p])'
    BY <1>4, <1>9 DEF HandedOut
  <2> QED
    BY <1>1, <1>2, <1>3, <1>4, <1>9, <2>1, <2>2, <2>3 DEF SessionInv
<1>10. ASSUME NEW q \in Procs, q # p PROVE SessionInv(session[q])' /\ session'[q].pc = "idle"
  <2>1. session'[q] = session[q] /\ session[q].pc = "idle"
    BY <1>1, <1>2, <1>10 DEF RunnerInv, OneAtATime, Active
  <2>2. SessionInv(session[q])
    BY DEF RunnerInv
  <2> QED
    BY <1>2, <2>1, <2>2 DEF SessionInv, Session, Located, Within, HandedOut
<1> QED
  BY <1>2, <1>8, <1>9, <1>10, <1>11 DEF RunnerInv, OneAtATime, Active

LEMMA SaveSyncInv == ASSUME RunnerInv, NEW p \in Procs, SaveSync(p) PROVE RunnerInv'
<1> DEFINE t == session[p]
           pc2 == IF t.from = Unlaunched THEN "loop" ELSE "events"
           s == [t EXCEPT !.pc = pc2, !.next = t.goal]
<1>1. SessionInv(t) /\ t.pc = "sync" /\ visible = Document(t.cfg, t.goal)
  BY DEF RunnerInv, SaveSync, At, SessionInv, Located
<1>2. /\ visible' = visible /\ survivors' = {visible} /\ handled' = handled
      /\ session' = [session EXCEPT ![p] = s]
  BY DEF SaveSync, File!Sync, Becomes
<1>3. s \in Session
  BY <1>1 DEF SessionInv, Session, PCs
<1>4. /\ s.pc = pc2 /\ s.goal = t.goal /\ s.next = t.goal
      /\ s.from = t.from /\ s.cfg = t.cfg /\ s.outcome = t.outcome
  BY <1>1 DEF SessionInv, Session
<1>5. FilesInv'
  BY <1>2 DEF RunnerInv, FilesInv, Covered
<1>6. session' \in [Procs -> Session] /\ session'[p] = s
  BY <1>2, <1>3 DEF RunnerInv
<1> HIDE DEF s
<1>7. SessionInv(session[p])'
  <2>1. Located(session[p])'
    BY <1>1, <1>2, <1>4, <1>6 DEF Located
  <2>2. Within(session[p])'
    BY <1>1, <1>4, <1>6 DEF SessionInv, Session, Within, SegmentEnd
  <2>3. HandedOut(session[p])'
    BY <1>4, <1>6 DEF HandedOut
  <2> QED
    BY <1>1, <1>2, <1>3, <1>4, <1>6, <2>1, <2>2, <2>3 DEF SessionInv
<1>8. ASSUME NEW q \in Procs, q # p PROVE SessionInv(session[q])' /\ session'[q].pc = "idle"
  <2>1. session'[q] = session[q] /\ session[q].pc = "idle"
    BY <1>1, <1>2, <1>8 DEF RunnerInv, OneAtATime, Active
  <2>2. SessionInv(session[q])
    BY DEF RunnerInv
  <2> QED
    BY <1>2, <2>1, <2>2 DEF SessionInv, Session, Located, Within, HandedOut
<1> QED
  BY <1>2, <1>5, <1>6, <1>7, <1>8 DEF RunnerInv, OneAtATime, Active

LEMMA LaunchInv == ASSUME RunnerInv, NEW p \in Procs, Launch(p) PROVE RunnerInv'
<1> DEFINE t == session[p]
           s == [t EXCEPT !.pc = "events", !.from = t.next, !.device = FALSE, !.summary = FALSE]
<1>1. SessionInv(t) /\ t \in Session
  BY DEF RunnerInv, SessionInv
<1>2. /\ t.pc = "loop" /\ t.next < Total[t.cfg] /\ Becomes(p, s)
      /\ UNCHANGED <<visible, survivors, handled>>
  BY DEF Launch, At
<1>3. s \in Session
  BY <1>1 DEF Session, PCs
<1>4. /\ s.pc = "events" /\ s.from = t.next
      /\ s.next = t.next /\ s.goal = t.goal /\ s.cfg = t.cfg /\ s.outcome = t.outcome
  BY <1>1 DEF Session
<1>5. t.next \in Nat /\ t.cfg \in Configs
  BY <1>1 DEF Session
<1>6. WorkerCount(t.cfg, t.next) \in Nat
  BY <1>2, <1>5, Segment
<1> HIDE DEF s
<1>7. SessionInv(s)
  BY <1>1, <1>2, <1>3, <1>4, <1>5, <1>6 DEF SessionInv, Located, Within, SegmentEnd, HandedOut
<1> QED
  BY <1>2, <1>7, LocalStep

LEMMA FinishInv == ASSUME RunnerInv, NEW p \in Procs, Finish(p) PROVE RunnerInv'
<1>1. SessionInv(session[p]) /\ session[p] \in Session
  BY DEF RunnerInv, SessionInv
<1>2. /\ session[p].pc = "loop" /\ session[p].next >= Total[session[p].cfg]
      /\ Becomes(p, Ended(session[p], "complete"))
      /\ UNCHANGED <<visible, survivors, handled>>
  BY DEF Finish, At
<1>3. visible = Document(session[p].cfg, session[p].next)
  BY <1>1, <1>2 DEF SessionInv, Located
<1>4. Covered(session[p].cfg, session[p].next)
  BY <1>1, <1>3 DEF RunnerInv, FilesInv, Document, Checkpoint, Session
<1>5. Hits[session[p].cfg] \subseteq handled[session[p].cfg]
  BY <1>1, <1>2, <1>4, HitsAreCandidates, TotalsWhole DEF Covered, Session
<1> QED
  BY <1>2, <1>5, EndingInv DEF Outcomes

(* Device, Summary and Exit leave the position and the segment alone. *)
LEMMA FlagsInv ==
    ASSUME RunnerInv, NEW p \in Procs, NEW s \in Session,
           At(p, "events"),
           s.pc \in {"events", "loop"},
           s.cfg = session[p].cfg, s.outcome = session[p].outcome,
           s.next = session[p].next, s.goal = session[p].goal, s.from = session[p].from,
           Becomes(p, s),
           UNCHANGED <<visible, survivors, handled>>
    PROVE  RunnerInv'
<1>1. SessionInv(session[p])
  BY DEF RunnerInv
<1>2. SessionInv(s)
  BY <1>1 DEF At, SessionInv, Located, Within, SegmentEnd, HandedOut
<1> QED
  BY <1>2, LocalStep DEF At

LEMMA DeviceInv == ASSUME RunnerInv, NEW p \in Procs, Device(p) PROVE RunnerInv'
<1> DEFINE s == [session[p] EXCEPT !.device = TRUE]
<1>1. session[p] \in Session /\ At(p, "events") /\ Becomes(p, s)
      /\ UNCHANGED <<visible, survivors, handled>>
  BY DEF RunnerInv, Device
<1>2. s \in Session /\ s.pc = session[p].pc
      /\ s.cfg = session[p].cfg /\ s.outcome = session[p].outcome
      /\ s.next = session[p].next /\ s.goal = session[p].goal /\ s.from = session[p].from
  BY <1>1 DEF Session
<1> HIDE DEF s
<1> QED
  BY <1>1, <1>2, FlagsInv DEF At

LEMMA SummaryInv == ASSUME RunnerInv, NEW p \in Procs, Summary(p) PROVE RunnerInv'
<1> DEFINE s == [session[p] EXCEPT !.summary = TRUE]
<1>1. session[p] \in Session /\ At(p, "events") /\ Becomes(p, s)
      /\ UNCHANGED <<visible, survivors, handled>>
  BY DEF RunnerInv, Summary, TakeSummary
<1>2. s \in Session /\ s.pc = session[p].pc
      /\ s.cfg = session[p].cfg /\ s.outcome = session[p].outcome
      /\ s.next = session[p].next /\ s.goal = session[p].goal /\ s.from = session[p].from
  BY <1>1 DEF Session
<1> HIDE DEF s
<1> QED
  BY <1>1, <1>2, FlagsInv DEF At

LEMMA ExitInv == ASSUME RunnerInv, NEW p \in Procs, Exit(p) PROVE RunnerInv'
<1> DEFINE s == [session[p] EXCEPT !.pc = "loop"]
<1>1. session[p] \in Session /\ At(p, "events") /\ Becomes(p, s)
      /\ UNCHANGED <<visible, survivors, handled>>
  BY DEF RunnerInv, Exit
<1>2. s \in Session /\ s.pc = "loop"
      /\ s.cfg = session[p].cfg /\ s.outcome = session[p].outcome
      /\ s.next = session[p].next /\ s.goal = session[p].goal /\ s.from = session[p].from
  BY <1>1 DEF Session, PCs
<1> HIDE DEF s
<1> QED
  BY <1>1, <1>2, FlagsInv

(* An accepted batch: it goes from next to goal, and by truthfulness its   *)
(* hits are the candidates in between that match.                          *)
LEMMA AcceptedBatch ==
    ASSUME NEW t \in Session, t.from # Unlaunched, t.from < Total[t.cfg],
           t.from <= t.next, t.next <= SegmentEnd(t),
           NEW r \in BatchRecord, Truthful(t, r), Accepts(t, r),
           NEW goal, goal = r.start + r.count + Delta(t.cfg, t.from)
    PROVE  /\ goal \in Nat /\ t.next < goal /\ goal <= SegmentEnd(t)
           /\ \A i \in DOMAIN r.hits :
                 /\ r.hits[i] \in Int
                 /\ r.hits[i] + Delta(t.cfg, t.from) \in Hits[t.cfg]
                 /\ r.hits[i] + Delta(t.cfg, t.from) >= t.next
           /\ \A h \in Hits[t.cfg] : t.next <= h /\ h < goal =>
                 \E i \in DOMAIN r.hits : h = r.hits[i] + Delta(t.cfg, t.from)
<1> DEFINE d == Delta(t.cfg, t.from)
           size == WorkerCount(t.cfg, t.from)
           ws == WorkerStart(t.cfg, t.from)
           from == t.from
           next == t.next
           start == r.start
           count == r.count
<1>1. from \in Nat /\ next \in Nat /\ t.cfg \in Configs
  BY DEF Session
<1>2. ws \in Nat /\ d \in Int /\ size \in Nat /\ from = d + ws
  BY <1>1, Segment DEF Delta
<1>3. \A w \in Int : Tested(t.cfg, t.from, w) = w + d
  BY <1>1, Segment
<1>4. start \in Int /\ count \in Int
  BY OthersTyped DEF BatchRecord
<1>5. start = next - d /\ count >= 1
  BY DEF Accepts, Contiguous, WholeBatch, WorkerNext
<1>6. count <= (ws + size) - (next - d)
  <2>1. count = Expected(t)
    BY DEF Accepts, WholeBatch
  <2>4. t.batch \in Int
    <3>1. t.batch \in BatchSizes
      BY DEF Session
    <3>2. BatchSizes \subseteq Int
      BY OthersTyped
    <3> QED
      BY <3>1, <3>2
  <2>2. WorkerEnd(t) = ws + size /\ WorkerNext(t) = next - d
    BY DEF WorkerEnd, WorkerNext
  <2>3. (ws + size) - (next - d) \in Int
    BY <1>1, <1>2
  <2> HIDE DEF d, size, ws, next, count
  <2> QED
    BY <2>1, <2>2, <2>3, <2>4 DEF Expected
<1>7. /\ \A i \in DOMAIN r.hits : r.hits[i] \in start .. start + count - 1
      /\ \A w \in start .. start + count - 1 :
            (\E i \in DOMAIN r.hits : r.hits[i] = w) <=> w + d \in Hits[t.cfg]
  BY <1>3, <1>4 DEF Accepts, HitsInOrder, Truthful, Complete, Range
<1>8. goal = start + count + d /\ SegmentEnd(t) = from + size
  BY DEF SegmentEnd
<1>9. \A h \in Hits[t.cfg] : h \in Int
  BY <1>1, HitsAreCandidates
<1> HIDE DEF d, size, ws, from, start, count, next
<1>10. goal = next + count
  BY <1>1, <1>2, <1>4, <1>5, <1>8
<1>11. goal \in Nat /\ next < goal /\ goal <= SegmentEnd(t)
  BY <1>1, <1>2, <1>4, <1>5, <1>6, <1>8, <1>10
<1>12. ASSUME NEW i \in DOMAIN r.hits
       PROVE  r.hits[i] \in Int /\ r.hits[i] + d \in Hits[t.cfg] /\ r.hits[i] + d >= next
  <2>1. r.hits[i] \in start .. start + count - 1 /\ r.hits[i] + d \in Hits[t.cfg]
    BY <1>7
  <2>2. r.hits[i] \in Int /\ start <= r.hits[i]
    BY <1>4, <2>1
  <2>3. r.hits[i] + d >= next
    BY <1>1, <1>2, <1>4, <1>5, <2>2
  <2> QED
    BY <2>1, <2>2, <2>3
<1>13. ASSUME NEW h \in Hits[t.cfg], next <= h, h < goal
       PROVE  \E i \in DOMAIN r.hits : h = r.hits[i] + d
  <2>1. h \in Int /\ h - d \in Int /\ (h - d) + d = h
    BY <1>2, <1>9
  <2>2. h - d \in start .. start + count - 1
    BY <1>1, <1>2, <1>4, <1>5, <1>10, <1>13, <2>1
  <2>3. PICK i \in DOMAIN r.hits : r.hits[i] = h - d
    BY <1>7, <2>1, <2>2
  <2> QED
    BY <2>1, <2>3
<1> QED
  BY <1>11, <1>12, <1>13 DEF d, next

LEMMA BatchInv == ASSUME RunnerInv, NEW p \in Procs, Batch(p) PROVE RunnerInv'
<1> DEFINE t == session[p]
<1>1. SessionInv(t) /\ t \in Session /\ t.pc = "events"
  BY DEF RunnerInv, SessionInv, Batch, TakeBatch, At
<1>2. PICK r \in BatchRecord :
        /\ Truthful(t, r)
        /\ Accepts(t, r)
        /\ Becomes(p, [t EXCEPT !.pc = Handing(r.hits, 0), !.hits = r.hits, !.at = 1,
                         !.goal = r.start + r.count + Delta(t.cfg, t.from)])
  BY Zenon DEF Batch, TakeBatch
<1> DEFINE goal == r.start + r.count + Delta(t.cfg, t.from)
           s == [t EXCEPT !.pc = Handing(r.hits, 0), !.hits = r.hits, !.at = 1, !.goal = goal]
<1>3. /\ t.from # Unlaunched /\ t.from \in Nat /\ t.from < Total[t.cfg]
      /\ t.from <= t.next /\ t.next <= SegmentEnd(t)
      /\ visible = Document(t.cfg, t.next)
  BY <1>1 DEF SessionInv, Located, Within, Session
<1>4. /\ goal \in Nat /\ t.next < goal /\ goal <= SegmentEnd(t)
      /\ \A i \in DOMAIN r.hits :
            /\ r.hits[i] \in Int
            /\ r.hits[i] + Delta(t.cfg, t.from) \in Hits[t.cfg]
            /\ r.hits[i] + Delta(t.cfg, t.from) >= t.next
      /\ \A h \in Hits[t.cfg] : t.next <= h /\ h < goal =>
            \E i \in DOMAIN r.hits : h = r.hits[i] + Delta(t.cfg, t.from)
  BY <1>1, <1>2, <1>3, AcceptedBatch
<1>5. r.hits \in HitLists /\ r.hits \in Seq(Int)
  BY OthersTyped DEF BatchRecord
<1>6. Handing(r.hits, 0) \in {"yield", "save"}
  BY DEF Handing
<1> HIDE DEF goal
<1>7. /\ s \in Session
      /\ s.pc = Handing(r.hits, 0) /\ s.hits = r.hits /\ s.at = 1 /\ s.goal = goal
      /\ s.next = t.next /\ s.from = t.from /\ s.cfg = t.cfg /\ s.outcome = t.outcome
  BY <1>1, <1>4, <1>5, <1>6 DEF Session, PCs
<1>8. Becomes(p, s) /\ UNCHANGED <<visible, survivors, handled>>
  BY <1>2 DEF Batch, TakeBatch, goal
<1> HIDE DEF s
<1>9. goal <= Total[t.cfg]
  <2>1. SegmentEnd(t) <= Total[t.cfg] /\ SegmentEnd(t) \in Int
    BY <1>1, <1>3, Segment DEF Session, SegmentEnd
  <2>2. Total[t.cfg] \in Nat
    BY <1>1, TotalsWhole DEF Session
  <2> QED
    BY <1>4, <2>1, <2>2
<1>10. Covered(t.cfg, t.next)
  BY <1>1, <1>3 DEF RunnerInv, FilesInv, Document, Checkpoint, Session
<1>11. HandedOut(s)
  <2> SUFFICES ASSUME s.pc = "yield" PROVE HandedOut(s)
    BY DEF HandedOut
  <2>1. 0 < Len(r.hits)
    BY <1>7 DEF Handing
  <2>2. 1 \in DOMAIN r.hits /\ \A i \in DOMAIN r.hits : ~ (i < 1)
    BY <1>5, <2>1
  <2>3. \A i \in DOMAIN r.hits : Candidate(s, i) = r.hits[i] + Delta(t.cfg, t.from)
    BY <1>7 DEF Candidate
  <2> QED
    BY <1>4, <1>7, <2>2, <2>3 DEF HandedOut
<1>12. s.pc = "save" => Covered(s.cfg, s.goal)
  <2> SUFFICES ASSUME s.pc = "save", NEW h \in Hits[t.cfg], h < goal PROVE h \in handled[t.cfg]
    BY <1>7 DEF Covered
  <2>1. DOMAIN r.hits = {}
    BY <1>5, <1>7 DEF Handing
  <2>2. ~ (t.next <= h)
    BY <1>4, <2>1
  <2>3. h \in Nat /\ t.next \in Nat
    BY <1>1, HitsAreCandidates DEF Session
  <2> QED
    BY <1>10, <2>2, <2>3 DEF Covered
<1>13. Located(s)
  BY <1>3, <1>6, <1>7 DEF Located
<1>14. Within(s)
  BY <1>3, <1>4, <1>7 DEF Within, SegmentEnd
<1>15. SessionInv(s)
  BY <1>1, <1>7, <1>9, <1>11, <1>12, <1>13, <1>14 DEF SessionInv
<1> QED
  BY <1>1, <1>8, <1>15, LocalStep

LEMMA ResumeInv == ASSUME RunnerInv, NEW p \in Procs, Resume(p) PROVE RunnerInv'
<1> DEFINE t == session[p]
           pc2 == Handing(t.hits, t.at)
           at2 == t.at + 1
           s == [t EXCEPT !.pc = pc2, !.at = at2]
           x == Yielded(t)
<1>1. SessionInv(t) /\ t \in Session /\ t.pc = "yield"
  BY DEF RunnerInv, SessionInv, Resume, At
<1>2. /\ visible' = visible /\ survivors' = survivors
      /\ handled' = [handled EXCEPT ![t.cfg] = @ \cup {x}]
      /\ session' = [session EXCEPT ![p] = s]
  BY DEF Resume, Becomes
<1>3. t.hits \in Seq(Int) /\ t.at \in Nat /\ t.cfg \in Configs /\ t.next \in Nat
  <2>1. t.hits \in HitLists \cup {<<>>} /\ t.at \in Nat /\ t.cfg \in Configs /\ t.next \in Nat
    BY <1>1 DEF Session
  <2>2. <<>> \in Seq(Int)
    OBVIOUS
  <2> QED
    BY <2>1, <2>2, OthersTyped
<1>4. Handing(t.hits, t.at) \in {"yield", "save"}
  BY DEF Handing
<1>5. s \in Session
  <2>1. pc2 \in PCs /\ at2 \in Nat
    BY <1>3, <1>4 DEF PCs
  <2> HIDE DEF pc2, at2
  <2> QED
    BY <1>1, <2>1 DEF Session
<1>6. /\ s.pc = Handing(t.hits, t.at) /\ s.at = t.at + 1 /\ s.hits = t.hits /\ s.goal = t.goal
      /\ s.next = t.next /\ s.from = t.from /\ s.cfg = t.cfg /\ s.outcome = t.outcome
  BY <1>1 DEF Session
<1>7. /\ t.at \in DOMAIN t.hits
      /\ \A i \in DOMAIN t.hits : Candidate(t, i) \in Hits[t.cfg] /\ Candidate(t, i) >= t.next
      /\ \A i \in DOMAIN t.hits : i < t.at => Candidate(t, i) \in handled[t.cfg]
      /\ \A h \in Hits[t.cfg] : t.next <= h /\ h < t.goal =>
            \E i \in DOMAIN t.hits : h = Candidate(t, i)
  BY <1>1 DEF SessionInv, HandedOut
<1>8. x = Candidate(t, t.at)
  BY DEF Yielded, Candidate
<1>9. /\ handled' \in [Configs -> SUBSET Int]
      /\ \A c \in Configs : handled[c] \subseteq handled'[c]
      /\ x \in handled'[t.cfg]
  <2>1. x \in Int
    BY <1>3, <1>7, <1>8, HitsAreCandidates
  <2> HIDE DEF x
  <2> QED
    BY <1>2, <1>3, <2>1 DEF RunnerInv
<1>10. FilesInv'
  BY <1>2, <1>9 DEF RunnerInv, FilesInv, Covered, Checkpoint
<1>11. session' \in [Procs -> Session] /\ session'[p] = s
  BY <1>2, <1>5 DEF RunnerInv
<1> HIDE DEF s, x
<1>12. \A i \in DOMAIN t.hits : i <= t.at => Candidate(t, i) \in handled'[t.cfg]
  BY <1>3, <1>7, <1>8, <1>9
<1>13. \A i \in DOMAIN s.hits : Candidate(s, i) = Candidate(t, i)
  BY <1>6 DEF Candidate
<1>14. HandedOut(session[p])'
  <2> SUFFICES ASSUME session'[p].pc = "yield" PROVE HandedOut(session[p])'
    BY DEF HandedOut
  <2>2. t.at < Len(t.hits)
    BY <1>6, <1>11 DEF Handing
  <2>3. s.at \in DOMAIN s.hits /\ \A i \in DOMAIN s.hits : i < s.at => i <= t.at
    BY <1>3, <1>6, <2>2, SMTT(30)
  <2> QED
    BY <1>6, <1>7, <1>11, <1>12, <1>13, <2>3 DEF HandedOut, Candidate
<1>15. s.pc = "save" => \A h \in Hits[t.cfg] : h < t.goal => h \in handled'[t.cfg]
  <2> SUFFICES ASSUME s.pc = "save", NEW h \in Hits[t.cfg], h < t.goal PROVE h \in handled'[t.cfg]
    OBVIOUS
  <2>1. ~ (t.at < Len(t.hits))
    BY <1>6 DEF Handing
  <2>2. \A i \in DOMAIN t.hits : i <= t.at
    BY <1>3, <2>1, SMTT(30)
  <2>3. CASE t.next <= h
    BY <1>7, <1>12, <2>2, <2>3
  <2>4. CASE ~ (t.next <= h)
    <3>1. visible = Document(t.cfg, t.next)
      BY <1>1 DEF SessionInv, Located
    <3>2. Covered(t.cfg, t.next)
      BY <1>1, <3>1 DEF RunnerInv, FilesInv, Document, Checkpoint, Session
    <3>3. h < t.next
      BY <1>3, <2>4, HitsAreCandidates
    <3> QED
      BY <1>3, <1>9, <3>2, <3>3 DEF Covered
  <2> QED
    BY <2>3, <2>4
<1>16. SessionInv(session[p])'
  <2>1. Located(session[p])'
    BY <1>1, <1>2, <1>4, <1>6, <1>11 DEF SessionInv, Located, Within
  <2>2. Within(session[p])'
    BY <1>1, <1>4, <1>6, <1>11 DEF SessionInv, Within, SegmentEnd
  <2>3. session'[p].outcome = "complete" => Hits[t.cfg] \subseteq handled'[t.cfg]
    BY <1>1, <1>3, <1>6, <1>9, <1>11 DEF SessionInv
  <2>4. session'[p].pc = "save" => Covered(session[p].cfg, session[p].goal)'
    BY <1>6, <1>11, <1>15 DEF Covered
  <2> QED
    BY <1>1, <1>5, <1>6, <1>11, <1>14, <2>1, <2>2, <2>3, <2>4 DEF SessionInv
<1>17. ASSUME NEW q \in Procs, q # p PROVE SessionInv(session[q])' /\ session'[q].pc = "idle"
  <2>1. session'[q] = session[q] /\ session[q].pc = "idle"
    BY <1>1, <1>2, <1>17 DEF RunnerInv, OneAtATime, Active
  <2>2. SessionInv(session[q])
    BY DEF RunnerInv
  <2>3. session[q].outcome = "complete" => Hits[session[q].cfg] \subseteq handled'[session[q].cfg]
    BY <1>9, <2>2 DEF SessionInv, Session
  <2> QED
    BY <2>1, <2>2, <2>3 DEF SessionInv, Located, Within, HandedOut
<1> QED
  BY <1>9, <1>10, <1>11, <1>16, <1>17 DEF RunnerInv, OneAtATime, Active

LEMMA PowerLossInv == ASSUME RunnerInv, PowerLoss PROVE RunnerInv'
<1>1. PICK v \in survivors : visible' = v /\ survivors' = {v}
  BY DEF PowerLoss, File!PowerLoss
<1>2. /\ session' = [p \in Procs |-> IF At(p, "idle") THEN session[p] ELSE Ended(session[p], "error")]
      /\ handled' = handled
  BY DEF PowerLoss
<1>3. FilesInv'
  BY <1>1, <1>2 DEF RunnerInv, FilesInv, Covered, Checkpoint
<1>4. ASSUME NEW p \in Procs PROVE SessionInv(session[p])' /\ session'[p].pc = "idle"
  <2>1. SessionInv(session[p])
    BY DEF RunnerInv
  <2>2. CASE session[p].pc = "idle"
    <3>1. session'[p] = session[p]
      BY <1>2, <2>2 DEF At
    <3> QED
      BY <1>2, <2>1, <2>2, <3>1 DEF SessionInv, Located, Within, HandedOut
  <2>3. CASE session[p].pc # "idle"
    <3>1. session[p].cfg \in Configs /\ session[p].batch \in BatchSizes
      BY <2>1 DEF SessionInv, Session
    <3> DEFINE s == Ended(session[p], "error")
    <3>2. SessionInv(s) /\ s.pc = "idle"
      BY <3>1, EndedInv DEF Outcomes
    <3>3. session'[p] = s
      BY <1>2, <2>3 DEF At
    <3> HIDE DEF s
    <3> QED
      BY <1>2, <3>2, <3>3 DEF SessionInv, Located, Within, HandedOut
  <2> QED
    BY <2>2, <2>3
<1>5. session' \in [Procs -> Session]
  <2>1. \A p \in Procs : session'[p] \in Session
    BY <1>4 DEF SessionInv
  <2> QED
    BY <1>2, <2>1
<1> QED
  BY <1>2, <1>3, <1>4, <1>5 DEF RunnerInv, OneAtATime, Active

LEMMA NextInv == RunnerInv /\ [Next]_vars => RunnerInv'
<1> SUFFICES ASSUME RunnerInv, [Next]_vars PROVE RunnerInv'
  OBVIOUS
<1> USE DEF Outcomes
<1>1. ASSUME NEW p \in Procs, Open(p) \/ Busy(p) \/ Advance(p) \/ Fail(p) \/ Die(p)
      PROVE  RunnerInv'
  <2>1. CASE Open(p)
    BY <2>1, OpenInv
  <2>2. CASE Busy(p)
    BY <2>2, EndingInv DEF Busy
  <2>3. CASE LoadNothing(p)
    BY <2>3, LoadNothingInv
  <2>4. CASE LoadPosition(p)
    BY <2>4, LoadPositionInv
  <2>5. CASE Save(p)
    BY <2>5, SaveInv
  <2>6. CASE SaveSync(p)
    BY <2>6, SaveSyncInv
  <2>7. CASE Launch(p)
    BY <2>7, LaunchInv
  <2>8. CASE Finish(p)
    BY <2>8, FinishInv
  <2>9. CASE Device(p)
    BY <2>9, DeviceInv
  <2>10. CASE Batch(p)
    BY <2>10, BatchInv
  <2>11. CASE Resume(p)
    BY <2>11, ResumeInv
  <2>12. CASE Summary(p)
    BY <2>12, SummaryInv
  <2>13. CASE Exit(p)
    BY <2>13, ExitInv
  <2>14. CASE LoadRefused(p)
    BY <2>14, EndingInv DEF LoadRefused
  <2>15. CASE NoProgress(p)
    BY <2>15, EndingInv DEF NoProgress
  <2>16. CASE Reject(p)
    BY <2>16, EndingInv DEF Reject
  <2>17. CASE Close(p)
    BY <2>17, EndingInv DEF Close
  <2>18. CASE Die(p)
    BY <2>18, EndingInv DEF Die
  <2> QED
    BY <1>1, <2>1, <2>2, <2>3, <2>4, <2>5, <2>6, <2>7, <2>8, <2>9, <2>10, <2>11,
       <2>12, <2>13, <2>14, <2>15, <2>16, <2>17, <2>18 DEF Advance, Fail
<1>2. CASE PowerLoss
  BY <1>2, PowerLossInv
<1>3. CASE UNCHANGED vars
  BY <1>3 DEF vars, RunnerInv, FilesInv, Covered, OneAtATime, Active,
              SessionInv, Located, Within, HandedOut
<1> QED
  BY <1>1, <1>2, <1>3 DEF Next

-----------------------------------------------------------------------------
(* Theorems.                                                               *)

(* The invariant that the others follow from: one session at a time, whose *)
(* position is the one on the path, and nothing claimed but what is        *)
(* handled.                                                                *)
THEOREM RunnerInvariant == Spec => []RunnerInv
BY InitInv, NextInv, PTL DEF Spec

(* Locals, files and positions are of their types and within the search.   *)
THEOREM RunnerTypes == Spec => []TypeOK
<1>1. RunnerInv => TypeOK
  BY DEF RunnerInv, FilesInv, SessionInv, TypeOK
<1> QED
  BY <1>1, RunnerInvariant, PTL

(* No checkpoint that may be found, now or after a power loss, is past a   *)
(* hit that was not handed out and got past.                               *)
THEOREM RunnerLosesNoHit == Spec => []NoLostHit
<1>1. RunnerInv => NoLostHit
  BY DEF RunnerInv, FilesInv, NoLostHit
<1> QED
  BY <1>1, RunnerInvariant, PTL

(* A generator that runs to its end has handed out every hit.              *)
THEOREM RunnerIsComplete == Spec => []CompleteMeansAll
<1>1. RunnerInv => CompleteMeansAll
  BY DEF RunnerInv, SessionInv, CompleteMeansAll
<1> QED
  BY <1>1, RunnerInvariant, PTL

(* Every value that is yielded is a hit of the search it is yielded by,    *)
(* whatever the shard and the worker's numbering.                          *)
THEOREM RunnerYieldsHits == Spec => []YieldsTrueHits
<1>1. RunnerInv => YieldsTrueHits
  BY DEF RunnerInv, SessionInv, HandedOut, Candidate, YieldsTrueHits, Yielded, At
<1> QED
  BY <1>1, RunnerInvariant, PTL

(* What a session works on is what the path says it has reached.           *)
THEOREM RunnerIsCurrent == Spec => []PositionIsCurrent
<1>1. ASSUME RunnerInv, NEW p \in Procs
      PROVE  \/ session[p].pc \in {"idle", "load", "sync"}
             \/ session[p].from = Unlaunched /\ session[p].pc = "save" /\ visible = NoFile
             \/ visible = Document(session[p].cfg, session[p].next)
  <2>1. SessionInv(session[p]) /\ session[p].pc \in PCs
    BY <1>1 DEF RunnerInv, SessionInv, Session
  <2> QED
    BY <2>1 DEF SessionInv, Located, PCs
<1>2. RunnerInv => PositionIsCurrent
  BY <1>1, Zenon DEF PositionIsCurrent
<1> QED
  BY <1>2, RunnerInvariant, PTL

(* A caller is not given again what a checkpoint that may be found covers. *)
THEOREM RunnerRepeatsNothing == Spec => []NeverRepeatsCommitted
<1>1. ASSUME RunnerInv, NEW p \in Procs, NEW doc \in survivors \cap Checkpoint, At(p, "yield")
      PROVE  Yielded(session[p]) >= doc.pos
  <2> DEFINE t == session[p]
  <2>1. SessionInv(t) /\ t \in Session /\ t.pc = "yield"
    BY <1>1 DEF RunnerInv, SessionInv, At
  <2>2. visible = Document(t.cfg, t.next) /\ t.next \in Nat
    BY <2>1 DEF SessionInv, Located, Session
  <2>3. doc.pos <= t.next /\ doc.pos \in Nat
    BY <1>1, <2>1, <2>2 DEF RunnerInv, FilesInv, Document, Checkpoint
  <2>4. Yielded(t) \in Hits[t.cfg] /\ Yielded(t) >= t.next
    BY <2>1 DEF SessionInv, HandedOut, Candidate, Yielded
  <2>5. Yielded(t) \in Nat
    BY <2>1, <2>4, HitsAreCandidates DEF Session
  <2> HIDE DEF t
  <2>6. Yielded(t) >= doc.pos
    BY <2>2, <2>3, <2>4, <2>5
  <2> QED
    BY <2>6 DEF t
<1>2. RunnerInv => NeverRepeatsCommitted
  BY <1>1 DEF NeverRepeatsCommitted
<1> QED
  BY <1>2, RunnerInvariant, PTL

-----------------------------------------------------------------------------
(* Steps: how the documents that may be found change.                      *)

(* A rename puts in place a document that goes further than all there are. *)
LEMMA SaveFollows ==
    ASSUME RunnerInv, NEW p \in Procs, Save(p)
    PROVE  LET d == Document(session[p].cfg, session[p].goal) IN
           /\ survivors' = survivors \cup {d} /\ handled' = handled
           /\ d \in Checkpoint
           /\ \/ visible = NoFile /\ survivors = {NoFile} /\ d.pos = 0
              \/ /\ visible \in Checkpoint /\ visible \in survivors
                 /\ visible.cfg = d.cfg /\ d.pos > visible.pos
                 /\ Covered(d.cfg, d.pos)
<1> DEFINE t == session[p]
           d == Document(t.cfg, t.goal)
<1>1. SessionInv(t) /\ t \in Session /\ t.pc = "save"
  BY DEF RunnerInv, SessionInv, Save, At
<1>2. survivors' = survivors \cup {d} /\ handled' = handled
  BY DEF Save, File!Replace
<1>3. d \in Checkpoint /\ d.cfg = t.cfg /\ d.pos = t.goal
  BY <1>1 DEF Document, Checkpoint, Session
<1>4. CASE t.from = Unlaunched
  <2>1. visible = NoFile /\ t.goal = 0
    BY <1>1, <1>4 DEF SessionInv, Located
  <2>2. survivors = {NoFile}
    BY <2>1, FilesDistinct DEF RunnerInv, FilesInv
  <2> QED
    BY <1>2, <1>3, <2>1, <2>2
<1>5. CASE t.from # Unlaunched
  <2>1. visible = Document(t.cfg, t.next) /\ t.next < t.goal /\ Covered(t.cfg, t.goal)
    BY <1>1, <1>5 DEF SessionInv, Located, Within
  <2>2. visible \in Checkpoint /\ visible.cfg = t.cfg /\ visible.pos = t.next
    BY <1>1, <2>1 DEF Document, Checkpoint, Session
  <2>3. visible \in survivors
    BY DEF RunnerInv, FilesInv
  <2>4. t.next \in Nat /\ t.goal \in Nat
    BY <1>1 DEF Session
  <2> QED
    BY <1>2, <1>3, <2>1, <2>2, <2>3, <2>4
<1> QED
  BY <1>4, <1>5

(* Every other step leaves what may be found alone, or makes it less. *)
LEMMA OtherSteps ==
    ASSUME RunnerInv, [Next]_vars, \A p \in Procs : ~ Save(p)
    PROVE  /\ survivors' \subseteq survivors /\ survivors' # {}
           /\ handled' = handled \/ (survivors' = survivors /\ \E p \in Procs : Resume(p))
<1>1. visible \in survivors
  BY DEF RunnerInv, FilesInv
<1>2. ASSUME NEW p \in Procs, SaveSync(p)
      PROVE  survivors' = {visible} /\ handled' = handled
  BY <1>2 DEF SaveSync, File!Sync
<1>3. CASE PowerLoss
  BY <1>3 DEF PowerLoss, File!PowerLoss
<1>4. ASSUME NEW p \in Procs,
             Open(p) \/ Busy(p) \/ Advance(p) \/ Fail(p) \/ Die(p), ~ SaveSync(p), ~ Resume(p)
      PROVE  UNCHANGED <<survivors, handled>>
  BY <1>4, Zenon DEF Advance, Fail, Open, Busy, LoadNothing, LoadPosition, Launch, Finish, Device,
              Batch, TakeBatch, Summary, TakeSummary, Exit, LoadRefused, NoProgress, Reject, Close, Die
<1>5. ASSUME NEW p \in Procs, Resume(p)
      PROVE  survivors' = survivors
  BY <1>5 DEF Resume
<1>6. CASE UNCHANGED vars
  BY <1>1, <1>6 DEF vars
<1> QED
  BY <1>1, <1>2, <1>3, <1>4, <1>5, <1>6 DEF Next

(* Documents only move forward, within one search. *)
THEOREM RunnerMovesForward == Spec => DurableProgress
<1>1. ASSUME RunnerInv, [Next]_vars
      PROVE  \A new \in survivors' : \E old \in survivors : Follows(new, old)
  <2>1. CASE \A p \in Procs : ~ Save(p)
    BY <1>1, <2>1, OtherSteps DEF Follows
  <2>2. ASSUME NEW p \in Procs, Save(p)
        PROVE  \A new \in survivors' : \E old \in survivors : Follows(new, old)
    BY <1>1, <2>2, SaveFollows DEF Follows
  <2> QED
    BY <2>1, <2>2
<1>2. RunnerInv /\ [Next]_vars
        => [\A new \in survivors' : \E old \in survivors : Follows(new, old)]_vars
  BY <1>1
<1> QED
  BY <1>2, RunnerInvariant, PTL DEF Spec, DurableProgress

-----------------------------------------------------------------------------
(* The promise.                                                            *)

LEMMA InitKeepsPromise == Init => Promise!Init
BY DEF Init, Promise!Init

LEMMA StepKeepsPromise == RunnerInv /\ [Next]_vars => [Promise!Next]_(Promise!vars)
<1> SUFFICES ASSUME RunnerInv, [Next]_vars
             PROVE  Promise!Next \/ UNCHANGED <<survivors, handled>>
  BY DEF Promise!vars
<1>1. ASSUME NEW p \in Procs, Save(p)
      PROVE  Promise!Next
  <2> DEFINE d == Document(session[p].cfg, session[p].goal)
  <2>1. /\ survivors' = survivors \cup {d} /\ handled' = handled
        /\ d \in Checkpoint
        /\ \/ visible = NoFile /\ survivors = {NoFile} /\ d.pos = 0
           \/ /\ visible \in Checkpoint /\ visible \in survivors
              /\ visible.cfg = d.cfg /\ d.pos > visible.pos
              /\ Covered(d.cfg, d.pos)
    BY <1>1, SaveFollows
  <2> HIDE DEF d
  <2>2. d.cfg \in Configs /\ d.pos \in Nat /\ d \notin {NoFile, Damaged}
    BY <2>1, FilesDistinct DEF Checkpoint
  <2>3. CASE visible = NoFile /\ survivors = {NoFile} /\ d.pos = 0
    <3>1. d = [cfg |-> d.cfg, pos |-> 0]
      BY <2>1, <2>3 DEF Checkpoint
    <3>2. Promise!Start(d.cfg)
      BY <2>1, <2>3, <3>1 DEF Promise!Start
    <3> QED
      BY <2>2, <3>2 DEF Promise!Next
  <2>4. CASE /\ visible \in Checkpoint /\ visible \in survivors
             /\ visible.cfg = d.cfg /\ d.pos > visible.pos
             /\ Covered(d.cfg, d.pos)
    <3>1. ASSUME NEW h \in Hits[visible.cfg], h \in visible.pos .. d.pos - 1
          PROVE  h \in handled[visible.cfg]
      <4>1. h < d.pos
        BY <2>2, <2>4, <3>1 DEF Checkpoint
      <4> QED
        BY <2>4, <4>1 DEF Covered
    <3>2. Promise!Advance(visible, d)
      BY <2>1, <2>4, <3>1 DEF Promise!Advance
    <3>3. visible \in survivors \ {NoFile, Damaged} /\ d \in survivors' \ {NoFile, Damaged}
      BY <2>1, <2>2, <2>4, FilesDistinct
    <3> QED
      BY <3>2, <3>3 DEF Promise!Next
  <2> QED
    BY <2>1, <2>3, <2>4
<1>2. ASSUME NEW p \in Procs, Resume(p), survivors' = survivors
      PROVE  Promise!Next
  <2> DEFINE t == session[p]
  <2>1. SessionInv(t) /\ t \in Session /\ t.pc = "yield"
    BY <1>2 DEF RunnerInv, SessionInv, Resume, At
  <2>2. t.cfg \in Configs /\ Yielded(t) \in Hits[t.cfg]
    BY <2>1 DEF SessionInv, Session, HandedOut, Candidate, Yielded
  <2>3. Promise!Handle(t.cfg, Yielded(t))
    BY <1>2, <2>2 DEF Resume, Promise!Handle
  <2> QED
    BY <2>2, <2>3 DEF Promise!Next
<1>3. CASE /\ survivors' \subseteq survivors /\ survivors' # {}
           /\ handled' = handled
  BY <1>3 DEF Promise!Next, Promise!Settle
<1> QED
  BY <1>1, <1>2, <1>3, OtherSteps

(* run_search keeps its promise: each of its steps handles a hit, starts   *)
(* or advances a claim that the handled hits justify, drops claims, or     *)
(* does nothing that the caller could tell.                                *)
THEOREM RunnerKeepsPromise == Spec => ImplementsPromise
<1>1. Spec => Promise!Init /\ [][Promise!Next]_(Promise!vars)
  BY InitKeepsPromise, StepKeepsPromise, RunnerInvariant, PTL DEF Spec
<1> QED
  BY <1>1, PTL DEF ImplementsPromise, Promise!Spec

-----------------------------------------------------------------------------
(* Every step of a session is a descent.                                   *)

LEMMA Descent ==
    ASSUME NEW a1 \in Nat, NEW a2 \in Nat, NEW a3 \in Nat, NEW a4 \in Nat,
           NEW b1 \in Nat, NEW b2 \in Nat, NEW b3 \in Nat, NEW b4 \in Nat,
           \/ b1 < a1
           \/ b1 = a1 /\ b2 < a2
           \/ b1 = a1 /\ b2 = a2 /\ b3 < a3
           \/ b1 = a1 /\ b2 = a2 /\ b3 = a3 /\ b4 < a4
    PROVE  Less(<<b1, b2, b3, b4>>, <<a1, a2, a3, a4>>)
<1> DEFINE a == <<a1, a2, a3, a4>>
           b == <<b1, b2, b3, b4>>
<1>1. /\ a[1] = a1 /\ a[2] = a2 /\ a[3] = a3 /\ a[4] = a4
      /\ b[1] = b1 /\ b[2] = b2 /\ b[3] = b3 /\ b[4] = b4
  OBVIOUS
<1> HIDE DEF a, b
<1>2. \E i \in 1 .. 4 : b[i] < a[i] /\ \A j \in 1 .. i - 1 : b[j] = a[j]
  <2>1. CASE b1 < a1
    <3> WITNESS 1 \in 1 .. 4
    <3> QED  BY <1>1, <2>1
  <2>2. CASE b1 = a1 /\ b2 < a2
    <3> WITNESS 2 \in 1 .. 4
    <3> QED  BY <1>1, <2>2
  <2>3. CASE b1 = a1 /\ b2 = a2 /\ b3 < a3
    <3> WITNESS 3 \in 1 .. 4
    <3> QED  BY <1>1, <2>3
  <2>4. CASE b1 = a1 /\ b2 = a2 /\ b3 = a3 /\ b4 < a4
    <3> WITNESS 4 \in 1 .. 4
    <3> QED  BY <1>1, <2>4
  <2> QED
    BY <2>1, <2>2, <2>3, <2>4
<1> QED
  BY <1>2 DEF Less, a, b

(* At the head of its loop a session has got on since its last launch, and *)
(* until _load is done it has no position.                                 *)
Rested(s) ==
    /\ s.pc = "loop" => s.from # s.next
    /\ s.pc \in {"load", "save", "sync"} /\ s.from = Unlaunched => s.next = 0

(* Two of the components of Remaining. *)
Left(s) == IF s.pc = "yield" THEN Len(s.hits) - s.at ELSE 0
Fresh(s) == IF s.from = s.next THEN 0 ELSE 1

LEMMA HitsTyped == ASSUME NEW s \in Session PROVE s.hits \in Seq(Int) /\ s.at \in Nat
<1>1. s.hits \in HitLists \cup {<<>>} /\ s.at \in Nat
  BY DEF Session
<1>2. <<>> \in Seq(Int)
  OBVIOUS
<1> QED
  BY <1>1, <1>2, OthersTyped

LEMMA RemainingNatural ==
    ASSUME NEW s \in Session, s.next <= Total[s.cfg], s.pc = "yield" => s.at \in DOMAIN s.hits
    PROVE  /\ Total[s.cfg] - s.next \in Nat /\ Fresh(s) \in Nat
           /\ Stage(s) \in Nat /\ Left(s) \in Nat
           /\ Remaining(s) = <<Total[s.cfg] - s.next, Fresh(s), Stage(s), Left(s)>>
<1>1. Total[s.cfg] - s.next \in Nat
  BY TotalsWhole DEF Session
<1>2. Fresh(s) \in Nat
  BY DEF Fresh
<1>3. Stage(s) \in Nat
  BY DEF Stage
<1>4. Left(s) \in Nat
  <2>1. CASE s.pc = "yield"
    <3>1. s.hits \in Seq(Int) /\ s.at \in DOMAIN s.hits
      BY <2>1, HitsTyped
    <3> QED
      BY <2>1, <3>1 DEF Left
  <2> QED
    BY <2>1 DEF Left
<1> QED
  BY <1>1, <1>2, <1>3, <1>4 DEF Remaining, Fresh, Left

(* What the steps of a session do to what it has still to do. *)
Nearer(t, u) ==
    /\ u.cfg = t.cfg
    /\ \/ u.next > t.next
       \/ u.next = t.next /\ Fresh(u) < Fresh(t)
       \/ u.next = t.next /\ Fresh(u) = Fresh(t) /\ Stage(u) < Stage(t)
       \/ u.next = t.next /\ Fresh(u) = Fresh(t) /\ Stage(u) = Stage(t) /\ Left(u) < Left(t)

LEMMA StepsNearer ==
    ASSUME RunnerInv, NEW p \in Procs, Rested(session[p]), Advance(p),
           session'[p].pc # "idle"
    PROVE  Nearer(session[p], session'[p]) /\ Rested(session'[p])
<1> DEFINE t == session[p]
           u == session'[p]
<1>1. t \in Session /\ SessionInv(t)
  BY DEF RunnerInv
<1>2. ASSUME NEW s, Becomes(p, s) PROVE u = s
  BY <1>2 DEF RunnerInv, Becomes
<1>3. CASE LoadNothing(p)
  <2>1. u = [t EXCEPT !.pc = "save", !.goal = 0] /\ t.pc = "load"
    BY <1>2, <1>3 DEF LoadNothing, At
  <2>2. u.pc = "save" /\ u.next = t.next /\ u.from = t.from /\ u.cfg = t.cfg
    BY <1>1, <2>1 DEF Session
  <2> QED
    BY <2>1, <2>2 DEF Nearer, Fresh, Stage, Rested
<1>4. CASE LoadPosition(p)
  <2>1. u = [t EXCEPT !.pc = "loop", !.next = visible.pos] /\ t.pc = "load" /\ visible \in Checkpoint
    BY <1>2, <1>4 DEF LoadPosition, At, Usable
  <2>2. u.pc = "loop" /\ u.next = visible.pos /\ u.from = t.from /\ u.cfg = t.cfg
    BY <1>1, <2>1 DEF Session
  <2>3. t.from = -1 /\ visible.pos \in Nat /\ t.next \in Nat
    BY <1>1, <2>1 DEF SessionInv, Located, Checkpoint, Session
  <2>4. t.next = 0
    BY <2>1, <2>3 DEF Rested
  <2> QED
    BY <2>1, <2>2, <2>3, <2>4 DEF Nearer, Fresh, Stage, Rested
<1>5. CASE Save(p)
  <2>1. u = [t EXCEPT !.pc = "sync"] /\ t.pc = "save"
    BY <1>2, <1>5 DEF Save, At
  <2>2. u.pc = "sync" /\ u.next = t.next /\ u.from = t.from /\ u.cfg = t.cfg
    BY <1>1, <2>1 DEF Session
  <2> QED
    BY <2>1, <2>2 DEF Nearer, Fresh, Stage, Rested
<1>6. CASE SaveSync(p)
  <2>1. /\ t.pc = "sync"
        /\ u = [t EXCEPT !.pc = IF t.from = Unlaunched THEN "loop" ELSE "events", !.next = t.goal]
    BY <1>2, <1>6 DEF SaveSync, At
  <2>2. /\ u.pc = IF t.from = Unlaunched THEN "loop" ELSE "events"
        /\ u.next = t.goal /\ u.from = t.from /\ u.cfg = t.cfg
    BY <1>1, <2>1 DEF Session
  <2>3. t.next \in Nat /\ t.goal \in Nat /\ t.from \in Int
    BY <1>1 DEF Session
  <2>4. CASE t.from = Unlaunched
    <3>1. t.next = 0
      BY <2>1, <2>4 DEF Rested
    <3>2. t.goal >= t.next /\ t.from # t.next /\ u.from # u.next
      BY <2>2, <2>3, <2>4, <3>1
    <3> QED
      BY <2>1, <2>2, <2>3, <2>4, <3>2 DEF Nearer, Fresh, Stage, Rested
  <2>5. CASE t.from # Unlaunched
    <3>1. t.next < t.goal
      BY <1>1, <2>1, <2>5 DEF SessionInv, Within
    <3> QED
      BY <2>2, <2>3, <2>5, <3>1 DEF Nearer, Rested
  <2> QED
    BY <2>4, <2>5
<1>7. CASE Launch(p)
  <2>1. /\ t.pc = "loop"
        /\ u = [t EXCEPT !.pc = "events", !.from = t.next, !.device = FALSE, !.summary = FALSE]
    BY <1>2, <1>7 DEF Launch, At
  <2>2. u.pc = "events" /\ u.next = t.next /\ u.from = t.next /\ u.cfg = t.cfg
    BY <1>1, <2>1 DEF Session
  <2> QED
    BY <2>1, <2>2 DEF Nearer, Fresh, Rested
<1>8. CASE Finish(p)
  BY <1>2, <1>8 DEF Finish, Ended, NewSession
<1>9. CASE Device(p)
  <2>1. t.pc = "events" /\ ~ t.device /\ ~ t.summary /\ u = [t EXCEPT !.device = TRUE]
    BY <1>2, <1>9 DEF Device, At
  <2>2. /\ u.pc = "events" /\ u.next = t.next /\ u.from = t.from /\ u.cfg = t.cfg
        /\ u.device /\ u.summary = t.summary
    BY <1>1, <2>1 DEF Session
  <2> QED
    BY <2>1, <2>2 DEF Nearer, Fresh, Stage, Rested
<1>10. CASE Batch(p)
  <2>1. PICK r \in BatchRecord : TakeBatch(p, r)
    BY <1>10 DEF Batch
  <2>2. /\ t.pc = "events"
        /\ u = [t EXCEPT !.pc = Handing(r.hits, 0), !.hits = r.hits, !.at = 1,
                          !.goal = r.start + r.count + Delta(t.cfg, t.from)]
    BY <1>2, <2>1 DEF TakeBatch, At
  <2>3. /\ u.pc = Handing(r.hits, 0)
        /\ u.next = t.next /\ u.from = t.from /\ u.cfg = t.cfg
    BY <1>1, <2>2 DEF Session
  <2>4. u.pc \in {"yield", "save"}
    BY <2>3 DEF Handing
  <2>5. t.from # Unlaunched
    BY <1>1, <2>2 DEF SessionInv, Located
  <2> QED
    BY <2>2, <2>3, <2>4, <2>5 DEF Nearer, Fresh, Stage, Rested
<1>11. CASE Resume(p)
  <2>1. /\ t.pc = "yield"
        /\ u = [t EXCEPT !.pc = Handing(t.hits, t.at), !.at = @ + 1]
    BY <1>2, <1>11 DEF Resume, At
  <2>2. /\ u.pc = Handing(t.hits, t.at) /\ u.at = t.at + 1 /\ u.hits = t.hits
        /\ u.next = t.next /\ u.from = t.from /\ u.cfg = t.cfg
    BY <1>1, <2>1 DEF Session
  <2>3. t.hits \in Seq(Int) /\ t.at \in Nat
    BY <1>1, HitsTyped
  <2>4. CASE t.at < Len(t.hits)
    BY <2>1, <2>2, <2>3, <2>4 DEF Nearer, Fresh, Stage, Left, Rested, Handing
  <2>5. CASE ~ (t.at < Len(t.hits))
    <3>1. t.from # Unlaunched
      BY <1>1, <2>1 DEF SessionInv, Located
    <3> QED
      BY <2>1, <2>2, <2>5, <3>1 DEF Nearer, Fresh, Stage, Rested, Handing
  <2> QED
    BY <2>4, <2>5
<1>12. CASE Summary(p)
  <2>1. t.pc = "events" /\ ~ t.summary /\ u = [t EXCEPT !.summary = TRUE]
    BY <1>2, <1>12 DEF Summary, TakeSummary, Agrees, SumsUp, At
  <2>2. /\ u.pc = "events" /\ u.next = t.next /\ u.from = t.from /\ u.cfg = t.cfg
        /\ u.summary /\ u.device = t.device
    BY <1>1, <2>1 DEF Session
  <2> QED
    BY <2>1, <2>2 DEF Nearer, Fresh, Stage, Rested
<1>13. CASE Exit(p)
  <2>1. t.pc = "events" /\ Progressed(t) /\ u = [t EXCEPT !.pc = "loop"]
    BY <1>2, <1>13 DEF Exit, At
  <2>2. u.pc = "loop" /\ u.next = t.next /\ u.from = t.from /\ u.cfg = t.cfg
    BY <1>1, <2>1 DEF Session
  <2> QED
    BY <2>1, <2>2 DEF Nearer, Fresh, Stage, Rested, Progressed
<1> QED
  BY <1>3, <1>4, <1>5, <1>6, <1>7, <1>8, <1>9, <1>10, <1>11, <1>12, <1>13 DEF Advance

(* A session that no step of its own changes stays, starts or ends. *)
LEMMA OthersStay ==
    ASSUME RunnerInv, [Next]_vars, NEW p \in Procs, ~ Advance(p)
    PROVE  \/ session'[p] = session[p]
           \/ session'[p].pc = "idle"
           \/ session[p].pc = "idle" /\ session'[p].pc = "load" /\ session'[p].next = 0
<1>1. \A q \in Procs : \A s : Becomes(q, s) => session'[p] = IF q = p THEN s ELSE session[p]
  BY DEF RunnerInv, Becomes
<1>2. \A s, o : Ended(s, o).pc = "idle"
  BY DEF Ended
<1>3. ASSUME NEW q \in Procs, Open(q) PROVE session'[p] = session[p] \/
        (session[p].pc = "idle" /\ session'[p].pc = "load" /\ session'[p].next = 0)
  <2>1. PICK c \in Configs, b \in BatchSizes : Becomes(q, NewSession(c, b)) /\ At(q, "idle")
    BY <1>3 DEF Open
  <2>2. NewSession(c, b).pc = "load" /\ NewSession(c, b).next = 0
    BY DEF NewSession
  <2> QED
    BY <1>1, <2>1, <2>2 DEF At
<1>4. ASSUME NEW q \in Procs, Busy(q) \/ Fail(q) \/ Die(q)
      PROVE  session'[p] = session[p] \/ session'[p].pc = "idle"
  <2>1. \E o : Becomes(q, Ended(session[q], o))
    BY <1>4 DEF Busy, Fail, Die, LoadRefused, NoProgress, Reject, Close
  <2> QED
    BY <1>1, <1>2, <2>1
<1>5. ASSUME NEW q \in Procs, Advance(q) PROVE session'[p] = session[p]
  <2>1. q # p
    BY <1>5
  <2>2. \E s : Becomes(q, s)
    BY <1>5 DEF Advance, LoadNothing, LoadPosition, Save, SaveSync, Launch, Finish, Device,
                Batch, TakeBatch, Resume, Summary, TakeSummary, Exit
  <2> QED
    BY <1>1, <2>1, <2>2
<1>6. CASE PowerLoss
  <2>1. session'[p] = IF At(p, "idle") THEN session[p] ELSE Ended(session[p], "error")
    BY <1>6 DEF PowerLoss
  <2> QED
    BY <1>2, <2>1
<1>7. CASE UNCHANGED vars
  BY <1>7 DEF vars
<1> QED
  BY <1>3, <1>4, <1>5, <1>6, <1>7 DEF Next

LEMMA RestedKept ==
    ASSUME RunnerInv, [Next]_vars, \A p \in Procs : Rested(session[p])
    PROVE  \A p \in Procs : Rested(session'[p])
<1> TAKE p \in Procs
<1>1. CASE Advance(p) /\ session'[p].pc # "idle"
  BY <1>1, StepsNearer
<1>2. CASE session'[p].pc = "idle"
  BY <1>2 DEF Rested
<1>3. CASE ~ Advance(p)
  BY <1>3, OthersStay DEF Rested
<1> QED
  BY <1>1, <1>2, <1>3

(* run_search cannot go on for ever: each step of a session that does not  *)
(* end it leaves it less to do, in a lexicographic order of natural        *)
(* numbers; only an exit that tested nothing would break the descent.      *)
THEOREM RunnerAdvances == Spec => SessionAdvances
<1> DEFINE Inv == RunnerInv /\ \A p \in Procs : Rested(session[p])
           Step == \A p \in Procs :
              session'[p] # session[p] /\ session[p].pc # "idle" /\ session'[p].pc # "idle" =>
                  /\ \A i \in 1 .. 4 : Remaining(session[p])[i] \in Nat
                  /\ Less(Remaining(session'[p]), Remaining(session[p]))
<1>1. Init => \A p \in Procs : Rested(session[p])
  <2>1. \A s, o : Rested(Ended(s, o))
    BY DEF Rested, Ended
  <2> SUFFICES ASSUME Init, NEW p \in Procs PROVE Rested(session[p])
    OBVIOUS
  <2>2. \E c, b : session[p] = Ended(NewSession(c, b), "none")
    BY DEF Init
  <2> QED
    BY <2>1, <2>2
<1>2. Inv /\ [Next]_vars => Inv'
  BY NextInv, RestedKept
<1>3. Inv /\ [Next]_vars => Step
  <2> SUFFICES ASSUME RunnerInv, RunnerInv', [Next]_vars, NEW p \in Procs, Rested(session[p]),
                      session'[p] # session[p], session[p].pc # "idle", session'[p].pc # "idle"
               PROVE  /\ \A i \in 1 .. 4 : Remaining(session[p])[i] \in Nat
                      /\ Less(Remaining(session'[p]), Remaining(session[p]))
    BY NextInv
  <2> DEFINE t == session[p]
             u == session'[p]
  <2>1. Nearer(t, u)
    BY OthersStay, StepsNearer
  <2>2. t \in Session /\ t.next <= Total[t.cfg] /\ (t.pc = "yield" => t.at \in DOMAIN t.hits)
    BY DEF RunnerInv, SessionInv, HandedOut
  <2>3. u \in Session /\ u.next <= Total[u.cfg] /\ (u.pc = "yield" => u.at \in DOMAIN u.hits)
    BY DEF RunnerInv, SessionInv, HandedOut
  <2> HIDE DEF t, u
  <2>4. /\ Total[t.cfg] - t.next \in Nat /\ Fresh(t) \in Nat /\ Stage(t) \in Nat /\ Left(t) \in Nat
        /\ Remaining(t) = <<Total[t.cfg] - t.next, Fresh(t), Stage(t), Left(t)>>
    BY <2>2, RemainingNatural
  <2>5. /\ Total[u.cfg] - u.next \in Nat /\ Fresh(u) \in Nat /\ Stage(u) \in Nat /\ Left(u) \in Nat
        /\ Remaining(u) = <<Total[u.cfg] - u.next, Fresh(u), Stage(u), Left(u)>>
    BY <2>3, RemainingNatural
  <2>6. \A i \in 1 .. 4 : Remaining(t)[i] \in Nat
    BY <2>4
  <2>7. /\ t.next \in Nat /\ u.next \in Nat /\ Total[t.cfg] \in Nat /\ u.cfg = t.cfg
    BY <2>1, <2>2, <2>3, TotalsWhole DEF Session, Nearer
  <2>8. \/ Total[u.cfg] - u.next < Total[t.cfg] - t.next
        \/ Total[u.cfg] - u.next = Total[t.cfg] - t.next /\ Fresh(u) < Fresh(t)
        \/ Total[u.cfg] - u.next = Total[t.cfg] - t.next /\ Fresh(u) = Fresh(t) /\ Stage(u) < Stage(t)
        \/ /\ Total[u.cfg] - u.next = Total[t.cfg] - t.next /\ Fresh(u) = Fresh(t)
           /\ Stage(u) = Stage(t) /\ Left(u) < Left(t)
    BY <2>1, <2>7 DEF Nearer
  <2>9. Less(Remaining(u), Remaining(t))
    <3> DEFINE a1 == Total[t.cfg] - t.next
               b1 == Total[u.cfg] - u.next
    <3>1. a1 \in Nat /\ b1 \in Nat
      BY <2>4, <2>5
    <3>2. \/ b1 < a1
          \/ b1 = a1 /\ Fresh(u) < Fresh(t)
          \/ b1 = a1 /\ Fresh(u) = Fresh(t) /\ Stage(u) < Stage(t)
          \/ b1 = a1 /\ Fresh(u) = Fresh(t) /\ Stage(u) = Stage(t) /\ Left(u) < Left(t)
      BY <2>8
    <3>3. /\ Remaining(t) = <<a1, Fresh(t), Stage(t), Left(t)>>
          /\ Remaining(u) = <<b1, Fresh(u), Stage(u), Left(u)>>
      BY <2>4, <2>5
    <3> HIDE DEF a1, b1
    <3>4. Less(<<b1, Fresh(u), Stage(u), Left(u)>>, <<a1, Fresh(t), Stage(t), Left(t)>>)
      BY <2>4, <2>5, <3>1, <3>2, Descent
    <3> QED
      BY <3>3, <3>4
  <2> QED
    BY <2>6, <2>9 DEF t, u
<1>4. Init => RunnerInv
  BY InitInv
<1> HIDE DEF Step
<1>5. Spec => [][Step]_vars
  BY <1>1, <1>2, <1>3, <1>4, PTL DEF Spec
<1> QED
  BY <1>5 DEF SessionAdvances, Step

-----------------------------------------------------------------------------
(* The inductive invariant of the driver and its worker.                   *)

WorkerBatches ==
    [type : {"batch"}, start : Int, count : Int, hits : HitLists, overflow : {FALSE}]

WorkerSummaries ==
    [type : {"summary"}, start : Int, next : Int, tested : Int, completed : BOOLEAN,
     reason : {"completed", "max_seconds"}]

Said == [type : {"device", "error"}] \cup WorkerBatches \cup WorkerSummaries

(* Where the worker is after its first i records. *)
After(i) ==
    IF i > 0 /\ output[i].type = "batch" THEN output[i].start + output[i].count
    ELSE IF i > 0 /\ output[i].type = "summary" THEN output[i].next
    ELSE request.start

(* A record follows from those before it. *)
Chained(i) ==
    LET r == output[i]
    IN  /\ i = 1 => r.type \in {"device", "error"}
        /\ i > 1 => r.type # "device"
        /\ r.type = "error" => exit = "error"
        /\ r.type \in {"batch", "summary"} => i > 1 /\ output[i - 1].type \in {"device", "batch"}
        /\ r.type = "batch" =>
              /\ r.start = After(i - 1)
              /\ request.start <= r.start /\ r.start < Worker!End
              /\ r.count = Worker!BatchSize(r.start)
              /\ Worker!Lists(r.hits, r.start)
        /\ r.type = "summary" =>
              /\ r.start = request.start
              /\ r.next = After(i - 1)
              /\ request.start < r.next /\ r.next <= Worker!End
              /\ r.tested = r.next - r.start
              /\ r.completed = (r.next = Worker!End)
              /\ r.reason = IF r.completed THEN "completed" ELSE "max_seconds"

(* A worker that has not failed goes on after its device record, and has   *)
(* summed up before it exits.                                              *)
Honest ==
    /\ \A i \in 1 .. Len(output) : Chained(i)
    /\ exit = "running" /\ Len(output) = 1 => goesOn
    /\ exit = "ok" => Len(output) > 0 /\ output[Len(output)].type = "summary"

Working(s) == s.pc \in {"events", "yield", "save", "sync"} /\ s.from # Unlaunched

(* The driver is where the records it took have brought it, or is about to *)
(* get there.                                                              *)
Took(s) ==
    /\ taken \in 0 .. Len(output)
    /\ s.device = (taken > 0)
    /\ s.summary = (taken > 0 /\ output[taken].type = "summary")
    /\ s.pc = "events" => WorkerNext(s) = After(taken)
    /\ s.pc # "events" =>
          /\ taken > 0 /\ output[taken].type = "batch"
          /\ s.goal - Delta(s.cfg, s.from) = After(taken)

(* A worker that has its device record written is soon heard again, and    *)
(* its last batch may begin just before its time is up.                    *)
Silence == IF goesOn THEN BatchTime ELSE ExitTime
LastBatch == IF goesOn THEN 0 ELSE BatchTime

(* The driver's clock has run no longer than the worker's and the times    *)
(* that it may be silent allow.                                            *)
OnTime ==
    /\ elapsed \in 0 .. Limit /\ charged \in Nat /\ phase \in Nat
    /\ exit = "running" /\ Len(output) = 0 =>
          elapsed = 0 /\ charged <= phase /\ phase <= StartTime
    /\ exit = "running" /\ Len(output) > 0 =>
          /\ phase <= Silence
          /\ elapsed < Limit => charged <= StartTime + elapsed
          /\ elapsed = Limit => charged < StartTime + Limit + phase + LastBatch

Linked(s) ==
    /\ request = Command(s)
    /\ matches = Matching(s)
    /\ output \in Seq(Said)
    /\ exit \in {"running", "ok", "error"}
    /\ Honest
    /\ Took(s)
    /\ OnTime

SystemInv ==
    /\ RunnerInv
    /\ \A p \in Procs : Working(session[p]) => Linked(session[p])

-----------------------------------------------------------------------------
(* Records.                                                                *)

LEMMA Appended ==
    ASSUME NEW S, NEW o \in Seq(S), NEW r \in S
    PROVE  /\ Append(o, r) \in Seq(S)
           /\ Len(o) \in Nat /\ Len(Append(o, r)) = Len(o) + 1
           /\ Append(o, r)[Len(o) + 1] = r
           /\ \A i \in 1 .. Len(o) : Append(o, r)[i] = o[i]
OBVIOUS

LEMMA NoRecord ==
    ASSUME NEW S, NEW o \in Seq(S)
    PROVE  o = <<>> <=> Len(o) = 0
OBVIOUS

(* What the driver asks for is a range of the worker's own numbers. *)
LEMMA Asked ==
    ASSUME RunnerInv, NEW p \in Procs, Working(session[p]), request = Command(session[p])
    PROVE  LET s == session[p]
           IN  /\ s \in Session /\ s.from \in Nat /\ s.from < Total[s.cfg]
               /\ request.start \in Nat /\ request.count \in Nat \ {0}
               /\ request.batch \in Nat \ {0}
               /\ request.start = WorkerStart(s.cfg, s.from)
               /\ request.count = WorkerCount(s.cfg, s.from)
               /\ request.batch = s.batch
               /\ Worker!End = WorkerEnd(s) /\ Worker!End = request.start + request.count
               /\ Delta(s.cfg, s.from) \in Int
               /\ \A w \in Int : Tested(s.cfg, s.from, w) = w + Delta(s.cfg, s.from)
<1> DEFINE s == session[p]
<1>1. s \in Session /\ SessionInv(s) /\ s.cfg \in Configs /\ s.batch \in BatchSizes
  BY DEF RunnerInv, Session
<1>2. s.from \in Nat /\ s.from < Total[s.cfg]
  BY <1>1 DEF Session, SessionInv, Within, Working
<1>3. /\ WorkerStart(s.cfg, s.from) \in Nat /\ WorkerCount(s.cfg, s.from) \in Nat \ {0}
      /\ Delta(s.cfg, s.from) \in Int
      /\ \A w \in Int : Tested(s.cfg, s.from, w) = w + Delta(s.cfg, s.from)
  BY <1>1, <1>2, Segment
<1>4. /\ request.start = WorkerStart(s.cfg, s.from) /\ request.batch = s.batch
      /\ request.count = WorkerCount(s.cfg, s.from)
  BY DEF Command
<1>5. s.batch \in Nat \ {0}
  BY <1>1, OthersTyped
<1> QED
  BY <1>1, <1>2, <1>3, <1>4, <1>5 DEF Worker!End, WorkerEnd

(* The chain stays in the request. *)
LEMMA ChainWithin ==
    ASSUME output \in Seq(Said),
           request.start \in Nat, request.count \in Nat \ {0}, request.batch \in Nat \ {0},
           \A i \in 1 .. Len(output) : Chained(i),
           NEW i \in 0 .. Len(output)
    PROVE  After(i) \in request.start .. Worker!End
<1>1. Worker!End \in Nat /\ Worker!End > request.start
  BY DEF Worker!End
<1>2. CASE i = 0
  BY <1>1, <1>2 DEF After
<1>3. CASE i > 0
  <2>1. i \in 1 .. Len(output) /\ output[i] \in Said /\ Chained(i)
    BY <1>3
  <2>2. CASE output[i].type = "batch"
    <3>1. output[i].start \in Int
      BY <2>1, <2>2 DEF Said, WorkerBatches, WorkerSummaries
    <3>2. /\ request.start <= output[i].start /\ output[i].start < Worker!End
          /\ output[i].count = Worker!BatchSize(output[i].start)
      BY <2>1, <2>2 DEF Chained
    <3>3. After(i) = output[i].start + output[i].count
      BY <1>3, <2>2 DEF After
    <3>4. output[i].count \in Int /\ 0 < output[i].count
          /\ output[i].start + output[i].count <= Worker!End
      BY <1>1, <3>1, <3>2 DEF Worker!BatchSize
    <3> QED
      BY <1>1, <3>1, <3>2, <3>3, <3>4
  <2>3. CASE output[i].type = "summary"
    <3>1. output[i].next \in Int
      BY <2>1, <2>3 DEF Said, WorkerBatches, WorkerSummaries
    <3>2. request.start < output[i].next /\ output[i].next <= Worker!End
      BY <2>1, <2>3 DEF Chained
    <3>3. After(i) = output[i].next
      BY <1>3, <2>3 DEF After
    <3> QED
      BY <1>1, <3>1, <3>2, <3>3
  <2>4. CASE output[i].type \notin {"batch", "summary"}
    BY <1>1, <1>3, <2>4 DEF After
  <2> QED
    BY <2>2, <2>3, <2>4
<1> QED
  BY <1>2, <1>3

(* One record more: the chain before it stays what it was. *)
LEMMA Extended ==
    ASSUME output \in Seq(Said), NEW r \in Said, output' = Append(output, r),
           UNCHANGED request
    PROVE  /\ output' \in Seq(Said) /\ Len(output) \in Nat
           /\ Len(output') = Len(output) + 1 /\ output'[Len(output) + 1] = r
           /\ \A i \in 1 .. Len(output) : output'[i] = output[i]
           /\ \A i \in 0 .. Len(output) : After(i)' = After(i)
<1>1. /\ output' \in Seq(Said) /\ Len(output) \in Nat
      /\ Len(output') = Len(output) + 1 /\ output'[Len(output) + 1] = r
      /\ \A i \in 1 .. Len(output) : output'[i] = output[i]
  BY Appended
<1>2. ASSUME NEW i \in 0 .. Len(output)
      PROVE  After(i)' = After(i)
  <2>1. i > 0 => output'[i] = output[i]
    BY <1>1
  <2> QED
    BY <2>1 DEF After
<1> QED
  BY <1>1, <1>2

LEMMA ChainExtended ==
    ASSUME output \in Seq(Said), NEW r \in Said, output' = Append(output, r),
           UNCHANGED <<request, matches>>,
           exit = "running", \A i \in 1 .. Len(output) : Chained(i),
           NEW n, n = Len(output) + 1, Chained(n)'
    PROVE  \A i \in 1 .. Len(output') : Chained(i)'
<1>1. /\ Len(output) \in Nat /\ Len(output') = Len(output) + 1
      /\ \A i \in 1 .. Len(output) : output'[i] = output[i]
      /\ \A i \in 0 .. Len(output) : After(i)' = After(i)
  BY Extended
<1>2. ASSUME NEW i \in 1 .. Len(output)
      PROVE  Chained(i)'
  <2>1. Chained(i) /\ output'[i] = output[i] /\ After(i - 1)' = After(i - 1)
    BY <1>1
  <2>2. i > 1 => output'[i - 1] = output[i - 1]
    BY <1>1
  <2>3. output[i].type # "error"
    BY <2>1 DEF Chained
  <2> QED
    BY <2>1, <2>2, <2>3 DEF Chained, Worker!End, Worker!BatchSize, Worker!Lists
<1>3. \A i \in 1 .. Len(output') : i \in 1 .. Len(output) \/ i = n
  BY <1>1
<1> QED
  BY <1>2, <1>3

(* What is to be shown of a session s that is still working after a step. *)
LEMMA LinkedNext ==
    ASSUME NEW p \in Procs, NEW s, session'[p] = s,
           request' = Command(s), matches' = Matching(s), output' \in Seq(Said),
           exit' \in {"running", "ok", "error"}, Honest', Took(s)', OnTime'
    PROVE  Linked(session[p])'
<1>1. Took(session[p])'
  BY DEF Took, WorkerNext
<1> QED
  BY <1>1 DEF Linked, Command, Matching

-----------------------------------------------------------------------------
(* The worker's steps: its driver stays where it is.                       *)

LEMMA StillTook ==
    ASSUME output \in Seq(Said), NEW r \in Said, output' = Append(output, r),
           UNCHANGED <<request, taken>>, NEW s, Took(s)
    PROVE  Took(s)'
<1>1. /\ Len(output) \in Nat /\ Len(output') = Len(output) + 1
      /\ \A i \in 1 .. Len(output) : output'[i] = output[i]
      /\ \A i \in 0 .. Len(output) : After(i)' = After(i)
  BY Extended
<1>2. taken \in 0 .. Len(output)
  BY DEF Took
<1>3. taken > 0 => output'[taken] = output[taken]
  BY <1>1, <1>2
<1>4. PICK k : k = taken
  OBVIOUS
<1>5. After(k)' = After(k)
  BY <1>1, <1>2, <1>4
<1>6. After(taken)' = After(taken)
  BY <1>4, <1>5 DEF After
<1> QED
  BY <1>1, <1>2, <1>3, <1>6 DEF Took, WorkerNext

LEMMA WorkerDeviceLinked ==
    ASSUME SystemInv, WorkerDevice, NEW p \in Procs, Working(session[p])
    PROVE  Linked(session[p])'
<1> DEFINE r == [type |-> "device"]
<1>1. PICK s : s = session[p]
  OBVIOUS
<1>2. Linked(s) /\ session'[p] = s /\ RunnerInv
  BY <1>1 DEF SystemInv, WorkerDevice, runner
<1>3. /\ output = <<>> /\ exit = "running" /\ output' = Append(output, r)
      /\ UNCHANGED <<request, matches, exit, taken, elapsed, charged>>
      /\ goesOn' = AnotherBatch(request.start) /\ phase' = 0
  BY DEF WorkerDevice, Worker!Device, Worker!Write
<1>4. r \in Said
  BY DEF Said
<1>5. output \in Seq(Said) /\ Len(output) = 0
  BY <1>2, <1>3 DEF Linked
<1>6. output' \in Seq(Said) /\ Len(output') = 1 /\ output'[1] = r
  BY <1>3, <1>4, <1>5, Extended
<1>7. /\ request.start \in Nat /\ request.count \in Nat \ {0}
      /\ elapsed = 0 /\ charged \in Nat /\ charged <= phase /\ phase <= StartTime
      /\ Limit \in Nat \ {0} /\ BatchTime \in Nat /\ StartTime \in Nat
  BY <1>1, <1>2, <1>3, <1>5, Asked, SystemConstants DEF Linked, OnTime
<1>8. goesOn' = TRUE
  <2>1. request.start < Worker!End /\ elapsed < Limit
    BY <1>7 DEF Worker!End
  <2> QED
    BY <1>3, <2>1, Zenon DEF AnotherBatch
<1>9. \A i \in 1 .. Len(output') : Chained(i)'
  BY <1>3, <1>6 DEF Chained
<1>10. Honest'
  BY <1>3, <1>8, <1>9 DEF Honest
<1>11. Took(s)'
  BY <1>2, <1>3, <1>4, <1>5, StillTook DEF Linked
<1>12. OnTime'
  <2>1. elapsed' = 0 /\ charged' = charged /\ phase' = 0
    BY <1>3, <1>7
  <2>2. Len(output') > 0
    BY <1>6
  <2>3. phase \in Nat
    BY <1>2 DEF Linked, OnTime
  <2>4. charged <= StartTime
    BY <1>7, <2>3
  <2> QED
    BY <1>7, <1>8, <2>1, <2>2, <2>4 DEF OnTime, Silence, LastBatch
<1> QED
  BY <1>2, <1>3, <1>6, <1>10, <1>11, <1>12, LinkedNext DEF Linked

(* A batch record follows from what is written. *)
LEMMA WorkerBatchLinked ==
    ASSUME SystemInv, WorkerBatch, NEW p \in Procs, Working(session[p])
    PROVE  Linked(session[p])'
<1>1. PICK s : s = session[p]
  OBVIOUS
<1>2. Linked(s) /\ session'[p] = s /\ RunnerInv
  BY <1>1 DEF SystemInv, WorkerBatch, runner
<1>3. PICK at : at = Worker!Position(output)
  OBVIOUS
<1>4. PICK hits \in HitLists :
        /\ Worker!Lists(hits, at)
        /\ output' = Append(output, [type |-> "batch", start |-> at,
                        count |-> Worker!BatchSize(at), hits |-> hits, overflow |-> FALSE])
  BY <1>3 DEF WorkerBatch, Worker!Batch, Worker!Write
<1>5. PICK r : r = [type |-> "batch", start |-> at, count |-> Worker!BatchSize(at),
                    hits |-> hits, overflow |-> FALSE]
  OBVIOUS
<1>6. /\ exit = "running" /\ goesOn /\ Worker!Searching /\ at < Worker!End
      /\ output' = Append(output, r)
      /\ UNCHANGED <<request, matches, exit, taken, elapsed, charged>>
      /\ phase' = 0 /\ goesOn' = AnotherBatch(Worker!Position(output'))
  BY <1>3, <1>4, <1>5 DEF WorkerBatch, Worker!Batch, Worker!Write
<1>7. /\ request.start \in Nat /\ request.count \in Nat \ {0} /\ request.batch \in Nat \ {0}
      /\ Limit \in Nat \ {0} /\ BatchTime \in Nat /\ StartTime \in Nat /\ ExitTime \in Nat
  BY <1>1, <1>2, Asked, SystemConstants DEF Linked
<1>8. /\ output \in Seq(Said) /\ Len(output) \in Nat /\ Len(output) > 0
      /\ output[Len(output)].type \in {"device", "batch"}
      /\ \A i \in 1 .. Len(output) : Chained(i)
  BY <1>2, <1>6, NoRecord DEF Linked, Honest, Worker!Searching
<1>9. at = After(Len(output))
  BY <1>3, <1>8 DEF Worker!Position, Worker!IsBatch, After
<1>10. at \in request.start .. Worker!End /\ Worker!End \in Nat
  BY <1>7, <1>8, <1>9, ChainWithin DEF Worker!End
<1>11. at \in Int /\ Worker!BatchSize(at) \in Int
  BY <1>7, <1>10 DEF Worker!BatchSize
<1>12. r \in Said
  BY <1>5, <1>11 DEF Said, WorkerBatches
<1>13. PICK n : n = Len(output) + 1
  OBVIOUS
<1>14. /\ output' \in Seq(Said) /\ Len(output') = n /\ output'[n] = r
       /\ output'[n - 1] = output[n - 1]
       /\ \A i \in 0 .. Len(output) : After(i)' = After(i)
  BY <1>6, <1>8, <1>12, <1>13, Extended
<1>15. PICK k : k = n - 1 /\ k \in 0 .. Len(output) /\ k = Len(output)
  BY <1>8, <1>13
<1>16. After(k)' = at
  BY <1>9, <1>14, <1>15
<1>17. Chained(n)'
  <2>1. /\ r.type = "batch" /\ r.start = at /\ r.hits = hits
        /\ r.count = Worker!BatchSize(at)
    BY <1>5
  <2>2. n > 1 /\ n # 1 /\ n - 1 = k
    BY <1>8, <1>13, <1>15
  <2>3. output'[n] = r /\ output'[k].type \in {"device", "batch"}
    BY <1>8, <1>14, <1>15
  <2>4. request' = request /\ matches' = matches
    BY <1>6
  <2>5. Worker!End' = Worker!End /\ Worker!BatchSize(at)' = Worker!BatchSize(at)
    BY <2>4 DEF Worker!End, Worker!BatchSize
  <2>6. Worker!Lists(hits, at)'
    BY <1>4, <2>4, <2>5 DEF Worker!Lists
  <2>7. request.start <= at /\ at < Worker!End
    BY <1>6, <1>10
  <2> QED
    BY <1>16, <2>1, <2>2, <2>3, <2>4, <2>5, <2>6, <2>7 DEF Chained
<1>18. \A i \in 1 .. Len(output') : Chained(i)'
  BY <1>6, <1>8, <1>12, <1>13, <1>17, ChainExtended
<1>19. Honest'
  BY <1>6, <1>8, <1>13, <1>14, <1>18 DEF Honest
<1>20. Took(s)'
  BY <1>2, <1>6, <1>12, StillTook DEF Linked
<1>21. OnTime'
  <2>1. goesOn' => elapsed < Limit
    BY <1>6 DEF AnotherBatch
  <2>2. /\ elapsed \in 0 .. Limit /\ charged \in Nat /\ phase \in Nat /\ phase <= BatchTime
        /\ elapsed < Limit => charged <= StartTime + elapsed
        /\ elapsed = Limit => charged < StartTime + Limit + phase + 0
    BY <1>2, <1>6, <1>8 DEF Linked, OnTime, Silence, LastBatch
  <2>3. elapsed = Limit => charged < StartTime + Limit + 0 + BatchTime
    BY <1>7, <2>2
  <2>4. elapsed = Limit => LastBatch' = BatchTime
    BY <1>7, <2>1, <2>2 DEF LastBatch
  <2>5. 0 <= Silence'
    BY <1>7 DEF Silence
  <2>6. Len(output') > 0 /\ phase' = 0 /\ elapsed' = elapsed /\ charged' = charged
    BY <1>6, <1>8, <1>13, <1>14
  <2> QED
    BY <1>7, <2>2, <2>3, <2>4, <2>5, <2>6 DEF OnTime
<1> QED
  BY <1>2, <1>6, <1>14, <1>19, <1>20, <1>21, LinkedNext DEF Linked

(* The clock may have run out before a batch, never before the first. *)
LEMMA WorkerSummaryLinked ==
    ASSUME SystemInv, WorkerSummary, NEW p \in Procs, Working(session[p])
    PROVE  Linked(session[p])'
<1>1. PICK s : s = session[p]
  OBVIOUS
<1>2. Linked(s) /\ session'[p] = s /\ RunnerInv
  BY <1>1 DEF SystemInv, WorkerSummary, runner
<1>3. PICK at : at = Worker!Position(output)
  OBVIOUS
<1>4. PICK r : r = [type |-> "summary", start |-> request.start, next |-> at,
                    tested |-> at - request.start, completed |-> at = Worker!End,
                    reason |-> Worker!Reason(at)]
  OBVIOUS
<1>5. /\ exit = "running" /\ ~ goesOn /\ Worker!Searching
      /\ output' = Append(output, r)
      /\ UNCHANGED <<request, matches, exit, goesOn, taken, clocks>>
  BY <1>3, <1>4 DEF WorkerSummary, Worker!Summary, Worker!Write
<1>6. /\ request.start \in Nat /\ request.count \in Nat \ {0} /\ request.batch \in Nat \ {0}
  BY <1>1, <1>2, Asked DEF Linked
<1>7. /\ output \in Seq(Said) /\ Len(output) \in Nat /\ Len(output) > 1
      /\ output[Len(output)].type = "batch"
      /\ \A i \in 1 .. Len(output) : Chained(i)
  <2>1. /\ output \in Seq(Said) /\ Len(output) \in Nat /\ Len(output) > 0
        /\ output[Len(output)].type \in {"device", "batch"}
        /\ \A i \in 1 .. Len(output) : Chained(i)
    BY <1>2, <1>5, NoRecord DEF Linked, Honest, Worker!Searching
  <2>2. Len(output) # 1
    BY <1>2, <1>5 DEF Linked, Honest
  <2>3. Chained(Len(output))
    BY <2>1
  <2>4. Len(output) > 1
    <3>1. PICK n \in Nat : n = Len(output) /\ n > 0 /\ n # 1
      BY <2>1, <2>2
    <3>2. n > 1
      BY <3>1
    <3> QED
      BY <3>1, <3>2, Zenon
  <2>5. output[Len(output)].type # "device"
    BY <2>3, <2>4 DEF Chained
  <2> QED
    BY <2>1, <2>4, <2>5
<1>8. at = After(Len(output))
  BY <1>3, <1>7 DEF Worker!Position, Worker!IsBatch, After
<1>9. at \in request.start .. Worker!End /\ Worker!End \in Nat
  BY <1>6, <1>7, <1>8, ChainWithin DEF Worker!End
<1>10. at > request.start
  <2>1. Chained(Len(output)) /\ output[Len(output)] \in Said
    BY <1>7
  <2>2. output[Len(output)].start \in Int
    BY <1>7, <2>1 DEF Said, WorkerBatches, WorkerSummaries
  <2>3. /\ request.start <= output[Len(output)].start
        /\ output[Len(output)].start < Worker!End
        /\ output[Len(output)].count = Worker!BatchSize(output[Len(output)].start)
    BY <1>7, <2>1 DEF Chained
  <2>4. output[Len(output)].count \in Int /\ output[Len(output)].count > 0
    BY <1>6, <1>9, <2>2, <2>3 DEF Worker!BatchSize
  <2>5. at = output[Len(output)].start + output[Len(output)].count
    BY <1>7, <1>8 DEF After
  <2> QED
    BY <1>6, <2>2, <2>3, <2>4, <2>5
<1>21. /\ Worker!Reason(at) = IF at = Worker!End THEN "completed" ELSE "max_seconds"
       /\ Worker!Reason(at) \in {"completed", "max_seconds"}
  BY DEF Worker!Reason
<1>11. r \in Said
  BY <1>4, <1>6, <1>9, <1>21 DEF Said, WorkerSummaries
<1>12. PICK n : n = Len(output) + 1
  OBVIOUS
<1>13. /\ output' \in Seq(Said) /\ Len(output') = n /\ output'[n] = r
       /\ output'[n - 1] = output[n - 1]
       /\ \A i \in 0 .. Len(output) : After(i)' = After(i)
  BY <1>5, <1>7, <1>11, <1>12, Extended
<1>14. PICK k : k = n - 1 /\ k \in 0 .. Len(output) /\ k = Len(output)
  BY <1>7, <1>12
<1>15. After(k)' = at
  BY <1>8, <1>13, <1>14
<1>16. Chained(n)'
  <2>1. /\ r.type = "summary" /\ r.start = request.start /\ r.next = at
        /\ r.tested = r.next - r.start
        /\ r.completed = (r.next = Worker!End)
        /\ r.reason = IF r.completed THEN "completed" ELSE "max_seconds"
    BY <1>4, <1>21
  <2>2. /\ n > 1 /\ output'[n] = r /\ output'[n - 1].type = "batch"
        /\ After(n - 1)' = at /\ request' = request
    BY <1>5, <1>7, <1>12, <1>13, <1>14, <1>15
  <2>3. (Worker!End)' = Worker!End /\ request.start < at /\ at <= Worker!End
    BY <1>5, <1>6, <1>9, <1>10 DEF Worker!End
  <2> HIDE DEF Worker!End
  <2> QED
    BY <2>1, <2>2, <2>3 DEF Chained
<1>17. \A i \in 1 .. Len(output') : Chained(i)'
  BY <1>5, <1>7, <1>11, <1>12, <1>16, ChainExtended
<1>18. Honest'
  BY <1>5, <1>7, <1>12, <1>13, <1>17 DEF Honest
<1>19. Took(s)'
  BY <1>2, <1>5, <1>11, StillTook DEF Linked
<1>20. OnTime'
  BY <1>2, <1>5, <1>7, <1>12, <1>13 DEF OnTime, Linked, clocks, Silence, LastBatch
<1> QED
  BY <1>2, <1>5, <1>13, <1>18, <1>19, <1>20, LinkedNext DEF Linked

LEMMA WorkerFinishLinked ==
    ASSUME SystemInv, WorkerFinish, NEW p \in Procs, Working(session[p])
    PROVE  Linked(session[p])'
<1>1. PICK s : s = session[p]
  OBVIOUS
<1>2. Linked(s) /\ session'[p] = s
  BY <1>1 DEF SystemInv, WorkerFinish, runner
<1>3. /\ exit = "running" /\ output # <<>> /\ output[Len(output)].type = "summary"
      /\ exit' = "ok" /\ UNCHANGED <<request, matches, output, goesOn, taken, clocks>>
  BY DEF WorkerFinish, Worker!Finish
<1>4. /\ output \in Seq(Said) /\ Len(output) \in Nat /\ Len(output) > 0
  BY <1>2, <1>3, NoRecord DEF Linked
<1>5. \A i \in 1 .. Len(output') : Chained(i)'
  <2> SUFFICES ASSUME NEW i \in 1 .. Len(output)
               PROVE  Chained(i)'
    BY <1>3
  <2>1. Chained(i)
    BY <1>2 DEF Linked, Honest
  <2> QED
    BY <1>3, <2>1 DEF Chained, After, Worker!End, Worker!BatchSize, Worker!Lists
<1>6. Honest'
  BY <1>3, <1>4, <1>5 DEF Honest
<1>7. Took(s)'
  BY <1>2, <1>3 DEF Linked, Took, WorkerNext, After
<1>8. OnTime'
  BY <1>2, <1>3 DEF OnTime, Linked, clocks, Silence, LastBatch
<1> QED
  BY <1>2, <1>3, <1>6, <1>7, <1>8, LinkedNext DEF Linked

(* It may say so or not. *)
LEMMA WorkerFailsLinked ==
    ASSUME SystemInv, WorkerFails, NEW p \in Procs, Working(session[p])
    PROVE  Linked(session[p])'
<1>1. PICK s : s = session[p]
  OBVIOUS
<1>2. Linked(s) /\ session'[p] = s
  BY <1>1 DEF SystemInv, WorkerFails, runner
<1>3. PICK r : r = [type |-> "error"]
  OBVIOUS
<1>4. /\ exit = "running" /\ exit' = "error"
      /\ output' \in {output, Append(output, r)}
      /\ UNCHANGED <<request, matches, goesOn, taken, clocks>>
  BY <1>3 DEF WorkerFails, Worker!Fail
<1>5. /\ output \in Seq(Said) /\ Len(output) \in Nat
      /\ \A i \in 1 .. Len(output) : Chained(i)
  BY <1>2 DEF Linked, Honest
<1>6. r \in Said
  BY <1>3 DEF Said
<1>7. /\ output' \in Seq(Said)
      /\ \A i \in 1 .. Len(output') : Chained(i)'
      /\ Took(s)'
  <2>1. CASE output' = output
    <3>1. ASSUME NEW i \in 1 .. Len(output')
          PROVE  Chained(i)'
      <4>1. Chained(i)
        BY <1>5, <2>1
      <4> QED
        BY <1>4, <2>1, <4>1 DEF Chained, After, Worker!End, Worker!BatchSize, Worker!Lists
    <3>2. Took(s)'
      BY <1>2, <1>4, <2>1 DEF Linked, Took, WorkerNext, After
    <3> QED
      BY <1>5, <2>1, <3>1, <3>2
  <2>2. CASE output' = Append(output, r)
    <3>1. PICK n : n = Len(output) + 1
      OBVIOUS
    <3>2. Len(output') = n /\ output'[n] = r /\ output' \in Seq(Said)
      BY <1>4, <1>5, <1>6, <2>2, <3>1, Extended
    <3>3. n # 1 => n > 1
      BY <1>5, <3>1
    <3>4. Chained(n)'
      BY <1>3, <1>4, <3>2, <3>3 DEF Chained
    <3>5. \A i \in 1 .. Len(output') : Chained(i)'
      BY <1>4, <1>5, <1>6, <2>2, <3>1, <3>4, ChainExtended
    <3>6. Took(s)'
      BY <1>2, <1>4, <1>6, <2>2, StillTook DEF Linked
    <3> QED
      BY <3>2, <3>5, <3>6
  <2> QED
    BY <1>4, <2>1, <2>2
<1>8. Honest'
  BY <1>4, <1>7 DEF Honest
<1>9. OnTime'
  BY <1>2, <1>4 DEF OnTime, Linked, clocks, Silence, LastBatch
<1> QED
  BY <1>2, <1>4, <1>7, <1>8, <1>9, LinkedNext DEF Linked

-----------------------------------------------------------------------------
(* Time passing.                                                           *)

LEMMA TimeLinked ==
    ASSUME SystemInv, Tick \/ TickAway, NEW p \in Procs, Working(session[p])
    PROVE  Linked(session[p])'
<1>1. PICK s : s = session[p]
  OBVIOUS
<1>2. Linked(s) /\ session'[p] = s /\ RunnerInv
  BY <1>1 DEF SystemInv, Tick, TickAway, runner
<1>3. /\ exit = "running" /\ elapsed' = Later
      /\ UNCHANGED <<request, matches, output, exit, goesOn, taken>>
  BY DEF Tick, TickAway, worker
<1>4. /\ output' \in Seq(Said) /\ Honest' /\ Took(s)'
  <2>1. \A i \in 1 .. Len(output) : Chained(i)'
    BY <1>2, <1>3 DEF Linked, Honest, Chained, After, Worker!End, Worker!BatchSize, Worker!Lists
  <2> QED
    BY <1>2, <1>3, <2>1 DEF Linked, Honest, Took, WorkerNext, After
<1>5. /\ Limit \in Nat /\ StartTime \in Nat
      /\ Len(output) \in Nat /\ (output = <<>> <=> Len(output) = 0)
      /\ elapsed \in 0 .. Limit /\ charged \in Nat /\ phase \in Nat
      /\ Silence \in Nat /\ LastBatch \in Nat
  BY <1>2, NoRecord, SystemConstants DEF Linked, OnTime, Silence, LastBatch
<1>6. Silence' = Silence /\ LastBatch' = LastBatch /\ Len(output') = Len(output)
  BY <1>3 DEF Silence, LastBatch
<1>7. ASSUME Len(output) = 0
      PROVE  OnTime'
  <2>1. elapsed = 0 /\ charged <= phase /\ phase <= StartTime
    BY <1>2, <1>3, <1>7 DEF Linked, OnTime
  <2>2. elapsed' = 0
    BY <1>3, <1>5, <1>7, <2>1 DEF Later
  <2>3. CASE Tick
    <3>1. charged' = charged + 1 /\ phase' = phase + 1 /\ phase < StartTime
      BY <1>5, <1>7, <2>3 DEF Tick, Patience
    <3>2. charged' \in Nat /\ phase' \in Nat /\ charged' <= phase' /\ phase' <= StartTime
      BY <1>5, <2>1, <3>1
    <3> QED
      BY <1>5, <1>6, <1>7, <2>2, <3>2 DEF OnTime
  <2>4. CASE TickAway
    <3>1. charged' = charged /\ phase' = phase
      BY <2>4 DEF TickAway
    <3> QED
      BY <1>5, <1>6, <1>7, <2>1, <2>2, <3>1 DEF OnTime
  <2> QED
    BY <2>3, <2>4
<1>8. ASSUME Len(output) > 0
      PROVE  OnTime'
  <2>1. /\ phase <= Silence
        /\ elapsed < Limit => charged <= StartTime + elapsed
        /\ elapsed = Limit => charged < StartTime + Limit + phase + LastBatch
    BY <1>2, <1>3, <1>8 DEF Linked, OnTime
  <2>2. elapsed' = IF elapsed < Limit THEN elapsed + 1 ELSE elapsed
    BY <1>3, <1>5, <1>8 DEF Later
  <2>3. CASE Tick
    <3>1. charged' = charged + 1 /\ phase' = phase + 1 /\ phase < Silence
      BY <1>5, <1>8, <2>3 DEF Tick, Patience, Silence
    <3>2. /\ elapsed' \in 0 .. Limit /\ charged' \in Nat /\ phase' \in Nat /\ phase' <= Silence
          /\ elapsed' < Limit => charged' <= StartTime + elapsed'
          /\ elapsed' = Limit => charged' < StartTime + Limit + phase' + LastBatch
      BY <1>5, <2>1, <2>2, <3>1
    <3> QED
      BY <1>6, <1>8, <3>2 DEF OnTime
  <2>4. CASE TickAway
    <3>1. charged' = charged /\ phase' = phase
      BY <2>4 DEF TickAway
    <3>2. /\ elapsed' \in 0 .. Limit /\ charged' \in Nat /\ phase' \in Nat /\ phase' <= Silence
          /\ elapsed' < Limit => charged' <= StartTime + elapsed'
          /\ elapsed' = Limit => charged' < StartTime + Limit + phase' + LastBatch
      BY <1>5, <2>1, <2>2, <3>1
    <3> QED
      BY <1>6, <1>8, <3>2 DEF OnTime
  <2> QED
    BY <2>3, <2>4
<1>9. OnTime'
  BY <1>5, <1>7, <1>8
<1> QED
  BY <1>2, <1>3, <1>4, <1>9, LinkedNext DEF Linked

-----------------------------------------------------------------------------
(* What the driver reads next is what it expects.                          *)

LEMMA NextRecord ==
    ASSUME SystemInv, NEW p \in Procs, At(p, "events")
    PROVE  /\ Working(session[p]) /\ Linked(session[p]) /\ RunnerInv
           /\ taken \in Nat /\ taken <= Len(output) /\ Len(output) \in Nat
           /\ Unread => Record \in Said /\ Chained(taken + 1)
<1>1. Working(session[p])
  BY DEF SystemInv, RunnerInv, SessionInv, Located, Working, At
<1>2. Linked(session[p]) /\ RunnerInv
  BY <1>1 DEF SystemInv
<1>3. /\ output \in Seq(Said) /\ Len(output) \in Nat /\ taken \in 0 .. Len(output)
      /\ \A i \in 1 .. Len(output) : Chained(i)
  BY <1>2 DEF Linked, Took, Honest
<1>4. ASSUME Unread
      PROVE  Record \in Said /\ Chained(taken + 1)
  <2>1. taken + 1 \in 1 .. Len(output)
    BY <1>3, <1>4 DEF Unread
  <2> QED
    BY <1>3, <2>1 DEF Record
<1> QED
  BY <1>1, <1>2, <1>3, <1>4

LEMMA DeviceExpected ==
    ASSUME SystemInv, NEW p \in Procs, At(p, "events"), Unread, Record.type = "device"
    PROVE  taken = 0 /\ ~ session[p].device /\ ~ session[p].summary
<1>1. Chained(taken + 1) /\ Linked(session[p]) /\ taken \in Nat
  BY NextRecord
<1>2. ~ (taken + 1 > 1)
  BY <1>1 DEF Chained, Record
<1>3. taken = 0 /\ ~ (taken > 0)
  BY <1>1, <1>2
<1> QED
  BY <1>1, <1>3, Zenon DEF Linked, Took

LEMMA BatchExpected ==
    ASSUME SystemInv, NEW p \in Procs, At(p, "events"), Unread, Record.type = "batch"
    PROVE  /\ Accepts(session[p], Record)
           /\ \E r \in BatchRecord :
                 /\ Truthful(session[p], r)
                 /\ r.start = Record.start /\ r.count = Record.count
                 /\ r.hits = Record.hits /\ r.overflow = Record.overflow
<1> DEFINE s == session[p]
           b == Record
<1>1. /\ Record \in Said /\ Chained(taken + 1) /\ Linked(s) /\ Working(s) /\ RunnerInv
      /\ taken \in Nat
  BY NextRecord
<1>2. b \in WorkerBatches
  BY <1>1 DEF Said, WorkerBatches, WorkerSummaries
<1>3. b.start \in Int /\ b.count \in Int /\ b.hits \in HitLists /\ b.overflow = FALSE
  BY <1>2 DEF WorkerBatches
<1>4. /\ s \in Session /\ s.from \in Nat /\ s.from < Total[s.cfg]
      /\ request.start \in Nat /\ request.count \in Nat \ {0} /\ request.batch \in Nat \ {0}
      /\ request.start = WorkerStart(s.cfg, s.from)
      /\ request.count = WorkerCount(s.cfg, s.from)
      /\ request.batch = s.batch
      /\ Worker!End = WorkerEnd(s) /\ Worker!End = request.start + request.count
      /\ matches = Matching(s) /\ request = Command(s)
  BY <1>1, Asked DEF Linked
<1>5. /\ taken > 0 /\ output[taken].type \in {"device", "batch"}
      /\ b.start = After(taken)
      /\ request.start <= b.start /\ b.start < Worker!End
      /\ b.count = Worker!BatchSize(b.start) /\ Worker!Lists(b.hits, b.start)
  <2>1. taken + 1 > 1 /\ output[taken + 1 - 1].type \in {"device", "batch"}
    BY <1>1 DEF Chained, Record
  <2>2. taken + 1 - 1 = taken
    BY <1>1
  <2>3. taken > 0
    BY <1>1, <2>1
  <2>4. /\ b.start = After(taken)
        /\ request.start <= b.start /\ b.start < Worker!End
        /\ b.count = Worker!BatchSize(b.start) /\ Worker!Lists(b.hits, b.start)
    BY <1>1, <2>2 DEF Chained, Record
  <2> QED
    BY <2>1, <2>2, <2>3, <2>4
<1>6. s.device /\ ~ s.summary /\ WorkerNext(s) = After(taken)
  <2>1. s.pc = "events"
    BY DEF At
  <2> QED
    BY <1>1, <1>5, <2>1 DEF Linked, Took
<1>7. Contiguous(s, b)
  BY <1>5, <1>6 DEF Contiguous
<1>8. /\ b.count \in Int /\ 1 <= b.count /\ b.count <= request.count
      /\ b.start + b.count <= Worker!End
  BY <1>3, <1>4, <1>5 DEF Worker!BatchSize
<1>9. WholeBatch(s, b)
  BY <1>3, <1>4, <1>5, <1>6, <1>8 DEF WholeBatch, Expected, Worker!BatchSize
<1>10. b.hits \in Seq(Int) /\ Len(b.hits) <= HitLimit
  BY <1>3, SystemConstants, OthersTyped
<1>11. /\ \A i, j \in DOMAIN b.hits : i < j => b.hits[i] < b.hits[j]
       /\ {b.hits[i] : i \in DOMAIN b.hits} = matches \cap Range(b)
  BY <1>5 DEF Worker!Lists, Worker!Ascending, Worker!Listed, Range
<1>12. HitsInOrder(b)
  BY <1>10, <1>11 DEF HitsInOrder
<1>13. Accepts(s, b)
  BY <1>3, <1>6, <1>7, <1>9, <1>12 DEF Accepts, Complete
<1>14. \A w \in Range(b) :
          (\E i \in DOMAIN b.hits : b.hits[i] = w) <=> Tested(s.cfg, s.from, w) \in Hits[s.cfg]
  <2> SUFFICES ASSUME NEW w \in Range(b)
               PROVE  (\E i \in DOMAIN b.hits : b.hits[i] = w)
                         <=> Tested(s.cfg, s.from, w) \in Hits[s.cfg]
    OBVIOUS
  <2>1. w \in request.start .. request.start + request.count - 1
    BY <1>3, <1>4, <1>5, <1>8 DEF Range
  <2>2. w \in matches <=> Tested(s.cfg, s.from, w) \in Hits[s.cfg]
    BY <1>4, <2>1 DEF Matching
  <2>3. (\E i \in DOMAIN b.hits : b.hits[i] = w) <=> w \in {b.hits[i] : i \in DOMAIN b.hits}
    OBVIOUS
  <2> QED
    BY <1>11, <2>2, <2>3
<1>15. b.start \in FieldValues /\ b.count \in FieldValues
  <2>1. s.cfg \in Configs /\ s.from \in 0 .. Total[s.cfg] - 1
    BY <1>4, TotalsWhole DEF Session
  <2>2. /\ request.start .. request.start + request.count \subseteq FieldValues
        /\ 1 .. request.count \subseteq FieldValues
    BY <1>4, <2>1, FieldsSuffice
  <2>3. b.start \in request.start .. request.start + request.count
    BY <1>3, <1>4, <1>5
  <2>4. b.count \in 1 .. request.count
    BY <1>4, <1>8
  <2> QED
    BY <2>2, <2>3, <2>4
<1>16. PICK r : r = [start |-> b.start, count |-> b.count, overflow |-> FALSE, hits |-> b.hits]
  OBVIOUS
<1>17. r \in BatchRecord /\ r.start = b.start /\ r.count = b.count /\ r.hits = b.hits
       /\ r.overflow = b.overflow
  BY <1>3, <1>15, <1>16 DEF BatchRecord
<1>18. Truthful(s, r)
  BY <1>14, <1>17 DEF Truthful, Range
<1> QED
  BY <1>13, <1>17, <1>18

LEMMA SummaryExpected ==
    ASSUME SystemInv, NEW p \in Procs, At(p, "events"), Unread, Record.type = "summary"
    PROVE  /\ Agrees(session[p], Record)
           /\ session[p].next # session[p].from
           /\ \E r \in SummaryRecord :
                 /\ Reckoned(session[p], r)
                 /\ r.start = Record.start /\ r.next = Record.next /\ r.tested = Record.tested
                 /\ r.completed = Record.completed /\ r.reason = Record.reason
<1> DEFINE s == session[p]
           b == Record
<1>1. /\ Record \in Said /\ Chained(taken + 1) /\ Linked(s) /\ Working(s) /\ RunnerInv
      /\ taken \in Nat
  BY NextRecord
<1>2. /\ b.start \in Int /\ b.next \in Int /\ b.tested \in Int
      /\ b.completed \in BOOLEAN /\ b.reason \in {"completed", "max_seconds"}
  BY <1>1 DEF Said, WorkerBatches, WorkerSummaries
<1>3. /\ s \in Session /\ s.from \in Nat /\ s.from < Total[s.cfg]
      /\ request.start \in Nat /\ request.count \in Nat \ {0}
      /\ request.start = WorkerStart(s.cfg, s.from)
      /\ request.count = WorkerCount(s.cfg, s.from)
      /\ Worker!End = WorkerEnd(s) /\ Worker!End = request.start + request.count
      /\ Delta(s.cfg, s.from) = s.from - request.start
  BY <1>1, Asked DEF Linked, Delta
<1>4. /\ taken > 0 /\ output[taken].type \in {"device", "batch"}
      /\ b.start = request.start /\ b.next = After(taken)
      /\ request.start < b.next /\ b.next <= Worker!End
      /\ b.tested = b.next - b.start
      /\ b.completed = (b.next = Worker!End)
      /\ b.reason = IF b.completed THEN "completed" ELSE "max_seconds"
  <2>1. taken + 1 > 1 /\ output[taken + 1 - 1].type \in {"device", "batch"}
    BY <1>1 DEF Chained, Record
  <2>2. taken + 1 - 1 = taken
    BY <1>1
  <2>3. taken > 0
    BY <1>1, <2>1
  <2>4. /\ b.start = request.start /\ b.next = After(taken)
        /\ request.start < b.next /\ b.next <= Worker!End
        /\ b.tested = b.next - b.start
        /\ b.completed = (b.next = Worker!End)
        /\ b.reason = IF b.completed THEN "completed" ELSE "max_seconds"
    BY <1>1, <2>2 DEF Chained, Record
  <2> QED
    BY <2>1, <2>2, <2>3, <2>4
<1>5. s.device /\ ~ s.summary /\ WorkerNext(s) = After(taken)
  <2>1. s.pc = "events"
    BY DEF At
  <2> QED
    BY <1>1, <1>4, <2>1 DEF Linked, Took
<1>6. Agrees(s, b)
  <2>1. b.next = WorkerNext(s) /\ b.start = WorkerStart(s.cfg, s.from)
    BY <1>3, <1>4, <1>5
  <2>2. b.tested = WorkerNext(s) - WorkerStart(s.cfg, s.from)
    BY <1>4, <2>1, Zenon
  <2>3. b.completed = (WorkerNext(s) = WorkerEnd(s))
    BY <1>3, <1>4, <2>1, Zenon
  <2>4. b.reason = IF WorkerNext(s) = WorkerEnd(s) THEN "completed" ELSE "max_seconds"
    BY <1>4, <2>3
  <2> QED
    BY <1>5, <2>1, <2>2, <2>3, <2>4, Zenon DEF Agrees, SumsUp
<1>7. s.next # s.from
  <2>1. s.next \in Nat /\ s.from \in Nat
    BY <1>3 DEF Session
  <2>2. s.next - (s.from - request.start) > request.start
    BY <1>2, <1>3, <1>4, <1>5 DEF WorkerNext
  <2> QED
    BY <1>3, <2>1, <2>2
<1>8. {b.start, b.next, b.tested} \subseteq FieldValues
  <2>1. s.cfg \in Configs /\ s.from \in 0 .. Total[s.cfg] - 1
    BY <1>3, TotalsWhole DEF Session
  <2>2. /\ request.start .. request.start + request.count \subseteq FieldValues
        /\ 0 .. request.count \subseteq FieldValues
    BY <1>3, <2>1, FieldsSuffice
  <2>3. /\ {b.start, b.next} \subseteq request.start .. request.start + request.count
        /\ b.tested \in 0 .. request.count
    BY <1>2, <1>3, <1>4
  <2> QED
    BY <2>2, <2>3
<1>9. PICK r : r = [start |-> b.start, next |-> b.next, tested |-> b.tested,
                    completed |-> b.completed, reason |-> b.reason]
  OBVIOUS
<1>10. /\ r \in SummaryRecord /\ r.start = b.start /\ r.next = b.next
       /\ r.tested = b.tested /\ r.completed = b.completed /\ r.reason = b.reason
  BY <1>2, <1>8, <1>9 DEF SummaryRecord
<1>11. Reckoned(s, r)
  BY <1>3, <1>4, <1>10 DEF Reckoned
<1> QED
  BY <1>6, <1>7, <1>10, <1>11

-----------------------------------------------------------------------------
(* Every step is one of the runner's, or none of its.                      *)

LEMMA ReadRefines ==
    ASSUME SystemInv, NEW p \in Procs, ReadRecord(p)
    PROVE  Device(p) \/ Batch(p) \/ Summary(p)
<1>1. /\ Unread
      /\ \/ Record.type = "device" /\ Device(p)
         \/ Record.type = "batch" /\ TakeBatch(p, Record)
         \/ Record.type = "summary" /\ TakeSummary(p, Record)
  BY DEF ReadRecord
<1>2. CASE Record.type = "batch" /\ TakeBatch(p, Record)
  <2>1. At(p, "events")
    BY <1>2 DEF TakeBatch
  <2>2. PICK r \in BatchRecord :
          /\ Truthful(session[p], r)
          /\ r.start = Record.start /\ r.count = Record.count
          /\ r.hits = Record.hits /\ r.overflow = Record.overflow
    BY <1>1, <1>2, <2>1, BatchExpected
  <2>3. Accepts(session[p], r)
    BY <1>2, <2>2 DEF TakeBatch, Accepts, Contiguous, WholeBatch, Complete, HitsInOrder, Range
  <2>4. TakeBatch(p, r)
    BY <1>2, <2>2, <2>3 DEF TakeBatch
  <2> QED
    BY <2>1, <2>2, <2>4 DEF Batch
<1>3. CASE Record.type = "summary" /\ TakeSummary(p, Record)
  <2>1. At(p, "events")
    BY <1>3 DEF TakeSummary
  <2>2. PICK r \in SummaryRecord :
          /\ Reckoned(session[p], r)
          /\ r.start = Record.start /\ r.next = Record.next /\ r.tested = Record.tested
          /\ r.completed = Record.completed /\ r.reason = Record.reason
    BY <1>1, <1>3, <2>1, SummaryExpected
  <2>3. Agrees(session[p], r)
    BY <1>3, <2>2 DEF TakeSummary, Agrees, SumsUp
  <2>4. TakeSummary(p, r)
    BY <1>3, <2>3 DEF TakeSummary
  <2> QED
    BY <2>1, <2>2, <2>4 DEF Summary
<1> QED
  BY <1>1, <1>2, <1>3

LEMMA StepRefines == ASSUME SystemInv, [SystemNext]_systemVars PROVE [Next]_vars
<1>1. ASSUME NEW p \in Procs, Driver(p) \/ Abandon(p)
      PROVE  Next
  <2>1. CASE StartWorker(p)
    BY <2>1 DEF StartWorker, Next, Advance
  <2>2. CASE ReadRecord(p)
    BY <2>2, ReadRefines DEF Next, Advance
  <2>3. CASE SeeExit(p)
    BY <2>3 DEF SeeExit, Next, Advance
  <2>4. CASE Refuse(p)
    BY <2>4 DEF Refuse, Next, Fail
  <2>5. CASE Alone(p)
    BY <2>5 DEF Alone, Next, Advance, Fail
  <2>6. CASE Abandon(p)
    BY <2>6 DEF Abandon, Next, Fail
  <2> QED
    BY <1>1, <2>1, <2>2, <2>3, <2>4, <2>5, <2>6 DEF Driver
<1>2. CASE SystemPowerLoss
  BY <1>2 DEF SystemPowerLoss, Next
<1>3. CASE WorkerStep \/ WorkerFails \/ Tick \/ TickAway
  <2>1. UNCHANGED runner
    BY <1>3 DEF WorkerStep, WorkerDevice, WorkerBatch, WorkerSummary, WorkerFinish, WorkerFails,
                Tick, TickAway
  <2> QED
    BY <2>1 DEF runner, vars
<1>4. CASE UNCHANGED systemVars
  BY <1>4 DEF systemVars, runner, vars
<1> QED
  BY <1>1, <1>2, <1>3, <1>4 DEF SystemNext

-----------------------------------------------------------------------------
(* The driver's steps.                                                     *)

LEMMA OneMoves ==
    ASSUME RunnerInv, NEW p \in Procs, NEW s, Becomes(p, s)
    PROVE  session'[p] = s /\ \A q \in Procs \ {p} : session'[q] = session[q]
BY DEF RunnerInv, Becomes

LEMMA NobodyElse ==
    ASSUME RunnerInv, NEW p \in Procs, session[p].pc # "idle", NEW q \in Procs \ {p}
    PROVE  ~ Working(session[q])
BY DEF RunnerInv, OneAtATime, Active, Working

LEMMA StartLinked ==
    ASSUME SystemInv, NEW p \in Procs, StartWorker(p), NEW q \in Procs, Working(session'[q])
    PROVE  Linked(session[q])'
<1>1. PICK t : t = session[p]
  OBVIOUS
<1>2. PICK s : s = [t EXCEPT !.pc = "events", !.from = t.next,
                             !.device = FALSE, !.summary = FALSE]
  OBVIOUS
<1>3. /\ RunnerInv /\ t \in Session /\ t.pc = "loop" /\ t.next < Total[t.cfg]
      /\ Becomes(p, s)
  BY <1>1, <1>2 DEF SystemInv, RunnerInv, StartWorker, Launch, At
<1>4. session'[p] = s /\ q = p
  <2>1. session'[p] = s /\ \A r \in Procs \ {p} : session'[r] = session[r]
    BY <1>3, OneMoves
  <2>2. q # p => ~ Working(session[q])
    BY <1>1, <1>3, NobodyElse
  <2> QED
    BY <2>1, <2>2
<1>5. /\ s.pc = "events" /\ s.cfg = t.cfg /\ s.next = t.next /\ s.from = t.next
      /\ ~ s.device /\ ~ s.summary /\ s.device = FALSE /\ s.summary = FALSE
      /\ t.next \in Nat /\ t.cfg \in Configs
  BY <1>2, <1>3 DEF Session
<1>6. /\ request' = Command(s) /\ matches' = Matching(s)
      /\ output' = <<>> /\ taken' = 0 /\ goesOn' = TRUE
      /\ exit' \in {"running", "error"}
      /\ elapsed' = 0 /\ charged' = 0 /\ phase' = 0
  <2>1. /\ request' = Command(session'[p]) /\ matches' = Matching(session'[p])
        /\ output' = <<>> /\ taken' = 0 /\ goesOn' = TRUE
        /\ exit' = IF Parses(session[p].cfg, request') THEN "running" ELSE "error"
        /\ elapsed' = 0 /\ charged' = 0 /\ phase' = 0
    BY DEF StartWorker
  <2> QED
    BY <1>4, <2>1
<1>7. output' \in Seq(Said) /\ Len(output') = 0
  BY <1>6
<1>8. Honest'
  BY <1>6, <1>7 DEF Honest
<1>9. OnTime'
  BY <1>6, <1>7, SystemConstants DEF OnTime
<1>10. Took(s)'
  <2>1. request'.start = WorkerStart(t.cfg, t.next)
    BY <1>5, <1>6 DEF Command
  <2>2. WorkerStart(t.cfg, t.next) \in Nat
    BY <1>3, <1>5, Segment
  <2>3. WorkerNext(s) = request'.start
    BY <1>5, <2>1, <2>2 DEF WorkerNext, Delta
  <2>4. taken' \in 0 .. Len(output') /\ ~ (taken' > 0)
    BY <1>6, <1>7
  <2>5. After(taken)' = request'.start
    BY <2>4 DEF After
  <2>6. (s.device = (taken' > 0)) /\ (s.summary = (taken' > 0 /\ output'[taken'].type = "summary"))
    <3>1. (taken' > 0) = FALSE
      BY <1>6
    <3>2. (taken' > 0 /\ output'[taken'].type = "summary") = FALSE
      BY <3>1
    <3> QED
      BY <1>5, <3>1, <3>2
  <2> QED
    BY <1>5, <2>3, <2>4, <2>5, <2>6 DEF Took, WorkerNext
<1> QED
  BY <1>4, <1>6, <1>7, <1>8, <1>9, <1>10, LinkedNext

(* The worker has not moved, and no time has passed. *)
LEMMA WorkerSame ==
    ASSUME UNCHANGED <<worker, clocks>>, NEW t, Linked(t)
    PROVE  /\ request' = Command(t) /\ matches' = Matching(t) /\ output' \in Seq(Said)
           /\ exit' \in {"running", "ok", "error"}
           /\ Honest' /\ OnTime'
<1>1. Honest'
  <2>1. \A i \in 1 .. Len(output) : Chained(i)'
    BY DEF worker, Linked, Honest, Chained, After, Worker!End, Worker!BatchSize, Worker!Lists
  <2> QED
    BY <2>1 DEF worker, Linked, Honest
<1>2. OnTime'
  BY DEF worker, clocks, Linked, OnTime, Silence, LastBatch
<1> QED
  BY <1>1, <1>2 DEF worker, Linked

LEMMA ReadLinked ==
    ASSUME SystemInv, NEW p \in Procs, ReadRecord(p), NEW q \in Procs, Working(session'[q])
    PROVE  Linked(session[q])'
<1>1. PICK t : t = session[p]
  OBVIOUS
<1>2. PICK s : s = session'[p]
  OBVIOUS
<1>3. At(p, "events") /\ Unread /\ taken' = taken + 1 /\ UNCHANGED <<worker, clocks>>
  BY DEF ReadRecord, Device, TakeBatch, TakeSummary
<1>4. /\ RunnerInv /\ Linked(t) /\ t \in Session /\ t.pc = "events" /\ taken \in Nat
      /\ taken + 1 <= Len(output) /\ Len(output) \in Nat
  BY <1>1, <1>3, NextRecord DEF RunnerInv, At, Unread
<1>5. PICK i : i = taken + 1
  OBVIOUS
<1>6. taken' = i /\ i > 0 /\ i - 1 = taken /\ i \in 0 .. Len(output') /\ output' = output
      /\ request' = request
  BY <1>3, <1>4, <1>5 DEF worker
<1>7. /\ s.cfg = t.cfg /\ s.from = t.from /\ s.batch = t.batch
      /\ Took(s)' /\ q = p
  <2>1. CASE Record.type = "device" /\ Device(p)
    <3>1. taken = 0 /\ ~ t.summary
      BY <1>1, <1>3, <2>1, DeviceExpected
    <3>2. Becomes(p, [t EXCEPT !.device = TRUE])
      BY <1>1, <2>1 DEF Device
    <3>3. /\ s = [t EXCEPT !.device = TRUE]
          /\ \A r \in Procs \ {p} : session'[r] = session[r]
      BY <1>2, <1>4, <3>2, OneMoves
    <3>4. q = p
      BY <1>1, <1>4, <3>3, NobodyElse
    <3>5. /\ s.pc = "events" /\ s.cfg = t.cfg /\ s.from = t.from /\ s.batch = t.batch
          /\ s.next = t.next /\ s.device = TRUE /\ s.summary = FALSE
      BY <1>4, <3>1, <3>3 DEF Session
    <3>6. output[i].type = "device"
      BY <1>5, <2>1 DEF Record
    <3>7. WorkerNext(t) = request.start
      BY <1>4, <3>1 DEF Linked, Took, After
    <3>8. WorkerNext(s) = request.start
      BY <3>5, <3>7 DEF WorkerNext
    <3>9. After(taken)' = request.start
      BY <1>6, <3>6 DEF After
    <3>10. (taken' > 0) = TRUE /\ (taken' > 0 /\ output'[taken'].type = "summary") = FALSE
      BY <1>6, <3>6
    <3> QED
      BY <1>6, <3>4, <3>5, <3>8, <3>9, <3>10 DEF Took, WorkerNext
  <2>2. CASE Record.type = "batch" /\ TakeBatch(p, Record)
    <3>1. Accepts(t, Record)
      BY <1>1, <2>2 DEF TakeBatch
    <3>2. PICK b : b = Record
      OBVIOUS
    <3>3. PICK u : u = [t EXCEPT
             !.pc = Handing(b.hits, 0), !.hits = b.hits, !.at = 1,
             !.goal = b.start + b.count + Delta(t.cfg, t.from)]
      OBVIOUS
    <3>4. Becomes(p, u)
      BY <1>1, <2>2, <3>2, <3>3 DEF TakeBatch
    <3>5. s = u /\ \A r \in Procs \ {p} : session'[r] = session[r]
      BY <1>2, <1>4, <3>4, OneMoves
    <3>6. q = p
      BY <1>1, <1>4, <3>5, NobodyElse
    <3>7. /\ s.pc \in {"yield", "save"} /\ s.pc # "events"
          /\ s.cfg = t.cfg /\ s.from = t.from /\ s.batch = t.batch
          /\ s.device = TRUE /\ s.summary = FALSE
          /\ s.goal = b.start + b.count + Delta(t.cfg, t.from)
      BY <1>4, <3>1, <3>3, <3>5 DEF Session, Accepts, Handing
    <3>8. output[i].type = "batch" /\ output[i] = b
      BY <1>5, <2>2, <3>2 DEF Record
    <3>9. b.start \in Int /\ b.count \in Int /\ Delta(t.cfg, t.from) \in Int
      <4>1. Record \in Said /\ Working(t) /\ request = Command(t)
        BY <1>1, <1>3, NextRecord DEF Linked
      <4>2. Delta(t.cfg, t.from) \in Int
        BY <1>1, <1>4, <4>1, Asked
      <4> QED
        BY <2>2, <3>2, <4>1, <4>2 DEF Said, WorkerBatches, WorkerSummaries
    <3>10. After(taken)' = b.start + b.count
      BY <1>6, <3>8 DEF After
    <3>11. s.goal - Delta(s.cfg, s.from) = b.start + b.count
      BY <3>7, <3>9
    <3>12. (taken' > 0) = TRUE /\ (taken' > 0 /\ output'[taken'].type = "summary") = FALSE
      BY <1>6, <3>8
    <3>13. output'[taken'].type = "batch"
      BY <1>6, <3>8
    <3> QED
      BY <1>6, <3>6, <3>7, <3>10, <3>11, <3>12, <3>13 DEF Took, WorkerNext
  <2>3. CASE Record.type = "summary" /\ TakeSummary(p, Record)
    <3>1. Agrees(t, Record)
      BY <1>1, <2>3 DEF TakeSummary
    <3>2. Becomes(p, [t EXCEPT !.summary = TRUE])
      BY <1>1, <2>3 DEF TakeSummary
    <3>3. /\ s = [t EXCEPT !.summary = TRUE]
          /\ \A r \in Procs \ {p} : session'[r] = session[r]
      BY <1>2, <1>4, <3>2, OneMoves
    <3>4. q = p
      BY <1>1, <1>4, <3>3, NobodyElse
    <3>5. /\ s.pc = "events" /\ s.cfg = t.cfg /\ s.from = t.from /\ s.batch = t.batch
          /\ s.next = t.next /\ s.device = TRUE /\ s.summary = TRUE
      BY <1>4, <3>1, <3>3 DEF Session, Agrees, SumsUp
    <3>6. output[i].type = "summary" /\ output[i].next = WorkerNext(t)
      BY <1>5, <2>3, <3>1 DEF Record, Agrees, SumsUp
    <3>7. WorkerNext(s) = output[i].next
      BY <3>5, <3>6 DEF WorkerNext
    <3>8. After(taken)' = output[i].next
      BY <1>6, <3>6 DEF After
    <3>9. (taken' > 0) = TRUE /\ (taken' > 0 /\ output'[taken'].type = "summary") = TRUE
      BY <1>6, <3>6
    <3> QED
      BY <1>6, <3>4, <3>5, <3>7, <3>8, <3>9 DEF Took, WorkerNext
  <2> QED
    BY <2>1, <2>2, <2>3 DEF ReadRecord
<1>8. /\ request' = Command(t) /\ matches' = Matching(t) /\ output' \in Seq(Said)
      /\ exit' \in {"running", "ok", "error"}
      /\ Honest' /\ OnTime'
  BY <1>3, <1>4, WorkerSame
<1>9. Command(s) = Command(t) /\ Matching(s) = Matching(t)
  BY <1>7 DEF Command, Matching
<1> QED
  BY <1>2, <1>7, <1>8, <1>9, LinkedNext

LEMMA EndedRests == ASSUME NEW s, NEW o PROVE ~ Working(Ended(s, o))
<1>1. Ended(s, o).pc = "idle"
  BY DEF Ended, NewSession
<1> QED
  BY <1>1 DEF Working

LEMMA AloneLinked ==
    ASSUME SystemInv, NEW p \in Procs, Alone(p), NEW q \in Procs, Working(session'[q])
    PROVE  Linked(session[q])'
<1>1. PICK t : t = session[p]
  OBVIOUS
<1>2. PICK s : s = session'[p]
  OBVIOUS
<1>3. /\ UNCHANGED <<worker, clocks>> /\ taken' = taken
      /\ RunnerInv /\ t \in Session /\ SessionInv(t)
  BY <1>1 DEF Alone, SystemInv, RunnerInv
<1>4. ASSUME NEW w, Linked(w), Took(w)', session'[q] = w
      PROVE  Linked(session[q])'
  <2>1. /\ request' = Command(w) /\ matches' = Matching(w) /\ output' \in Seq(Said)
        /\ exit' \in {"running", "ok", "error"} /\ Honest' /\ OnTime'
    BY <1>3, <1>4, WorkerSame
  <2> QED
    BY <1>4, <2>1, LinkedNext
<1>5. ASSUME NEW w, Linked(w),
             NEW v, v.cfg = w.cfg, v.from = w.from, v.batch = w.batch,
             Took(v)', session'[q] = v
      PROVE  Linked(session[q])'
  <2>1. /\ request' = Command(w) /\ matches' = Matching(w) /\ output' \in Seq(Said)
        /\ exit' \in {"running", "ok", "error"} /\ Honest' /\ OnTime'
    BY <1>3, <1>5, WorkerSame
  <2>2. Command(v) = Command(w) /\ Matching(v) = Matching(w)
    BY <1>5 DEF Command, Matching
  <2> QED
    BY <1>5, <2>1, <2>2, LinkedNext
<1>6. /\ output' = output /\ request' = request
      /\ \A w : Took(w) => Took(w)'
  BY <1>3 DEF worker, Took, WorkerNext, After
<1>7. CASE Save(p) \/ SaveSync(p) \/ Resume(p)
  <2>1. PICK u : Becomes(p, u) /\ u.cfg = t.cfg /\ u.from = t.from /\ u.batch = t.batch
                 /\ u.goal = t.goal /\ u.device = t.device /\ u.summary = t.summary
                 /\ t.pc \in {"yield", "save", "sync"}
                 /\ \/ u.pc \in {"yield", "save", "sync"}
                    \/ u.pc \in {"events", "loop"} /\ u.next = t.goal
    <3>1. CASE Save(p)
      BY <1>1, <1>3, <3>1 DEF Save, Session, At
    <3>2. CASE SaveSync(p)
      <4>1. PICK pc2 : pc2 = IF t.from = Unlaunched THEN "loop" ELSE "events"
        OBVIOUS
      <4>2. PICK u : u = [t EXCEPT !.pc = pc2, !.next = t.goal]
        OBVIOUS
      <4>3. Becomes(p, u) /\ t.pc = "sync"
        BY <1>1, <3>2, <4>1, <4>2 DEF SaveSync, At
      <4>4. /\ u.cfg = t.cfg /\ u.from = t.from /\ u.batch = t.batch
            /\ u.goal = t.goal /\ u.device = t.device /\ u.summary = t.summary
            /\ u.pc \in {"events", "loop"} /\ u.next = t.goal
        BY <1>3, <4>1, <4>2 DEF Session
      <4> QED
        BY <4>3, <4>4
    <3>3. CASE Resume(p)
      <4>1. PICK pc2, at2 : pc2 = Handing(t.hits, t.at) /\ at2 = t.at + 1
        OBVIOUS
      <4>2. PICK u : u = [t EXCEPT !.pc = pc2, !.at = at2]
        OBVIOUS
      <4>3. Becomes(p, u) /\ t.pc = "yield"
        BY <1>1, <3>3, <4>1, <4>2 DEF Resume, At
      <4>4. /\ u.cfg = t.cfg /\ u.from = t.from /\ u.batch = t.batch
            /\ u.goal = t.goal /\ u.device = t.device /\ u.summary = t.summary
            /\ u.pc \in {"yield", "save"}
        BY <1>3, <4>1, <4>2 DEF Session, Handing
      <4> QED
        BY <4>3, <4>4
    <3> QED
      BY <1>7, <3>1, <3>2, <3>3
  <2>2. session'[p] = u /\ \A r \in Procs \ {p} : session'[r] = session[r]
    BY <1>3, <2>1, OneMoves
  <2>3. q = p
    BY <1>1, <1>3, <2>1, <2>2, NobodyElse
  <2>4. Working(t)
    BY <2>1, <2>2, <2>3 DEF Working
  <2>5. Linked(t) /\ Took(t)
    BY <1>1, <2>4 DEF SystemInv, Linked
  <2>6. /\ taken > 0 /\ output[taken].type = "batch"
        /\ t.goal - Delta(t.cfg, t.from) = After(taken)
    BY <2>1, <2>5 DEF Took
  <2>7. u.pc = "events" => WorkerNext(u) = After(taken)
    BY <2>1, <2>6 DEF WorkerNext
  <2>8. Took(u)
    BY <2>1, <2>5, <2>6, <2>7 DEF Took
  <2> QED
    BY <1>5, <1>6, <2>1, <2>2, <2>3, <2>5, <2>8
<1>8. CASE Open(p) \/ Busy(p) \/ LoadNothing(p) \/ LoadPosition(p) \/ LoadRefused(p) \/ Finish(p)
  <2>1. PICK u : Becomes(p, u) /\ ~ Working(u)
    <3>1. CASE Open(p)
      BY <3>1 DEF Open, NewSession, Working
    <3>2. CASE Busy(p) \/ LoadRefused(p) \/ Finish(p)
      BY <3>2, EndedRests DEF Busy, LoadRefused, Finish
    <3>3. CASE LoadNothing(p)
      <4>1. PICK u : u = [t EXCEPT !.pc = "save", !.goal = 0]
        OBVIOUS
      <4>2. Becomes(p, u) /\ t.pc = "load"
        BY <1>1, <3>3, <4>1 DEF LoadNothing, At
      <4>3. u.from = Unlaunched
        BY <1>3, <4>1, <4>2 DEF Session, SessionInv, Located
      <4> QED
        BY <4>2, <4>3 DEF Working
    <3>4. CASE LoadPosition(p)
      <4>1. PICK u : u = [t EXCEPT !.pc = "loop", !.next = visible.pos]
        OBVIOUS
      <4>2. Becomes(p, u)
        BY <1>1, <3>4, <4>1 DEF LoadPosition
      <4>3. u.pc = "loop"
        BY <1>3, <4>1 DEF Session
      <4> QED
        BY <4>2, <4>3 DEF Working
    <3> QED
      BY <1>8, <3>1, <3>2, <3>3, <3>4
  <2>2. session'[p] = u /\ \A r \in Procs \ {p} : session'[r] = session[r]
    BY <1>3, <2>1, OneMoves
  <2>3. PICK w : w = session[q]
    OBVIOUS
  <2>4. q # p /\ session'[q] = w /\ Working(w)
    BY <2>1, <2>2, <2>3
  <2>5. Linked(w) /\ Took(w)
    BY <2>3, <2>4 DEF SystemInv, Linked
  <2> QED
    BY <1>4, <1>6, <2>4, <2>5
<1> QED
  BY <1>7, <1>8 DEF Alone

(* When its session is over, or its segment, a worker has no driver. *)
LEMMA NobodyLeft ==
    ASSUME SystemInv, NEW p \in Procs, SeeExit(p) \/ Refuse(p) \/ Abandon(p)
    PROVE  \A q \in Procs : ~ Working(session'[q])
<1>1. RunnerInv /\ session[p].pc # "idle" /\ session[p] \in Session
  BY DEF SystemInv, RunnerInv, SeeExit, Exit, Refuse, Reject, Abandon, Close, Die, At
<1>2. PICK u : Becomes(p, u) /\ ~ Working(u)
  <2>1. CASE SeeExit(p)
    BY <1>1, <2>1 DEF SeeExit, Exit, Session, Working
  <2>2. CASE Refuse(p)
    BY <2>2, EndedRests DEF Refuse, Reject
  <2>3. CASE Abandon(p)
    BY <2>3, EndedRests DEF Abandon, Close, Die
  <2> QED
    BY <2>1, <2>2, <2>3
<1>3. session'[p] = u /\ \A r \in Procs \ {p} : session'[r] = session[r]
  BY <1>1, <1>2, OneMoves
<1> QED
  BY <1>1, <1>2, <1>3, NobodyElse

-----------------------------------------------------------------------------
(* SystemInv is an invariant.                                              *)

LEMMA SystemInitInv == SystemInit => SystemInv
<1> SUFFICES ASSUME SystemInit PROVE SystemInv
  OBVIOUS
<1>1. RunnerInv
  BY InitInv DEF SystemInit
<1>2. ASSUME NEW p \in Procs
      PROVE  ~ Working(session[p])
  <2>1. PICK c \in Configs, b \in BatchSizes :
          session = [r \in Procs |-> Ended(NewSession(c, b), "none")]
    BY DEF SystemInit, Init
  <2>2. session[p] = Ended(NewSession(c, b), "none")
    BY <2>1
  <2> QED
    BY <2>2, EndedRests
<1> QED
  BY <1>1, <1>2 DEF SystemInv

LEMMA SystemStepInv == ASSUME SystemInv, [SystemNext]_systemVars PROVE SystemInv'
<1>1. RunnerInv'
  BY StepRefines, NextInv DEF SystemInv
<1>2. ASSUME NEW q \in Procs, Working(session'[q])
      PROVE  Linked(session[q])'
  <2>1. ASSUME NEW p \in Procs, Driver(p) \/ Abandon(p)
        PROVE  Linked(session[q])'
    <3>1. CASE StartWorker(p)
      BY <1>2, <3>1, StartLinked
    <3>2. CASE ReadRecord(p)
      BY <1>2, <3>2, ReadLinked
    <3>3. CASE Alone(p)
      BY <1>2, <3>3, AloneLinked
    <3>4. CASE SeeExit(p) \/ Refuse(p) \/ Abandon(p)
      BY <1>2, <3>4, NobodyLeft
    <3> QED
      BY <2>1, <3>1, <3>2, <3>3, <3>4 DEF Driver
  <2>2. CASE SystemPowerLoss
    <3>1. session'[q] = IF At(q, "idle") THEN session[q] ELSE Ended(session[q], "error")
      BY <2>2 DEF SystemPowerLoss, PowerLoss
    <3>2. ~ Working(session'[q])
      BY <3>1, EndedRests DEF At, Working
    <3> QED
      BY <1>2, <3>2
  <2>3. CASE WorkerStep \/ WorkerFails \/ Tick \/ TickAway
    <3>1. UNCHANGED runner
      BY <2>3 DEF WorkerStep, WorkerDevice, WorkerBatch, WorkerSummary, WorkerFinish,
                  WorkerFails, Tick, TickAway
    <3>2. Working(session[q])
      BY <1>2, <3>1 DEF runner
    <3> QED
      BY <2>3, <3>2, WorkerDeviceLinked, WorkerBatchLinked, WorkerSummaryLinked,
         WorkerFinishLinked, WorkerFailsLinked, TimeLinked DEF WorkerStep
  <2>4. CASE UNCHANGED systemVars
    <3>1. PICK w : w = session[q]
      OBVIOUS
    <3>2. UNCHANGED <<worker, clocks>> /\ taken' = taken /\ session'[q] = w
      BY <2>4, <3>1 DEF systemVars, runner
    <3>3. Linked(w)
      BY <1>2, <3>1, <3>2 DEF SystemInv
    <3>4. Took(w)'
      BY <3>2, <3>3 DEF worker, Linked, Took, WorkerNext, After
    <3> QED
      BY <3>2, <3>3, <3>4, WorkerSame, LinkedNext
  <2> QED
    BY <2>1, <2>2, <2>3, <2>4 DEF SystemNext
<1>3. \A q \in Procs : Working(session'[q]) => Linked(session[q])'
  BY <1>2
<1> QED
  BY <1>1, <1>3 DEF SystemInv, Working

THEOREM SystemInvariant == SystemSpec => []SystemInv
<1>1. SystemInv /\ [SystemNext]_systemVars => SystemInv'
  BY SystemStepInv
<1> QED
  BY <1>1, SystemInitInv, PTL DEF SystemSpec

(* The two programs together do nothing that SearchRunner does not say.    *)
THEOREM SystemImplementsRunner == SystemSpec => ImplementsRunner
<1>1. SystemInit => Init
  BY DEF SystemInit
<1>2. SystemInv /\ [SystemNext]_systemVars => [Next]_vars
  BY StepRefines
<1>3. SystemSpec => Spec
  BY <1>1, <1>2, SystemInvariant, PTL DEF SystemSpec, Spec
<1> QED
  BY <1>3 DEF ImplementsRunner

-----------------------------------------------------------------------------
(* The worker has no refusal to fear.                                      *)

LEMMA CommandParses ==
    ASSUME SystemInv, NEW p \in Procs, At(p, "events")
    PROVE  Parses(session[p].cfg, request)
<1>1. PICK s : s = session[p]
  OBVIOUS
<1>2. /\ s \in Session /\ s.from \in Nat /\ s.from < Total[s.cfg]
      /\ request.start \in Nat /\ request.count \in Nat \ {0} /\ request.batch \in Nat \ {0}
      /\ request.start = WorkerStart(s.cfg, s.from)
      /\ request.count = WorkerCount(s.cfg, s.from)
  BY <1>1, NextRecord, Asked DEF Linked
<1>3. s.cfg \in Configs /\ Total[s.cfg] \in Nat \ {0}
  BY <1>2, TotalsWhole DEF Session
<1>4. request.start <= Space(s.cfg) /\ request.count <= Space(s.cfg) - request.start
  <2>1. CASE Sharded(s.cfg)
    <3>0. ~ Exact(s.cfg)
      BY <1>3, <2>1, ShardSizePositive DEF Sharded, Exact
    <3>1. request.start = s.from % ShardSize /\ request.count = ShardSize - request.start
      BY <1>2, <2>1, <3>0 DEF WorkerStart, WorkerCount
    <3>2. s.from % ShardSize \in 0 .. ShardSize - 1
      BY <1>2, DivMod, ShardSizePositive
    <3>3. Space(s.cfg) = ShardSize
      BY <2>1, <3>0 DEF Space
    <3> QED
      BY <3>1, <3>2, <3>3, ShardSizePositive
  <2>2. CASE ~ Sharded(s.cfg) /\ Exact(s.cfg)
    <3>1. request.start = Base[s.cfg] /\ request.count = 1 /\ Space(s.cfg) = Byte
      BY <1>2, <2>2 DEF WorkerStart, WorkerCount, Space
    <3>2. Base[s.cfg] < Byte /\ Base[s.cfg] \in Nat /\ Byte \in Nat
      BY <1>3, <2>2, SystemConstants, OthersTyped
    <3> QED
      BY <3>1, <3>2
  <2>3. CASE ~ Sharded(s.cfg) /\ ~ Exact(s.cfg)
    <3>1. /\ request.start = s.from /\ request.count = Total[s.cfg] - s.from
          /\ Space(s.cfg) = Total[s.cfg]
      BY <1>2, <2>3 DEF WorkerStart, WorkerCount, Space
    <3> QED
      BY <1>2, <1>3, <3>1
  <2> QED
    BY <2>1, <2>2, <2>3
<1> QED
  BY <1>1, <1>2, <1>4 DEF Parses

LEMMA RecordsAccepted ==
    ASSUME SystemInv, NEW p \in Procs, At(p, "events"), Unread, exit # "error"
    PROVE  Acceptable(session[p])
<1>1. Record \in Said /\ Chained(taken + 1)
  BY NextRecord
<1>2. Record.type # "error"
  BY <1>1 DEF Chained, Record
<1>3. Record.type \in {"device", "batch", "summary"}
  BY <1>1, <1>2 DEF Said, WorkerBatches, WorkerSummaries
<1>4. CASE Record.type = "device"
  BY <1>4, DeviceExpected DEF Acceptable
<1>5. CASE Record.type = "batch"
  BY <1>5, BatchExpected DEF Acceptable
<1>6. CASE Record.type = "summary"
  BY <1>6, SummaryExpected DEF Acceptable
<1> QED
  BY <1>3, <1>4, <1>5, <1>6

(* All its records read, a worker that has exited has summed up and got on. *)
LEMMA ExitsDone ==
    ASSUME SystemInv, NEW p \in Procs, At(p, "events"), ~ Unread, exit = "ok"
    PROVE  session[p].summary /\ Progressed(session[p])
<1>1. PICK s : s = session[p]
  OBVIOUS
<1>2. /\ Working(s) /\ Linked(s) /\ RunnerInv /\ s.pc = "events"
      /\ taken \in Nat /\ taken <= Len(output) /\ Len(output) \in Nat
  BY <1>1, NextRecord DEF At
<1>3. taken = Len(output)
  BY <1>2 DEF Unread
<1>4. /\ Len(output) > 0 /\ output[Len(output)].type = "summary"
      /\ \A i \in 1 .. Len(output) : Chained(i)
  BY <1>2 DEF Linked, Honest
<1>5. taken > 0 /\ output[taken].type = "summary" /\ Chained(taken)
  BY <1>2, <1>3, <1>4
<1>6. s.summary
  BY <1>2, <1>5 DEF Linked, Took
<1>7. output[taken].next > request.start /\ output[taken].next \in Int
  <2>1. output[taken] \in Said
    BY <1>2, <1>3, <1>5 DEF Linked
  <2>2. request.start < output[taken].next
    BY <1>5 DEF Chained
  <2>3. output[taken].next \in Int
    BY <1>5, <2>1 DEF Said, WorkerBatches, WorkerSummaries
  <2>4. request.start \in Nat
    BY <1>1, <1>2, Asked DEF Linked
  <2> QED
    BY <2>2, <2>3, <2>4
<1>8. WorkerNext(s) = output[taken].next
  BY <1>2, <1>5 DEF Linked, Took, After
<1>9. s.next # s.from
  <2>1. /\ s.next \in Nat /\ s.from \in Nat /\ request.start \in Nat
        /\ Delta(s.cfg, s.from) = s.from - request.start
    BY <1>1, <1>2, Asked DEF Linked, Delta, Session
  <2>2. s.next - (s.from - request.start) > request.start
    BY <1>7, <1>8, <2>1 DEF WorkerNext
  <2> QED
    BY <2>1, <2>2
<1> QED
  BY <1>1, <1>6, <1>9 DEF Progressed

LEMMA InTime ==
    ASSUME SystemInv, NEW p \in Procs, At(p, "events"), exit = "running"
    PROVE  charged < Deadline
<1>1. Linked(session[p]) /\ Len(output) \in Nat
  BY NextRecord
<1>2. /\ Limit \in Nat \ {0} /\ Grace \in Nat /\ StartTime \in Nat /\ BatchTime \in Nat
      /\ ExitTime \in Nat /\ StartTime + BatchTime + ExitTime <= Grace
  BY SystemConstants
<1>3. elapsed \in 0 .. Limit /\ charged \in Nat /\ phase \in Nat
  BY <1>1 DEF Linked, OnTime
<1>4. ASSUME Len(output) = 0
      PROVE  charged < Limit + Grace
  <2>1. charged <= phase /\ phase <= StartTime
    BY <1>1, <1>4 DEF Linked, OnTime
  <2> QED
    BY <1>2, <1>3, <2>1
<1>5. ASSUME Len(output) > 0
      PROVE  charged < Limit + Grace
  <2>1. /\ phase <= Silence
        /\ elapsed < Limit => charged <= StartTime + elapsed
        /\ elapsed = Limit => charged < StartTime + Limit + phase + LastBatch
    BY <1>1, <1>5 DEF Linked, OnTime
  <2>2. /\ Silence \in Nat /\ LastBatch \in Nat
        /\ Silence + LastBatch <= BatchTime + ExitTime
    BY <1>2 DEF Silence, LastBatch
  <2> QED
    BY <1>2, <1>3, <2>1, <2>2
<1> QED
  BY <1>1, <1>4, <1>5 DEF Deadline

(* For any searches, positions, batch sizes, limits and times: the worker  *)
(* is refused only when it says itself that it failed.                     *)
THEOREM HonestWorkerNeverRefused == SystemSpec => []HonestNeverRefused
<1>1. ASSUME SystemInv
      PROVE  HonestNeverRefused
  <2>1. ASSUME NEW p \in Procs, Refuses(p)
        PROVE  exit = "error"
    <3> SUFFICES ASSUME exit # "error"
                 PROVE  FALSE
      OBVIOUS
    <3>1. At(p, "events")
      BY <2>1 DEF Refuses
    <3>2. Unread => Acceptable(session[p])
      BY <1>1, <3>1, RecordsAccepted
    <3>3. ~ Unread /\ exit = "ok" => session[p].summary /\ Progressed(session[p])
      BY <1>1, <3>1, ExitsDone
    <3>4. exit = "running" => charged < Deadline /\ charged \in Int /\ Deadline \in Int
      <4>1. Linked(session[p])
        BY <1>1, <3>1, NextRecord
      <4>2. charged \in Nat /\ Limit \in Nat /\ Grace \in Nat
        BY <4>1, SystemConstants DEF Linked, OnTime
      <4> QED
        BY <1>1, <3>1, <4>2, InTime DEF Deadline
    <3>5. exit = "running" => ~ (charged >= Deadline)
      BY <3>4
    <3> QED
      BY <2>1, <3>2, <3>3, <3>5 DEF Refuses
  <2>2. \A p \in Procs : At(p, "events") => Parses(session[p].cfg, request)
    BY <1>1, CommandParses
  <2> QED
    BY <2>1, <2>2 DEF HonestNeverRefused
<1> QED
  BY <1>1, SystemInvariant, PTL
-----------------------------------------------------------------------------
(* The kernel in the worker's place.  K is Gpu with what is proved of it.  *)

K == INSTANCE GpuWorkerProofs
    WITH pc <- host, next <- published, count <- launched, hits <- buffer, Timed <- TRUE

LEMMA SameHost ==
    /\ Gpu!Device <=> K!Device
    /\ Gpu!Launch <=> K!Launch
    /\ Gpu!Stop <=> K!Stop
    /\ Gpu!Exit <=> K!Exit
    /\ Gpu!Refuse <=> K!Refuse
    /\ Gpu!Publish <=> K!Publish
    /\ Gpu!Fail <=> K!Fail
<1>1. Gpu!Device <=> K!Device
  BY DEF Gpu!Device, K!Device, Gpu!device, K!device
<1>2. Gpu!Launch <=> K!Launch
  BY DEF Gpu!Launch, K!Launch, Gpu!End, K!End, Gpu!Start, K!Start, Gpu!Count, K!Count,
         Gpu!BatchSize, K!BatchSize, Gpu!BatchCount, K!BatchCount, Gpu!Cleared, K!Cleared,
         Gpu!Lanes, K!Lanes
<1>3. Gpu!Stop <=> K!Stop
  BY DEF Gpu!Stop, K!Stop, Gpu!End, K!End, Gpu!Start, K!Start, Gpu!Count, K!Count, Gpu!device, K!device
<1>4. Gpu!Exit <=> K!Exit
  BY DEF Gpu!Exit, K!Exit, Gpu!device, K!device
<1>5. Gpu!Refuse <=> K!Refuse
  BY DEF Gpu!Refuse, K!Refuse, Gpu!device, K!device, Gpu!KernelOver, K!KernelOver,
     Gpu!Lanes, K!Lanes, Gpu!Overflowed, K!Overflowed
<1>6. Gpu!Publish <=> K!Publish
  <2>1. Gpu!KernelOver <=> K!KernelOver
    BY DEF Gpu!KernelOver, K!KernelOver, Gpu!Lanes, K!Lanes
  <2>2. Gpu!Overflowed(hitCount, overflow) <=> K!Overflowed(hitCount, overflow)
    BY DEF Gpu!Overflowed, K!Overflowed
  <2>3. Gpu!InOrder(Gpu!Found) = K!InOrder(K!Found)
    <3>1. Gpu!Found = K!Found
      BY DEF Gpu!Found, K!Found
    <3>2. PICK s : s = Gpu!Found
      OBVIOUS
    <3>3. Gpu!InOrder(s) = K!InOrder(s)
      BY DEF Gpu!InOrder, K!InOrder, Gpu!Sorts, K!Sorts, Gpu!Bijection, K!Bijection,
             Gpu!Injection, K!Injection, Gpu!Surjection, K!Surjection,
             Gpu!IsInjective, K!IsInjective
    <3> QED
      BY <3>1, <3>2, <3>3
  <2> QED
    BY <2>1, <2>2, <2>3 DEF Gpu!Publish, K!Publish, Gpu!device, K!device
<1>7. Gpu!Fail <=> K!Fail
  BY DEF Gpu!Fail, K!Fail, Gpu!device, K!device
<1> QED
  BY <1>1, <1>2, <1>3, <1>4, <1>5, <1>6, <1>7

LEMMA SameThreads ==
    /\ Gpu!Lanes = K!Lanes
    /\ \A t \in Gpu!Lanes : Gpu!Lane(t) <=> K!Lane(t)
<1>1. Gpu!Lanes = K!Lanes
  BY DEF Gpu!Lanes, K!Lanes
<1>2. ASSUME NEW t \in Gpu!Lanes
      PROVE  Gpu!Lane(t) <=> K!Lane(t)
  BY DEF Gpu!Lane, K!Lane, Gpu!Spare, K!Spare, Gpu!Miss, K!Miss, Gpu!Hit, K!Hit, Gpu!Store, K!Store,
    Gpu!Idle, K!Idle, Gpu!Onward, K!Onward, Gpu!Fits, K!Fits, Gpu!device, K!device
<1> QED
  BY <1>1, <1>2

(* The command lines of run_search are the worker's. *)
LEMMA RequestsTyped == K!GpuConstants
<1>1. ASSUME NEW r \in Requests
      PROVE  r \in [start : Nat, count : Nat, batch : Nat \ {0}]
  <2>0. PICK c \in Configs : r \in {[start |-> WorkerStart(c, n), count |-> WorkerCount(c, n),
                                      batch |-> b] : n \in 0 .. Total[c] - 1, b \in BatchSizes}
    BY DEF Requests
  <2>1. PICK n \in 0 .. Total[c] - 1, b \in BatchSizes :
          r = [start |-> WorkerStart(c, n), count |-> WorkerCount(c, n), batch |-> b]
    BY <2>0
  <2>2. n \in Nat /\ n < Total[c]
    BY TotalsWhole
  <2>3. WorkerStart(c, n) \in Nat /\ WorkerCount(c, n) \in Nat /\ b \in Nat \ {0}
    BY <2>2, Segment, OthersTyped
  <2> QED
    BY <2>1, <2>3
<1> QED
  BY <1>1, GpuSystemConstants DEF K!GpuConstants

LEMMA KernelStep ==
    ASSUME K!KernelInv, K!Told, [K!Next]_(K!vars)
    PROVE  K!KernelInv' /\ K!Told'
<1>0. K!GpuConstants
  BY RequestsTyped
<1>1. K!Hosted /\ K!Strided /\ K!Stored
  BY DEF K!KernelInv
<1>2. K!Hosted'
  BY <1>0, <1>1, K!HostedStep
<1>3. K!Strided'
  BY <1>0, <1>1, K!StridedStep
<1>4. K!Stored'
  BY <1>0, <1>1, K!StoredStep
<1>5. K!Told'
  BY <1>0, K!ToldStep
<1> QED
  BY <1>2, <1>3, <1>4, <1>5 DEF K!KernelInv

(* As long as the worker's process is there, host and kernel keep what     *)
(* GpuWorkerProofs shows of them on their own, and a batch is only begun   *)
(* when the clock has allowed it.                                          *)
Hosting == host # "gone" => K!KernelInv /\ K!Told /\ (host = "kernel" => goesOn)

WholeInv == SystemInv /\ Hosting

(* A segment's command line is one of run_search's. *)
LEMMA CommandRequested ==
    ASSUME SystemInv, NEW p \in Procs, StartWorker(p)
    PROVE  /\ request' \in Requests
           /\ matches' \subseteq request'.start .. request'.start + request'.count - 1
<1>1. PICK t, s : t = session[p] /\ s = [t EXCEPT !.pc = "events", !.from = t.next,
                             !.device = FALSE, !.summary = FALSE]
  OBVIOUS
<1>2. /\ RunnerInv /\ t \in Session /\ t.pc = "loop" /\ t.next < Total[t.cfg]
      /\ Becomes(p, s)
  BY <1>1 DEF SystemInv, RunnerInv, StartWorker, Launch, At
<1>3. session'[p] = s
  BY <1>2, OneMoves
<1>4. /\ s.cfg = t.cfg /\ s.from = t.next /\ s.batch = t.batch
      /\ t.next \in Nat /\ t.cfg \in Configs /\ t.batch \in BatchSizes
  BY <1>1, <1>2 DEF Session
<1>5. request' = Command(s) /\ matches' = Matching(s)
  BY <1>3 DEF StartWorker
<1>6. Command(s) \in Requests
  <2>1. PICK c, n, b : c = t.cfg /\ n = t.next /\ b = t.batch
    OBVIOUS
  <2>2. n \in 0 .. Total[c] - 1 /\ c \in Configs /\ b \in BatchSizes
    BY <1>2, <1>4, <2>1, TotalsWhole
  <2>3. Command(s) = [start |-> WorkerStart(c, n), count |-> WorkerCount(c, n), batch |-> b]
    BY <1>4, <2>1 DEF Command
  <2> QED
    BY <2>2, <2>3 DEF Requests
<1>7. Matching(s) \subseteq Command(s).start .. Command(s).start + Command(s).count - 1
  BY DEF Matching
<1> QED
  BY <1>5, <1>6, <1>7

(* A new worker is where the kernel's invariant begins. *)
LEMMA HostStarts ==
    ASSUME SystemInv, NEW p \in Procs, StartWorker(p), StartHost
    PROVE  Hosting'
<1> SUFFICES ASSUME host' # "gone" PROVE K!KernelInv' /\ K!Told' /\ host' # "kernel"
  BY DEF Hosting
<1>1. /\ host' = "device" /\ exit' = "running" /\ published' = request'.start /\ launched' = 0
      /\ lane' = [t \in Gpu!Lanes |-> Gpu!Idle]
      /\ hitCount' = 0 /\ overflow' = FALSE
      /\ buffer' = [k \in 0 .. HitCapacity + request'.batch |-> Gpu!Nothing]
  BY DEF StartHost
<1>2. output' = <<>>
  BY DEF StartWorker
<1>3. /\ request' \in Requests
      /\ matches' \subseteq request'.start .. request'.start + request'.count - 1
      /\ request'.start \in Nat /\ request'.count \in Nat /\ request'.batch \in Nat \ {0}
  BY CommandRequested, RequestsTyped DEF K!GpuConstants
<1>4. K!Hosted'
  <2>1. request'.start \in request'.start .. request'.start + request'.count
    BY <1>3
  <2>2. K!Start' = request'.start /\ K!End' = request'.start + request'.count
    BY DEF K!Start, K!Count, K!End
  <2>3. matches' \subseteq K!Start' .. K!End' - 1
    BY <1>3, <2>2
  <2>4. published' \in K!Start' .. K!End'
    BY <1>1, <2>1, <2>2
  <2> QED
    BY <1>1, <1>3, <2>3, <2>4 DEF K!Hosted
<1>5. K!Strided'
  <2>1. Gpu!Idle \in K!LaneStates
    BY DEF Gpu!Idle, K!LaneStates
  <2> QED
    BY <1>1, <2>1 DEF K!Strided, K!Lanes, Gpu!Lanes
<1>6. K!Stored'
  <2>1. buffer' \in [0 .. HitCapacity + request'.batch -> Int]
    BY <1>1 DEF Gpu!Nothing
  <2>2. \A k \in 0 .. HitCapacity + request'.batch : buffer'[k] = K!Nothing
    BY <1>1 DEF Gpu!Nothing, K!Nothing
  <2> QED
    BY <1>1, <2>1, <2>2 DEF K!Stored, K!Places, K!BatchCount
<1>7. K!Told'
  BY <1>1, <1>2 DEF K!Told, K!Start
<1> QED
  BY <1>1, <1>4, <1>5, <1>6, <1>7 DEF K!KernelInv

(* Without a step of its own, the worker is as it was. *)
LEMMA HostRests ==
    ASSUME Hosting, UNCHANGED <<worker, kernel>>
    PROVE  Hosting'
<1>1. UNCHANGED K!vars /\ host' = host /\ goesOn' = goesOn
  BY DEF worker, kernel, K!vars
<1> QED
  BY <1>1, KernelStep DEF Hosting

(* What the worker does is a step of GpuSearch. *)
LEMMA WorkerIsHosted ==
    ASSUME GpuWorker \/ HostFails
    PROVE  K!Next /\ host # "gone"
<1>1. CASE \/ HostDevice \/ HostLaunch \/ HostPublish \/ HostRefuse
           \/ HostStop \/ HostExit \/ HostFails
  <2>1. K!Host
    BY <1>1, SameHost DEF HostDevice, HostLaunch, HostPublish, HostRefuse, HostStop, HostExit,
       HostFails, K!Host
  <2>2. host # "gone"
    BY <2>1 DEF K!Host, K!Device, K!Launch, K!Stop, K!Exit, K!Refuse, K!Publish, K!Fail
  <2> QED
    BY <2>1, <2>2 DEF K!Next
<1>2. ASSUME NEW t \in Gpu!Lanes, Thread(t)
      PROVE  K!Next /\ host # "gone"
  <2>1. t \in K!Lanes /\ K!Lane(t)
    BY <1>2, SameThreads DEF Thread
  <2>2. host # "gone"
    BY <2>1 DEF K!Lane, K!Spare, K!Miss, K!Hit, K!Store
  <2> QED
    BY <2>1, <2>2 DEF K!Next
<1> QED
  BY <1>1, <1>2 DEF GpuWorker

(* To the driver it is one of WorkerProtocol, or none. *)
LEMMA DeviceMapped ==
    ASSUME K!Told, HostDevice
    PROVE  WorkerDevice
<1>1. output = <<>> /\ exit = "running" /\ output' = Append(output, [type |-> "device"])
      /\ UNCHANGED <<request, matches, exit>>
  BY DEF HostDevice, Gpu!Device, K!Told
<1>2. Worker!Device
  BY <1>1 DEF Worker!Device, Worker!Write
<1> QED
  BY <1>2 DEF HostDevice, WorkerDevice

LEMMA PublishMapped ==
    ASSUME K!KernelInv, K!Told, K!Told', goesOn, HostPublish
    PROVE  WorkerBatch
<1>0. K!GpuConstants
  BY RequestsTyped
<1>1. K!Publish
  BY SameHost DEF HostPublish
<1>2. PICK h : h = K!InOrder(K!Found)
  OBVIOUS
<1>3. /\ K!LeadsTo(output, published) /\ exit = "running" /\ UNCHANGED <<request, matches, exit>>
      /\ host' = "head"
      /\ output' = Append(output,
           [type |-> "batch", start |-> published, count |-> launched, hits |-> h,
            overflow |-> FALSE])
  BY <1>1, <1>2 DEF K!Publish, K!Told
<1>4. /\ h \in [1 .. hitCount -> K!Start .. K!End - 1] /\ hitCount \in 0 .. HitCapacity
      /\ K!Protocol!Lists(h, published) /\ launched = K!Protocol!BatchSize(published)
  BY <1>0, <1>1, <1>2, K!Publishes
<1>5. Worker!Lists(h, published) /\ launched = Worker!BatchSize(published)
  BY <1>4 DEF Worker!Lists, K!Protocol!Lists, Worker!BatchSize, K!Protocol!BatchSize,
     Worker!End, K!Protocol!End, Worker!Ascending, K!Protocol!Ascending,
     Worker!Listed, K!Protocol!Listed
<1>6. h \in HitLists
  <2>1. request \in Requests
    BY DEF K!KernelInv, K!Hosted
  <2>2. \A x \in K!Start .. K!End - 1 : x \in Gpu!Candidates
    <3>1. PICK R : R = Requests
      OBVIOUS
    <3>2. \A x \in request.start .. request.start + request.count - 1 :
            x \in UNION {q.start .. q.start + q.count - 1 : q \in R}
      BY <2>1, <3>1
    <3>3. K!Start .. K!End - 1 = request.start .. request.start + request.count - 1
      <4>1. request.start \in Nat /\ request.count \in Nat
        BY <1>0, <2>1 DEF K!GpuConstants
      <4> QED
        BY <4>1 DEF K!Start, K!End, K!Count
    <3>4. Gpu!Candidates = UNION {q.start .. q.start + q.count - 1 : q \in R}
      BY <3>1 DEF Gpu!Candidates
    <3> QED
      BY <3>2, <3>3, <3>4
  <2>3. h \in [1 .. hitCount -> Gpu!Candidates]
    BY <1>4, <2>2
  <2>4. Worker!Ascending(h)
    BY <1>5 DEF Worker!Lists
  <2> QED
    BY <1>4, <2>3, <2>4, ListsSuffice
<1>7. Worker!Searching /\ Worker!Position(output) = published
  BY <1>3 DEF K!LeadsTo, K!LastOf, Worker!Searching, Worker!Position, K!Protocol!Position,
     Worker!IsBatch, K!Protocol!IsBatch
<1>8. published < Worker!End
  BY <1>1 DEF K!KernelInv, K!Hosted, K!Publish, K!End, K!Start, K!Count, Worker!End
<1>9. Worker!Batch
  <2>1. Worker!Lists(h, Worker!Position(output))
    BY <1>5, <1>7
  <2>2. Worker!Write([type |-> "batch", start |-> Worker!Position(output),
                      count |-> Worker!BatchSize(Worker!Position(output)),
                      hits |-> h, overflow |-> FALSE])
    BY <1>3, <1>5, <1>7 DEF Worker!Write
  <2> QED
    BY <1>6, <1>7, <1>8, <2>1, <2>2 DEF Worker!Batch
<1>10. Worker!Position(output') = published'
  <2>1. K!LeadsTo(output', published')
    <3>1. PICK o, n : o = output' /\ n = published'
      OBVIOUS
    <3> QED
      BY <1>3 DEF K!Told, K!LeadsTo, K!Protocol!Position
  <2> QED
    BY <1>3, <2>1 DEF K!LeadsTo, Worker!Position, K!Protocol!Position,
       Worker!IsBatch, K!Protocol!IsBatch
<1> QED
  BY <1>9, <1>10 DEF HostPublish, WorkerBatch

LEMMA StopMapped ==
    ASSUME K!Told, HostStop
    PROVE  WorkerSummary
<1>1. K!Stop
  BY SameHost DEF HostStop
<1>2. /\ K!LeadsTo(output, published) /\ exit = "running" /\ UNCHANGED <<request, matches, exit>>
      /\ output' = Append(output,
           [type |-> "summary", start |-> K!Start, next |-> published,
            tested |-> published - K!Start, completed |-> published = K!End,
            reason |-> IF published = K!End THEN "completed" ELSE "max_seconds"])
  BY <1>1 DEF K!Stop, K!Told
<1>3. Worker!Searching /\ Worker!Position(output) = published
  BY <1>2 DEF K!LeadsTo, K!LastOf, Worker!Searching, Worker!Position, K!Protocol!Position,
     Worker!IsBatch, K!Protocol!IsBatch
<1>4. Worker!Summary
  BY <1>2, <1>3 DEF Worker!Summary, Worker!Reason, Worker!Write, Worker!End,
     K!Start, K!Count, K!End
<1> QED
  BY <1>4 DEF HostStop, WorkerSummary

LEMMA ExitMapped ==
    ASSUME K!Told, HostExit
    PROVE  WorkerFinish
<1>1. K!Exit
  BY SameHost DEF HostExit
<1>2. Worker!Finish
  BY <1>1 DEF K!Exit, K!Told, K!LastOf, Worker!Finish
<1> QED
  BY <1>2 DEF HostExit, WorkerFinish

LEMMA FailMapped ==
    ASSUME K!Told, HostRefuse \/ HostFails
    PROVE  WorkerFails
<1>1. K!Refuse \/ K!Fail
  BY SameHost DEF HostRefuse, HostFails
<1>2. Worker!Fail
  BY <1>1 DEF K!Refuse, K!Fail, K!Told, Worker!Fail
<1> QED
  BY <1>2 DEF HostRefuse, HostFails, WorkerFails

LEMMA InsideUnseen ==
    /\ HostLaunch => UNCHANGED systemVars
    /\ \A t \in Gpu!Lanes : Thread(t) => UNCHANGED systemVars
<1>1. ASSUME HostLaunch PROVE UNCHANGED systemVars
  BY <1>1 DEF HostLaunch, Gpu!Launch, systemVars, worker
<1>2. ASSUME NEW t \in Gpu!Lanes, Thread(t) PROVE UNCHANGED systemVars
  <2>1. UNCHANGED <<request, matches, output, exit>>
    BY <1>2 DEF Thread, Gpu!Lane, Gpu!Spare, Gpu!Miss, Gpu!Hit, Gpu!Store
  <2> QED
    BY <1>2, <2>1 DEF Thread, systemVars, worker
<1> QED
  BY <1>1, <1>2

LEMMA WorkerMapped ==
    ASSUME Hosting, GpuWorker \/ HostFails
    PROVE  Hosting' /\ [SystemNext]_systemVars
<1>1. /\ K!Next /\ K!KernelInv /\ K!Told /\ (host = "kernel" => goesOn)
  BY WorkerIsHosted DEF Hosting
<1>2. K!KernelInv' /\ K!Told'
  BY <1>1, KernelStep
<1>3. CASE HostDevice
  <2>1. host' # "kernel"
    BY <1>3 DEF HostDevice, Gpu!Device
  <2>2. WorkerDevice
    BY <1>1, <1>3, DeviceMapped
  <2> QED
    BY <1>2, <2>1, <2>2 DEF Hosting, SystemNext, WorkerStep
<1>4. CASE HostPublish
  <2>1. host' # "kernel" /\ host = "kernel"
    BY <1>4 DEF HostPublish, Gpu!Publish
  <2>2. WorkerBatch
    BY <1>1, <1>2, <1>4, <2>1, PublishMapped
  <2> QED
    BY <1>2, <2>1, <2>2 DEF Hosting, SystemNext, WorkerStep
<1>5. CASE HostLaunch
  <2>1. goesOn' = goesOn /\ goesOn
    BY <1>5 DEF HostLaunch
  <2> QED
    BY <1>2, <1>5, <2>1, InsideUnseen DEF Hosting
<1>6. CASE HostStop
  <2>1. host' # "kernel"
    BY <1>6 DEF HostStop, Gpu!Stop
  <2>2. WorkerSummary
    BY <1>1, <1>6, StopMapped
  <2> QED
    BY <1>2, <2>1, <2>2 DEF Hosting, SystemNext, WorkerStep
<1>7. CASE HostExit \/ HostRefuse \/ HostFails
  <2>1. host' # "kernel"
    BY <1>7 DEF HostExit, HostRefuse, HostFails, Gpu!Exit, Gpu!Refuse, Gpu!Fail
  <2>2. WorkerFinish \/ WorkerFails
    BY <1>1, <1>7, ExitMapped, FailMapped
  <2> QED
    BY <1>2, <2>1, <2>2 DEF Hosting, SystemNext, WorkerStep
<1>8. ASSUME NEW t \in Gpu!Lanes, Thread(t)
      PROVE  Hosting' /\ UNCHANGED systemVars
  <2>1. UNCHANGED systemVars
    BY <1>8, InsideUnseen
  <2>2. goesOn' = goesOn
    BY <1>8 DEF Thread
  <2>3. host' = host
    BY <1>8 DEF Thread, Gpu!Lane, Gpu!Spare, Gpu!Miss, Gpu!Hit, Gpu!Store
  <2> QED
    BY <1>1, <1>2, <2>1, <2>2, <2>3 DEF Hosting
<1> QED
  BY <1>3, <1>4, <1>5, <1>6, <1>7, <1>8 DEF GpuWorker

LEMMA WholeStep ==
    ASSUME WholeInv, [WholeNext]_wholeVars
    PROVE  Hosting' /\ [SystemNext]_systemVars
<1>1. ASSUME NEW p \in Procs, StartWorker(p), StartHost
      PROVE  Hosting' /\ SystemNext
  BY <1>1, HostStarts DEF WholeInv, SystemNext, Driver
<1>2. ASSUME NEW p \in Procs, SeeExit(p) \/ Refuse(p) \/ Abandon(p), EndHost
      PROVE  Hosting' /\ SystemNext
  BY <1>2 DEF EndHost, Hosting, SystemNext, Driver
<1>3. CASE SystemPowerLoss /\ EndHost
  BY <1>3 DEF EndHost, Hosting, SystemNext
<1>4. ASSUME NEW p \in Procs, ReadRecord(p) \/ Alone(p), UNCHANGED kernel
      PROVE  Hosting' /\ SystemNext
  <2>1. UNCHANGED worker
    BY <1>4 DEF ReadRecord, Alone
  <2> QED
    BY <1>4, <2>1, HostRests DEF WholeInv, SystemNext, Driver
<1>5. CASE (Tick \/ TickAway) /\ UNCHANGED kernel
  <2>1. UNCHANGED worker
    BY <1>5 DEF Tick, TickAway
  <2> QED
    BY <1>5, <2>1, HostRests DEF WholeInv, SystemNext
<1>6. CASE GpuWorker \/ HostFails
  BY <1>6, WorkerMapped DEF WholeInv
<1>7. CASE UNCHANGED wholeVars
  <2>1. UNCHANGED <<systemVars, worker, kernel>>
    BY <1>7 DEF wholeVars, systemVars
  <2> QED
    BY <2>1, HostRests DEF WholeInv
<1> QED
  BY <1>1, <1>2, <1>3, <1>4, <1>5, <1>6, <1>7 DEF WholeNext, WholeDriver

(* The kernel's races, the host's loop and the driver together do nothing  *)
(* that the driver and an honest worker would not, in any segment of any   *)
(* search, after any crash and resumption.                                 *)
THEOREM WholeImplementsSystem == WholeSpec => ImplementsSystem
<1>1. WholeInit => SystemInit /\ WholeInv
  <2>1. WholeInit => SystemInit /\ Hosting
    BY DEF WholeInit, Hosting
  <2> QED
    BY <2>1, SystemInitInv DEF WholeInv
<1>2. WholeInv /\ [WholeNext]_wholeVars => WholeInv' /\ [SystemNext]_systemVars
  <2> SUFFICES ASSUME WholeInv, [WholeNext]_wholeVars
               PROVE  WholeInv' /\ [SystemNext]_systemVars
    OBVIOUS
  <2>1. Hosting' /\ [SystemNext]_systemVars
    BY WholeStep
  <2>2. SystemInv'
    BY <2>1, SystemStepInv DEF WholeInv
  <2> QED
    BY <2>1, <2>2 DEF WholeInv
<1>3. WholeSpec => SystemSpec
  BY <1>1, <1>2, PTL DEF WholeSpec, SystemSpec
<1> QED
  BY <1>3 DEF ImplementsSystem

(* What the caller relies on holds of the driver, the host and the kernel  *)
(* together: no hit is lost, "complete" means that every hit was handled,  *)
(* and whatever is yielded matches.                                        *)
THEOREM WholeFindsEveryHit == WholeSpec => [](NoLostHit /\ CompleteMeansAll /\ YieldsTrueHits)
<1>1. WholeSpec => Spec
  BY WholeImplementsSystem, SystemImplementsRunner DEF ImplementsSystem, ImplementsRunner
<1> QED
  BY <1>1, RunnerLosesNoHit, RunnerIsComplete, RunnerYieldsHits, PTL

(* And they are a resumable search, as ResumableSearch promises it.        *)
THEOREM WholeKeepsPromise == WholeSpec => ImplementsPromise
<1>1. WholeSpec => Spec
  BY WholeImplementsSystem, SystemImplementsRunner DEF ImplementsSystem, ImplementsRunner
<1> QED
  BY <1>1, RunnerKeepsPromise
=============================================================================
