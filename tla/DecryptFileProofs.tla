-------------------------- MODULE DecryptFileProofs -------------------------
(***************************************************************************)
(* Theorems about decrypt_file for any callers, any number of pieces and   *)
(* any number of changes of the source.                                    *)
(*                                                                         *)
(* HashMeansRight and OneVersion speak of what is done; DecryptInv says    *)
(* how a caller gets there.  While a caller copies, its pieces are of the  *)
(* version it opened as long as the source's mtime is still the one it saw *)
(* and no change went unseen; past the comparison of the two that is so    *)
(* for good, whatever happens to the source afterwards.                    *)
(***************************************************************************)
EXTENDS DecryptFile, TLAPS

Steps == Reads \cup {"open", "create", "copy", "hash", "sync", "undo", "done", "failed", "left",
                   "crashed"}

(* Where a caller may be whose file the path names. *)
Holders == {"copy", "hash", "sync", "undo", "done", "crashed", "left"}

Types ==
    /\ version \in Nat /\ mtime \in Nat /\ unseen \in BOOLEAN
    /\ at \in names /\ names \subseteq Callers \cup {Nobody, User} /\ cleared \in Nat
    /\ content \in [Callers -> Seq(Nat)]
    /\ synced \subseteq Callers
    /\ pc \in [Callers -> Steps]
    /\ initial \in [Callers -> [version : Nat, mtime : Nat]]
    /\ footer \in [Callers -> [Reads -> Nat]]
    /\ expects \in [Callers -> BOOLEAN]

(* How far the caller c has got with its pieces. *)
Progress(c) ==
    /\ Len(content[c]) <= Pieces
    /\ pc[c] \in Reads \cup {"open", "create"} => content[c] = <<>>
    /\ pc[c] \in {"hash", "sync", "done"} => Whole(content[c])
    /\ c \in synced <=> pc[c] = "done"
    /\ pc[c] \in {"sync", "done"} /\ expects[c] => AllOf(Right, content[c])

(* What c has read of the footer, all of it from "create" on, is of v. *)
FooterOf(v, c) ==
    /\ pc[c] # "size" => footer[c]["size"] = v
    /\ pc[c] \notin {"size", "trailer"} => footer[c]["trailer"] = v
    /\ pc[c] \notin Reads => footer[c]["metadata"] = v

(* The versions that c has read, when every change shows in the mtime. *)
Versions(c) ==
    ~ unseen =>
        /\ pc[c] \in Reads \cup {"create", "copy"} /\ initial[c].mtime = mtime =>
              /\ initial[c].version = version /\ AllOf(version, content[c])
              /\ FooterOf(version, c)
        /\ pc[c] \in {"hash", "sync", "done"} =>
              AllOf(initial[c].version, content[c]) /\ FooterOf(initial[c].version, c)

(* The mtime never runs ahead, so a status once outdated stays so. *)
Clock(c) == initial[c].mtime <= mtime

(* What the path names, unless it was changed by others, is somebody's. *)
Named(c) == cleared = 0 /\ at = c => pc[c] \in Holders

(* Whoever has the output is named by the path, unless it was changed. *)
Holding(c) ==
    cleared = 0 /\ pc[c] \in {"copy", "hash", "sync", "undo", "done"} => at = c

DecryptInv ==
    /\ Types
    /\ \A c \in Callers : Progress(c) /\ Versions(c) /\ Clock(c) /\ Named(c) /\ Holding(c)

-----------------------------------------------------------------------------
(* One piece more of the same version.                                     *)
LEMMA OneMore ==
    ASSUME NEW old \in Seq(Nat), NEW v \in Nat
    PROVE  /\ Append(old, v) \in Seq(Nat) /\ Len(Append(old, v)) = Len(old) + 1
           /\ AllOf(v, old) => AllOf(v, Append(old, v))
<1> DEFINE new == Append(old, v)
<1>1. new \in Seq(Nat) /\ Len(new) = Len(old) + 1 /\ Len(old) \in Nat
  OBVIOUS
<1>2. DOMAIN old = 1 .. Len(old) /\ DOMAIN new = 1 .. Len(old) + 1
  OBVIOUS
<1>3. \A i \in 1 .. Len(old) : new[i] = old[i]
  OBVIOUS
<1>4. new[Len(old) + 1] = v
  OBVIOUS
<1> HIDE DEF new
<1>5. ASSUME AllOf(v, old), NEW i \in DOMAIN new PROVE new[i] = v
  <2>1. i \in 1 .. Len(old) \/ i = Len(old) + 1
    BY <1>1, <1>2
  <2>2. i \in 1 .. Len(old) => old[i] = v
    BY <1>2, <1>5 DEF AllOf
  <2> QED  BY <1>3, <1>4, <2>1, <2>2
<1>6. AllOf(v, old) => AllOf(v, new)
  BY <1>5 DEF AllOf
<1> QED  BY <1>1, <1>6 DEF new

-----------------------------------------------------------------------------
(* Every step keeps the invariant.                                         *)

USE DEF Right, Reads, output

LEMMA InitInv == Init => DecryptInv
<1> SUFFICES ASSUME Init PROVE DecryptInv
  OBVIOUS
<1> USE DecryptConstants DEF Init
<1>1. Types
  <2>1. <<>> \in Seq(Nat) /\ [version |-> Right, mtime |-> 0] \in [version : Nat, mtime : Nat]
    OBVIOUS
  <2>2. content \in [Callers -> Seq(Nat)] /\ initial \in [Callers -> [version : Nat, mtime : Nat]]
    BY <2>1
  <2>3. footer \in [Callers -> [Reads -> Nat]]
    OBVIOUS
  <2> QED  BY <2>2, <2>3 DEF Types, Steps
<1> SUFFICES ASSUME NEW c \in Callers
             PROVE  Progress(c) /\ Versions(c) /\ Clock(c) /\ Named(c) /\ Holding(c)
  BY <1>1 DEF DecryptInv
<1>2. content[c] = <<>> /\ pc[c] = "open" /\ initial[c].mtime = 0 /\ c \notin synced
  OBVIOUS
<1>3. Progress(c) /\ Versions(c)
  BY <1>2 DEF Progress, Versions
<1>4. Clock(c) /\ Named(c) /\ Holding(c)
  BY <1>2 DEF Clock, Named, Holding
<1> QED  BY <1>3, <1>4

(* A caller's own steps that leave the source, the path and its pieces     *)
(* alone: only what the new place in the code asks for is left to show.    *)
(* What a step of one caller leaves of another's state. *)
LEMMA ProgressKept ==
    ASSUME NEW d \in Callers, Progress(d), pc'[d] = pc[d], content'[d] = content[d],
           d \in synced' <=> d \in synced, expects' = expects
    PROVE  Progress(d)'
BY Zenon DEF Progress, Whole, AllOf

LEMMA VersionsKept ==
    ASSUME NEW d \in Callers, Versions(d), UNCHANGED <<version, mtime, unseen, initial>>,
           pc'[d] = pc[d], content'[d] = content[d], footer'[d] = footer[d]
    PROVE  Versions(d)'
<1>1. version' = version /\ mtime' = mtime /\ unseen' = unseen /\ initial' = initial
  OBVIOUS
<1>2. /\ FooterOf(version, d)' <=> FooterOf(version, d)
      /\ FooterOf(initial[d].version, d)' <=> FooterOf(initial[d].version, d)
  BY <1>1, Zenon DEF FooterOf
<1>3. /\ AllOf(version, content[d])' <=> AllOf(version, content[d])
      /\ AllOf(initial[d].version, content[d])' <=> AllOf(initial[d].version, content[d])
  BY <1>1, Zenon DEF AllOf
<1> QED
  BY <1>1, <1>2, <1>3 DEF Versions

LEMMA PlaceStep ==
    ASSUME DecryptInv, NEW c \in Callers, NEW s \in Steps,
           pc' = [pc EXCEPT ![c] = s],
           UNCHANGED <<source, output, initial, footer, expects>>,
           pc[c] # "done", s # "done",
           s \notin Reads \cup {"open", "create", "copy"},
           s \in {"hash", "sync"} => Whole(content[c]) /\ pc[c] \notin Reads,
           s = "sync" /\ expects[c] => AllOf(Right, content[c]),
           s \in {"hash", "sync"} /\ ~ unseen =>
               AllOf(initial[c].version, content[c]) /\ FooterOf(initial[c].version, c),
           cleared = 0 /\ at = c => s \in Holders,
           s \in {"copy", "hash", "sync", "undo"} /\ cleared = 0 => at = c
    PROVE  DecryptInv'
<1> USE DEF DecryptInv, Types, source
<1>1. \A d \in Callers : d # c => pc'[d] = pc[d]
  OBVIOUS
<1>2. pc'[c] = s
  OBVIOUS
<1>3. Types'
  OBVIOUS
<1>4. \A d \in Callers : Progress(d)'
  <2>1. ASSUME NEW d \in Callers \ {c} PROVE Progress(d)'
    <3>1. /\ Progress(d) /\ pc'[d] = pc[d] /\ content'[d] = content[d]
          /\ (d \in synced' <=> d \in synced) /\ expects' = expects
      BY <1>1 DEF output
    <3> QED
      BY <3>1, ProgressKept, Zenon
  <2>2. Progress(c)'
    BY <1>2 DEF Progress, Whole, AllOf
  <2> QED  BY <2>1, <2>2
<1>5. \A d \in Callers : Versions(d)'
  <2>1. ASSUME NEW d \in Callers \ {c} PROVE Versions(d)'
    <3>1. /\ Versions(d) /\ UNCHANGED <<version, mtime, unseen, initial>>
          /\ pc'[d] = pc[d] /\ content'[d] = content[d] /\ footer'[d] = footer[d]
      BY <1>1 DEF output
    <3> QED
      BY <3>1, VersionsKept, Zenon
  <2>2. Versions(c)'
    BY <1>2 DEF Versions, AllOf, FooterOf
  <2> QED  BY <2>1, <2>2
<1>6. \A d \in Callers : Clock(d)'
  BY DEF Clock
<1>7. \A d \in Callers : Named(d)' /\ Holding(d)'
  BY <1>1, <1>2 DEF Named, Holding, Holders
<1> QED  BY <1>3, <1>4, <1>5, <1>6, <1>7

LEMMA OpenInv == ASSUME DecryptInv, NEW c \in Callers, Open(c) PROVE DecryptInv'
<1> USE DEF DecryptInv, Types, Open, Go, source
<1>1. content[c] = <<>>
  BY DEF Progress
<1>2. Types'
  BY DEF Steps
<1>3. \A d \in Callers : Progress(d)'
  BY <1>1 DEF Progress, Whole, AllOf
<1>4. \A d \in Callers : Versions(d)'
  <2>1. \A d \in Callers \ {c} : Versions(d)'
    BY DEF Versions, AllOf, FooterOf
  <2>2. Versions(c)'
    BY <1>1 DEF Versions, AllOf, FooterOf
  <2> QED  BY <2>1, <2>2
<1>5. \A d \in Callers : Clock(d)'
  BY DEF Clock
<1>6. \A d \in Callers : Named(d)' /\ Holding(d)'
  BY DEF Named, Holding, Holders
<1> QED  BY <1>2, <1>3, <1>4, <1>5, <1>6

LEMMA FooterInv ==
    ASSUME DecryptInv, NEW c \in Callers, ReadSize(c) \/ ReadTrailer(c) \/ ReadMetadata(c)
    PROVE  DecryptInv'
<1> USE DEF DecryptInv, Types, Go, source
<1>1. PICK r \in Reads, s \in {"trailer", "metadata", "create"} :
         /\ ReadFooter(c, r, s)
         /\ <<r, s>> \in {<<"size", "trailer">>, <<"trailer", "metadata">>,
                          <<"metadata", "create">>}
  BY DEF ReadSize, ReadTrailer, ReadMetadata
<1> USE DEF ReadFooter
<1>2. pc[c] = r /\ content[c] = <<>> /\ c \notin synced
  BY <1>1 DEF Progress
<1>3. /\ pc'[c] = s
      /\ \A d \in Callers \ {c} : pc'[d] = pc[d] /\ footer'[d] = footer[d]
      /\ footer'[c] = [footer[c] EXCEPT ![r] = version]
  BY <1>1
<1>4. Types'
  BY <1>1, <1>3 DEF Steps
<1>5. \A d \in Callers : Progress(d)'
  <2>1. ASSUME NEW d \in Callers \ {c} PROVE Progress(d)'
    <3>1. /\ Progress(d) /\ pc'[d] = pc[d] /\ content'[d] = content[d]
          /\ (d \in synced' <=> d \in synced) /\ expects' = expects
      BY <1>1, <1>3 DEF output
    <3> QED
      BY <3>1, ProgressKept, Zenon
  <2>2. Progress(c)'
    BY <1>1, <1>2, <1>3 DEF Progress, Whole, AllOf
  <2> QED  BY <2>1, <2>2
<1>6. \A d \in Callers : Versions(d)'
  <2> SUFFICES ASSUME NEW d \in Callers PROVE Versions(d)'
    OBVIOUS
  <2>1. CASE d # c
    BY <1>1, <1>3, <2>1 DEF Versions, AllOf, FooterOf
  <2>2. CASE d = c
    <3>1. FooterOf(version, c) => FooterOf(version, c)'
      BY <1>1, <1>2, <1>3 DEF FooterOf
    <3> QED
      BY <1>1, <1>2, <1>3, <2>2, <3>1 DEF Versions, AllOf
  <2> QED  BY <2>1, <2>2
<1>7. \A d \in Callers : Clock(d)'
  BY <1>1 DEF Clock
<1>8. \A d \in Callers : Named(d)' /\ Holding(d)'
  BY <1>1, <1>2, <1>3 DEF Named, Holding, Holders
<1> QED  BY <1>4, <1>5, <1>6, <1>7, <1>8

LEMMA CreateInv ==
    ASSUME DecryptInv, NEW c \in Callers, Create(c) \/ CreateInterrupted(c)
    PROVE  DecryptInv'
<1>1. /\ pc[c] = "create" /\ pc' \in {[pc EXCEPT ![c] = "copy"], [pc EXCEPT ![c] = "left"]}
      /\ at = Nobody /\ at' = c /\ names' = names \cup {c}
      /\ UNCHANGED <<version, mtime, unseen, cleared, content, synced, initial, footer, expects>>
  BY DEF Create, CreateInterrupted, Becomes, Go, Free, source
<1>2. Types /\ Progress(c) /\ Versions(c)
  BY DEF DecryptInv
<1>3. /\ pc'[c] \in {"copy", "left"}
      /\ \A d \in Callers \ {c} : pc'[d] = pc[d]
  BY <1>1, <1>2 DEF Types
<1>4. Types'
  BY <1>1, <1>2 DEF Types, Steps
<1>5. \A d \in Callers : Progress(d)' /\ Versions(d)'
  <2>1. ASSUME NEW d \in Callers \ {c} PROVE Progress(d)' /\ Versions(d)'
    <3>1. Progress(d) /\ Versions(d)
      BY DEF DecryptInv
    <3>2. /\ pc'[d] = pc[d] /\ content'[d] = content[d] /\ footer'[d] = footer[d]
          /\ (d \in synced' <=> d \in synced) /\ expects' = expects
          /\ UNCHANGED <<version, mtime, unseen, initial>>
      BY <1>1, <1>3
    <3> QED
      BY <3>1, <3>2, ProgressKept, VersionsKept, Zenon
  <2>2. Progress(c)'
    BY <1>1, <1>2, <1>3 DEF Progress
  <2>3. Versions(c)'
    BY <1>1, <1>2, <1>3 DEF Versions, AllOf, FooterOf
  <2> QED  BY <2>1, <2>2, <2>3
<1>6. \A d \in Callers : Clock(d)'
  BY <1>1 DEF DecryptInv, Clock
<1>7. \A d \in Callers : Named(d)' /\ Holding(d)'
  BY <1>1, <1>3, DecryptConstants DEF DecryptInv, Named, Holding, Holders
<1> QED  BY <1>4, <1>5, <1>6, <1>7 DEF DecryptInv

LEMMA CopyInv == ASSUME DecryptInv, NEW c \in Callers, Copy(c) PROVE DecryptInv'
<1> USE DecryptConstants DEF DecryptInv, Types, Copy, More, source
<1>1. /\ content' = [content EXCEPT ![c] = Append(content[c], version)]
      /\ content[c] \in Seq(Nat) /\ pc[c] = "copy" /\ Len(content[c]) < Pieces
  OBVIOUS
<1>2. /\ content'[c] \in Seq(Nat)
      /\ Len(content'[c]) = Len(content[c]) + 1
      /\ AllOf(version, content[c]) => AllOf(version, content'[c])
  BY <1>1, OneMore
<1>3. \A d \in Callers : d # c => content'[d] = content[d]
  BY <1>1
<1>4. Types'
  BY <1>1, <1>2
<1>5. \A d \in Callers : Progress(d)'
  <2> SUFFICES ASSUME NEW d \in Callers PROVE Progress(d)'
    OBVIOUS
  <2>1. CASE d # c
    BY <2>1, <1>3 DEF Progress, Whole, AllOf
  <2>2. CASE d = c
    <3>1. Progress(c) /\ pc'[c] = pc[c] /\ synced' = synced /\ Pieces \in Nat
      OBVIOUS
    <3>2. Len(content'[c]) <= Pieces
      <4>1. PICK n \in Nat : n = Len(content[c])
        BY <1>1
      <4>2. PICK m \in Nat : m = Pieces
        BY <3>1
      <4>3. n < m
        BY <1>1, <4>1, <4>2, Zenon
      <4>4. n + 1 <= m
        BY <4>3
      <4> QED
        BY <1>2, <4>1, <4>2, <4>4, Zenon
    <3>3. c \notin synced
      BY <1>1, <3>1 DEF Progress
    <3> QED
      BY <2>2, <1>1, <3>1, <3>2, <3>3 DEF Progress
  <2> QED  BY <2>1, <2>2
<1>6. \A d \in Callers : Versions(d)'
  <2> SUFFICES ASSUME NEW d \in Callers PROVE Versions(d)'
    OBVIOUS
  <2>1. CASE d # c
    <3>1. /\ Versions(d) /\ UNCHANGED <<version, mtime, unseen, initial>>
          /\ pc'[d] = pc[d] /\ content'[d] = content[d] /\ footer'[d] = footer[d]
      BY <2>1, <1>3
    <3> QED
      BY <3>1, VersionsKept, Zenon
  <2>2. CASE d = c
    BY <2>2, <1>1, <1>2 DEF Versions, FooterOf
  <2> QED  BY <2>1, <2>2
<1>7. \A d \in Callers : Clock(d)' /\ Named(d)' /\ Holding(d)'
  BY DEF Clock, Named, Holding
<1> QED  BY <1>4, <1>5, <1>6, <1>7

LEMMA SyncInv == ASSUME DecryptInv, NEW c \in Callers, Sync(c) PROVE DecryptInv'
<1> USE DEF DecryptInv, Types, Sync, Go, Flushed, source
<1>1. Types'
  BY DEF Steps
<1>2. \A d \in Callers : Progress(d)'
  BY DEF Progress, Whole, AllOf
<1>3. \A d \in Callers : Versions(d)'
  BY DEF Versions, AllOf, FooterOf
<1>4. \A d \in Callers : Clock(d)'
  BY DEF Clock
<1>5. \A d \in Callers : Named(d)' /\ Holding(d)'
  BY DEF Named, Holding, Holders
<1> QED  BY <1>1, <1>2, <1>3, <1>4, <1>5

(* As long as the path was not changed, what is unlinked is the caller's   *)
(* own file, so that no other caller loses its hold.                       *)
LEMMA UndoInv == ASSUME DecryptInv, NEW c \in Callers, Undo(c) PROVE DecryptInv'
<1> USE DecryptConstants DEF DecryptInv, Types, Undo, Becomes, Go, Unlinked, source
<1>1. Types'
  BY DEF Steps
<1>2. \A d \in Callers : Progress(d)'
  <2>1. ASSUME NEW d \in Callers \ {c} PROVE Progress(d)'
    <3>1. /\ Progress(d) /\ pc'[d] = pc[d] /\ content'[d] = content[d]
          /\ (d \in synced' <=> d \in synced) /\ expects' = expects
      OBVIOUS
    <3> QED
      BY <3>1, ProgressKept, Zenon
  <2>2. Progress(c)'
    BY DEF Progress, Whole
  <2> QED  BY <2>1, <2>2
<1>3. \A d \in Callers : Versions(d)'
  <2>1. ASSUME NEW d \in Callers \ {c} PROVE Versions(d)'
    <3>1. /\ Versions(d) /\ UNCHANGED <<version, mtime, unseen, initial>>
          /\ pc'[d] = pc[d] /\ content'[d] = content[d] /\ footer'[d] = footer[d]
      OBVIOUS
    <3> QED
      BY <3>1, VersionsKept, Zenon
  <2>2. Versions(c)'
    BY DEF Versions
  <2> QED  BY <2>1, <2>2
<1>4. \A d \in Callers : Clock(d)'
  BY DEF Clock
<1>5. \A d \in Callers : Named(d)' /\ Holding(d)'
  BY DEF Named, Holding, Holders
<1> QED  BY <1>1, <1>2, <1>3, <1>4, <1>5

LEMMA PowerLossInv == ASSUME DecryptInv, PowerLoss PROVE DecryptInv'
<1> USE DecryptConstants DEF DecryptInv, Types, PowerLoss, Running, source
<1>1. Types'
  BY DEF Steps
<1>2. ASSUME NEW d \in Callers
      PROVE  /\ Running(d) => pc'[d] = "crashed" /\ content'[d] = <<>> /\ d \notin synced
             /\ ~ Running(d) => pc'[d] = pc[d] /\ content'[d] \in {content[d], <<>>}
             /\ d \in synced => content'[d] = content[d]
             /\ footer' = footer /\ initial' = initial /\ expects' = expects
             /\ d \in synced' <=> d \in synced
  BY DEF Progress
<1>3. \A d \in Callers : Progress(d)' /\ Versions(d)'
  <2> SUFFICES ASSUME NEW d \in Callers PROVE Progress(d)' /\ Versions(d)'
    OBVIOUS
  <2>1. CASE content'[d] = content[d] /\ pc'[d] = pc[d]
    <3>1. Progress(d) /\ Versions(d) /\ UNCHANGED <<version, mtime, unseen, initial>>
      OBVIOUS
    <3>2. expects' = expects /\ footer'[d] = footer[d] /\ (d \in synced' <=> d \in synced)
      BY <1>2
    <3> QED
      BY <2>1, <3>1, <3>2, ProgressKept, VersionsKept, Zenon
  <2>2. CASE content'[d] = <<>> /\ pc'[d] \notin {"hash", "sync", "done", "create", "copy"} \cup Reads
                /\ d \notin synced
    <3>1. d \notin synced' /\ Len(content'[d]) <= Pieces
      BY <1>2, <2>2
    <3>2. Progress(d)'
      BY <2>2, <3>1 DEF Progress
    <3>3. Versions(d)'
      BY <2>2, Zenon DEF Versions
    <3> QED
      BY <3>2, <3>3
  <2>3. CASE Running(d)
    BY <1>2, <2>2, <2>3 DEF Reads
  <2>4. CASE ~ Running(d) /\ d \in synced
    BY <1>2, <2>1, <2>4
  <2>5. CASE ~ Running(d) /\ d \notin synced
    <3>1. pc[d] # "done"
      BY <2>5 DEF Progress
    <3>2. pc[d] \in {"open", "failed", "left", "crashed"} /\ pc'[d] = pc[d]
      BY <1>2, <2>5, <3>1
    <3>3. content'[d] = <<>>
      BY <2>5
    <3> QED
      BY <2>2, <2>5, <3>2, <3>3 DEF Reads
  <2> QED  BY <2>3, <2>4, <2>5
<1>4. \A d \in Callers : Clock(d)'
  BY DEF Clock
<1>5. \A d \in Callers : pc'[d] \in {pc[d], "crashed"}
  BY <1>2
<1>6. \A d \in Callers : Named(d)' /\ Holding(d)'
  <2>1. CASE at' = at
    BY <1>5, <2>1 DEF Named, Holding, Holders
  <2>2. CASE at' # at
    <3>1. cleared' # 0
      BY <2>2
    <3> QED
      BY <3>1 DEF Named, Holding
  <2> QED  BY <2>1, <2>2
<1> QED  BY <1>1, <1>3, <1>4, <1>6

LEMMA ModifyInv == ASSUME DecryptInv, Modify PROVE DecryptInv'
<1> USE DEF DecryptInv, Types, Modify
<1>1. Types'
  OBVIOUS
<1>2. \A d \in Callers : Progress(d)'
  BY DEF Progress, Whole, AllOf
<1>3. CASE mtime' = mtime
  <2>1. unseen'
    BY <1>3
  <2>2. \A d \in Callers : Versions(d)' /\ Clock(d)'
    BY <1>3, <2>1 DEF Versions, Clock
  <2>3. \A d \in Callers : Named(d)' /\ Holding(d)'
    BY DEF Named, Holding
  <2> QED  BY <1>1, <1>2, <2>2, <2>3
<1>4. CASE mtime' = mtime + 1
  <2>1. unseen' = unseen
    BY <1>4
  <2>2. \A d \in Callers : initial'[d].mtime <= mtime /\ initial'[d].mtime \in Nat
    BY DEF Clock
  <2>3. \A d \in Callers : Clock(d)' /\ initial'[d].mtime # mtime'
    BY <1>4, <2>2, SMTT(30) DEF Clock
  <2>4. \A d \in Callers : Versions(d)'
    BY <2>1, <2>3 DEF Versions, AllOf, FooterOf
  <2>5. \A d \in Callers : Named(d)' /\ Holding(d)'
    BY DEF Named, Holding
  <2> QED  BY <1>1, <1>2, <2>3, <2>4, <2>5
<1> QED  BY <1>3, <1>4

LEMMA RemoveInv == ASSUME DecryptInv, Remove PROVE DecryptInv'
<1> USE DecryptConstants DEF DecryptInv, Types, Remove, Becomes, source
<1>1. Types'
  OBVIOUS
<1>2. \A d \in Callers : Progress(d)' /\ Versions(d)' /\ Clock(d)'
  BY DEF Progress, Versions, Clock, Whole, AllOf, FooterOf
<1>3. \A d \in Callers : Named(d)' /\ Holding(d)'
  BY DEF Named, Holding
<1> QED  BY <1>1, <1>2, <1>3
-----------------------------------------------------------------------------
(* What a caller does between its own place in the code and the next.      *)

LEMMA CallerInv == ASSUME DecryptInv, NEW c \in Callers, Caller(c) PROVE DecryptInv'
<1> USE DEF Go
<1>0. /\ Progress(c) /\ Versions(c) /\ Clock(c) /\ Named(c) /\ Holding(c)
      /\ pc \in [Callers -> Steps] /\ Whole(content[c]) \in BOOLEAN
  BY DEF DecryptInv, Types, Whole
<1>1. CASE Open(c)
  BY <1>1, OpenInv
<1>2. CASE Refused(c)
  <2>1. (cleared = 0 => at # c) /\ pc[c] # "done"
    BY <1>0, <1>2 DEF Refused, Named, Holders
  <2> QED  BY <1>2, <2>1, PlaceStep DEF Refused, Steps
<1>13. CASE ReadSize(c) \/ ReadTrailer(c) \/ ReadMetadata(c)
  BY <1>13, FooterInv
<1>3. CASE Create(c) \/ CreateInterrupted(c)
  BY <1>3, CreateInv
<1>4. CASE Taken(c)
  <2>1. cleared = 0 => at # c
    BY <1>0, <1>4 DEF Taken, Named, Holders
  <2> QED  BY <1>4, <2>1, PlaceStep DEF Taken, NotCreated, Steps
<1>5. CASE Copy(c)
  BY <1>5, CopyInv
<1>6. CASE Check(c)
  <2>1. ~ unseen => AllOf(initial[c].version, content[c]) /\ FooterOf(initial[c].version, c)
    BY <1>0, <1>6 DEF Check, Versions, Same
  <2>2. cleared = 0 => at = c
    BY <1>0, <1>6 DEF Check, Holding
  <2> QED  BY <1>6, <2>1, <2>2, PlaceStep DEF Check, Steps, Holders
<1>7. CASE Changed(c)
  <2>1. cleared = 0 => at = c
    BY <1>0, <1>7 DEF Changed, Holding
  <2> QED  BY <1>7, <2>1, PlaceStep DEF Changed, Steps, Holders
<1>8. CASE Compare(c)
  <2>1. /\ Whole(content[c])
        /\ ~ unseen => AllOf(initial[c].version, content[c])
                         /\ FooterOf(initial[c].version, c)
    BY <1>0, <1>8 DEF Compare, Progress, Versions
  <2>2. cleared = 0 => at = c
    BY <1>0, <1>8 DEF Compare, Holding
  <2>3. expects[c] => AllOf(Right, content[c])
    BY <1>8 DEF Compare, Matches
  <2> QED  BY <1>8, <2>1, <2>2, <2>3, PlaceStep DEF Compare, Steps, Holders
<1>9. CASE Mismatch(c)
  <2>1. cleared = 0 => at = c
    BY <1>0, <1>9 DEF Mismatch, Holding
  <2> QED  BY <1>9, <2>1, PlaceStep DEF Mismatch, Steps, Holders
<1>10. CASE Sync(c)
  BY <1>10, SyncInv
<1>11. CASE Fails(c)
  <2>1. cleared = 0 => at = c
    BY <1>0, <1>11 DEF Fails, Holding
  <2> QED  BY <1>11, <2>1, PlaceStep DEF Fails, Steps, Holders
<1>12. CASE Undo(c)
  BY <1>12, UndoInv
<1>14. CASE UndoFails(c)
  BY <1>14, PlaceStep DEF UndoFails, Steps, Holders
<1> QED
  BY <1>1, <1>2, <1>3, <1>4, <1>5, <1>6, <1>7, <1>8, <1>9, <1>10, <1>11, <1>12,
     <1>13, <1>14 DEF Caller

LEMMA CrashInv == ASSUME DecryptInv, NEW c \in Callers, Crash(c) PROVE DecryptInv'
BY PlaceStep DEF Crash, Running, Steps, Holders

LEMMA NextInv == DecryptInv /\ [Next]_vars => DecryptInv'
<1> SUFFICES ASSUME DecryptInv, [Next]_vars PROVE DecryptInv'
  OBVIOUS
<1>1. CASE UNCHANGED vars
  BY <1>1 DEF vars, source, DecryptInv, Types, Progress, Versions, Clock, Named, Holding,
     Whole, AllOf, FooterOf
<1>2. CASE PowerLoss
  BY <1>2, PowerLossInv
<1>3. CASE Modify
  BY <1>3, ModifyInv
<1>4. CASE Remove
  BY <1>4, RemoveInv
<1>5. ASSUME NEW c \in Callers, Caller(c) PROVE DecryptInv'
  BY <1>5, CallerInv
<1>6. ASSUME NEW c \in Callers, Crash(c) PROVE DecryptInv'
  BY <1>6, CrashInv
<1> QED  BY <1>1, <1>2, <1>3, <1>4, <1>5, <1>6 DEF Next

(* The invariant holds in every state of every run of decrypt_file.        *)
THEOREM DecryptInvariant == Spec => []DecryptInv
BY InitInv, NextInv, PTL DEF Spec

-----------------------------------------------------------------------------
(* What the invariant says of results and of the output path.              *)

(* With the original's hash a result is the original: whatever is done to  *)
(* the source and to the machine (core.py:193-196).                        *)
THEOREM ResultMatchesHash == Spec => []HashMeansRight
<1>1. DecryptInv => HashMeansRight
  BY DEF DecryptInv, Progress, HashMeansRight
<1> QED  BY <1>1, DecryptInvariant, PTL

(* Without one it is of a single version of the source, unless a change    *)
(* did not show in the mtime (core.py:180, 190-192).                       *)
THEOREM ResultOfOneVersion == Spec => []OneVersion
<1>1. DecryptInv => OneVersion
  <2> SUFFICES ASSUME DecryptInv, NEW c \in Callers, pc[c] = "done", ~ unseen
               PROVE  /\ Whole(content[c]) /\ AllOf(initial[c].version, content[c])
                      /\ AllOf(initial[c].version, footer[c])
    BY DEF OneVersion
  <2>1. Whole(content[c])
    BY DEF DecryptInv, Progress
  <2>2. AllOf(initial[c].version, content[c]) /\ FooterOf(initial[c].version, c)
    BY DEF DecryptInv, Versions
  <2>3. DOMAIN footer[c] = Reads
    BY DEF DecryptInv, Types
  <2>4. AllOf(initial[c].version, footer[c])
    BY <2>2, <2>3 DEF FooterOf, AllOf
  <2> QED  BY <2>1, <2>2, <2>4
<1> QED  BY <1>1, DecryptInvariant, PTL

(* Whoever fails has left a file only where it was kept from removing it,  *)
(* and what is finished stays, while the path is changed by callers alone  *)
(* (core.py:186-199).                                                      *)
THEOREM PathIsAccountedFor == Spec => []PathAccounted
<1>1. DecryptInv => PathAccounted
  BY DEF DecryptInv, Named, Holding, Holders, PathAccounted
<1> QED  BY <1>1, DecryptInvariant, PTL

(* While the path is left alone, a caller only ever changes it to or from  *)
(* its own file: what is unlinked after a failure is what that very call   *)
(* had created (core.py:186, 197-198).                                     *)
THEOREM OthersAreUntouched == Spec => OthersUntouched
<1> DEFINE Untouched(c) ==
             (pc'[c] # pc[c] /\ pc'[c] # "crashed" /\ at' # at /\ cleared = 0)
                 => at' = c \/ at = c
<1>1. ASSUME DecryptInv, Next, NEW c \in Callers PROVE Untouched(c)
  <2>1. CASE PowerLoss \/ Modify \/ Remove
    BY <2>1 DEF PowerLoss, Running, Modify, Remove
  <2>2. ASSUME NEW d \in Callers, Caller(d), at' # at PROVE Untouched(c)
    <3>1. CASE Create(d) \/ CreateInterrupted(d)
      BY <1>1, <3>1 DEF Create, CreateInterrupted, Becomes, Go, DecryptInv, Types
    <3>2. CASE Undo(d)
      <4>1. cleared = 0 => at = d
        BY <1>1, <3>2 DEF Undo, Go, DecryptInv, Holding
      <4> QED  BY <1>1, <3>2, <4>1 DEF Undo, Becomes, Go, DecryptInv, Types
    <3> QED
      BY <2>2, <3>1, <3>2 DEF Caller, Open, Refused, ReadSize, ReadTrailer, ReadMetadata, ReadFooter,
         Taken, Copy, Check, Changed, Compare, Mismatch, Sync, Fails, UndoFails
  <2>3. ASSUME NEW d \in Callers, Crash(d) PROVE Untouched(c)
    BY <2>3 DEF Crash
  <2> QED  BY <1>1, <2>1, <2>2, <2>3 DEF Next, Caller
<1>2. DecryptInv /\ [Next]_vars => [\A c \in Callers : Untouched(c)]_vars
  BY <1>1
<1> QED  BY <1>2, DecryptInvariant, PTL DEF Spec, OthersUntouched
=============================================================================
