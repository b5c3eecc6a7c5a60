------------------------ MODULE CheckpointStoreProofs -----------------------
(***************************************************************************)
(* Two theorems of what outlives a process and what starts one: _save      *)
(* implements the atomic file, for any set of documents and any number of  *)
(* files, and the worker's number() takes the numbers of its command line  *)
(* as they are written, for any width of a word.                           *)
(*                                                                         *)
(* What makes _save work is in StoreInv: every file that the checkpoint's  *)
(* name may lead to was synced before it was renamed, so that the disk can *)
(* hold nothing for it but what readers see, and that is a whole document. *)
(***************************************************************************)
EXTENDS CheckpointStore, CommandNumbers, TLAPS

(* The file i is a whole document, on the disk too. *)
Whole(i) == data[i] \in Documents /\ disk[i] = {data[i]}

(* How far the file under the temporary name has come. *)
TempAsFar ==
    /\ pc \in {"write", "sync", "rename"} => temp \in Inodes
    /\ pc \in {"syncdir", "unlink"} \cup Results => temp = NoInode
    /\ pc \in {"sync", "rename"} => data[temp] = document
    /\ pc = "rename" => disk[temp] = {document}

(* How far the checkpoint has come: from the rename on it is the document, *)
(* and from the directory's sync on it is nothing else.                    *)
EntryAsFar ==
    /\ pc \in {"syncdir", "unlink", "saved"} => entry \in Inodes /\ data[entry] = document
    /\ pc \in {"unlink", "saved"} => kept = {entry}

StoreInv ==
    /\ TypeOK
    /\ entry \in kept
    /\ \A i \in kept \ {NoInode} : Whole(i)
    /\ TempAsFar
    /\ EntryAsFar

LEMMA InitInv == Init => StoreInv
BY StoreConstants DEF Init, StoreInv, TypeOK, TempAsFar, EntryAsFar, Whole, Data, Steps, Results

LEMMA NextInv == StoreInv /\ [Next]_vars => StoreInv'
<1> SUFFICES ASSUME StoreInv, [Next]_vars PROVE StoreInv'
  OBVIOUS
<1> USE StoreConstants DEF StoreInv, TypeOK, TempAsFar, EntryAsFar, Whole, Data, Steps, Results
<1>1. CASE \E v \in Documents : Make(v)
  <2> PICK v \in Documents, i \in Free :
        /\ temp' = i
        /\ data' = [data EXCEPT ![i] = Partial]
        /\ disk' = [disk EXCEPT ![i] = {Partial}]
        /\ document' = v
        /\ pc' = "write"
        /\ UNCHANGED <<entry, kept, litter, spared>>
    BY <1>1 DEF Make
  <2>1. i \in Inodes /\ i # entry /\ i \notin kept
    BY DEF Free
  <2> QED  BY <2>1
<1>2. CASE Write
  BY <1>2 DEF Write
<1>3. CASE SyncFile
  BY <1>3 DEF SyncFile, Synced
<1>4. CASE Rename
  BY <1>4 DEF Rename
<1>5. CASE SyncDirectory
  BY <1>5 DEF SyncDirectory, Settled
<1>6. CASE CleanUp
  BY <1>6 DEF CleanUp, LeftBy
<1>7. CASE MakeFails
  BY <1>7 DEF MakeFails, Running
<1>8. CASE CallFails
  BY <1>8 DEF CallFails
<1>9. CASE Kill
  BY <1>9 DEF Kill, Running
<1>10. CASE PowerLoss
  <2> USE <1>10 DEF PowerLoss, Running
  <2>1. litter' \in BOOLEAN /\ spared' \in BOOLEAN /\ pc' \in Steps \cup Results
    OBVIOUS
  <2>2. /\ data' \in [Inodes -> Data]
        /\ disk' = [i \in Inodes |-> {data'[i]}]
        /\ disk' \in [Inodes -> SUBSET Data]
    OBVIOUS
  <2>3. /\ entry' \in kept /\ kept' = {entry'}
        /\ temp' = NoInode /\ document' = document
    OBVIOUS
  <2>4. \A i \in kept' \ {NoInode} : Whole(i)'
    <3> SUFFICES ASSUME entry' # NoInode PROVE Whole(entry)'
      BY <2>3
    <3>1. entry' \in Inodes /\ disk[entry'] = {data[entry']} /\ data[entry'] \in Documents
      BY <2>3
    <3>2. data'[entry'] = data[entry']
      BY <3>1
    <3> QED
      BY <2>2, <3>1, <3>2
  <2> QED
    BY <2>1, <2>2, <2>3, <2>4
<1>11. CASE UNCHANGED vars
  BY <1>11 DEF vars
<1> QED
  BY <1>1, <1>2, <1>3, <1>4, <1>5, <1>6, <1>7, <1>8, <1>9, <1>10, <1>11 DEF Next

(* The store's state stays as it is described above, for any documents and *)
(* any files.                                                              *)
THEOREM StoreInvariant == Spec => []StoreInv
BY InitInv, NextInv, PTL DEF Spec

(* Types hold, and a file being written is never the checkpoint's.         *)
THEOREM StoreTypes == Spec => []TypeOK
BY StoreInvariant, PTL DEF StoreInv

(* A document whose _save returned is all that a later session can find.   *)
THEOREM StoreSaves == Spec => []SavedSurvives
<1>1. StoreInv => SavedSurvives
  BY StoreConstants DEF StoreInv, TypeOK, EntryAsFar, Whole, SavedSurvives, Visible, Survivors, Held
<1> QED
  BY <1>1, StoreInvariant, PTL

(* However a _save ends by itself, its temporary file is gone. *)
THEOREM StoreIsClean == Spec => []NoLitter
<1>1. Init => NoLitter
  BY DEF Init, NoLitter
<1>2. StoreInv /\ NoLitter /\ [Next]_vars => NoLitter'
  <2> SUFFICES ASSUME StoreInv, NoLitter, [Next]_vars
               PROVE  NoLitter'
    OBVIOUS
  <2>1. CASE CleanUp
    BY <2>1 DEF CleanUp, LeftBy, NoLitter
  <2>2. CASE Kill
    BY <2>2 DEF Kill, NoLitter
  <2>3. CASE PowerLoss
    (* A temporary name is there only while _save runs. *)
    <3>1. temp # NoInode => Running
      BY DEF StoreInv, TypeOK, TempAsFar, Running, Steps, Results
    <3> QED
      BY <2>3, <3>1 DEF PowerLoss, NoLitter
  <2>4. CASE UNCHANGED <<litter, spared>>
    BY <2>4 DEF NoLitter
  <2> QED
    BY <2>1, <2>2, <2>3, <2>4 DEF Next, Make, Write, SyncFile, Rename, SyncDirectory,
       MakeFails, CallFails, vars
<1> QED
  BY <1>1, <1>2, StoreInvariant, PTL DEF Spec

-----------------------------------------------------------------------------
(* The refinement.                                                         *)

LEMMA InitRefines == Init => File!Init
BY StoreConstants DEF Init, File!Init, Visible, Survivors, Held

LEMMA StepRefines == StoreInv /\ StoreInv' /\ [Next]_vars => [File!Next]_(File!vars)
<1> SUFFICES ASSUME StoreInv, StoreInv', [Next]_vars
             PROVE  File!Next \/ UNCHANGED <<Visible, Survivors>>
  BY DEF File!vars
<1> USE StoreConstants DEF StoreInv, TypeOK
<1>0. ASSUME UNCHANGED <<entry, kept>>,
             \A i \in (kept \cup {entry}) \ {NoInode} : data'[i] = data[i] /\ disk'[i] = disk[i]
      PROVE  UNCHANGED <<Visible, Survivors>>
  <2>1. \A i \in kept : Held(i)' = Held(i)
    BY <1>0 DEF Held
  <2> QED
    BY <1>0, <2>1 DEF Visible, Survivors
<1>1. CASE \E v \in Documents : Make(v)
  <2> PICK v \in Documents, i \in Free :
        /\ data' = [data EXCEPT ![i] = Partial]
        /\ disk' = [disk EXCEPT ![i] = {Partial}]
        /\ UNCHANGED <<entry, kept>>
    BY <1>1 DEF Make
  <2> QED
    BY <1>0 DEF Free
<1>2. CASE Write
  BY <1>0, <1>2 DEF Write
<1>3. CASE SyncFile
  BY <1>0, <1>3 DEF SyncFile
<1>4. CASE Rename
  <2>1. File!Replace(document)
    BY <1>4 DEF Rename, TempAsFar, File!Replace, Visible, Survivors, Held
  <2> QED
    BY <2>1 DEF File!Next
<1>5. CASE SyncDirectory
  <2>1. File!Sync
    BY <1>5 DEF SyncDirectory, Settled, File!Sync, Visible, Survivors, Held, Whole
  <2> QED
    BY <2>1 DEF File!Next
<1>6. CASE CleanUp
  BY <1>0, <1>6 DEF CleanUp
<1>7. CASE MakeFails
  BY <1>0, <1>7 DEF MakeFails
<1>8. CASE CallFails
  BY <1>0, <1>8 DEF CallFails
<1>9. CASE Kill
  BY <1>0, <1>9 DEF Kill
<1>10. CASE PowerLoss
  <2>1. entry' \in kept /\ kept' = {entry'} /\ data' \in [Inodes -> Data]
    BY <1>10 DEF PowerLoss
  <2>2. entry' # NoInode => data'[entry'] \in disk[entry'] /\ disk'[entry'] = {data'[entry']}
    BY <1>10, <2>1 DEF PowerLoss
  <2>3. Visible' \in Survivors
    BY <2>1, <2>2 DEF Visible, Survivors, Held
  <2>4. Survivors' = {Visible'}
    BY <2>1, <2>2 DEF Visible, Survivors, Held
  <2> QED
    BY <2>3, <2>4 DEF File!Next, File!PowerLoss
<1>11. CASE UNCHANGED vars
  BY <1>0, <1>11 DEF vars
<1> QED
  BY <1>1, <1>2, <1>3, <1>4, <1>5, <1>6, <1>7, <1>8, <1>9, <1>10, <1>11 DEF Next

(* _save makes the checkpoint an atomic file: every call, failure, kill and *)
(* power loss is a replacement, a sync or a power loss of it, or nothing.   *)
THEOREM StoreRefines == Spec => ImplementsFile
<1>1. Spec => File!Init /\ [][File!Next]_(File!vars)
  BY InitRefines, StepRefines, StoreInvariant, PTL DEF Spec
<1> QED
  BY <1>1, PTL DEF ImplementsFile, File!Spec
-----------------------------------------------------------------------------
(* Numbers of the command line.                                            *)

(* maximum is what START leaves, and a word holds it. *)
NumbersInv ==
    /\ Word \in Nat /\ space \in Nat /\ space < Word
    /\ options \in [start : Nat, count : Nat] /\ options.start <= space
    /\ result \in Nat /\ written \in Nat
    /\ field \in {"start", "count", "none"}
    /\ field # "none" => maximum = space - options.start /\ result <= maximum /\ verdict = "none"
    /\ field = "start" => options.start = 0
    /\ TakenAsWritten

LEMMA HeldByWord ==
    ASSUME Word \in Nat, NEW n \in Nat, n < Word
    PROVE  n % Word = n
OBVIOUS

(* What the test of a digit is worth. *)
LEMMA RangeTest ==
    ASSUME Word \in Nat, maximum \in Nat, maximum < Word, result \in Nat,
           NEW d \in Digits
    PROVE  OutOfRange(d) <=> result * 10 + d > maximum
<1>1. d \in Nat /\ d <= 9
  BY DEF Digits
<1>2. CASE d > maximum
  BY <1>1, <1>2 DEF OutOfRange
<1>3. CASE d <= maximum
  <2>1. (maximum - d) \in Nat /\ maximum - d < Word
    BY <1>1, <1>3
  <2>2. (maximum - d) % Word = maximum - d
    BY <2>1, HeldByWord
  <2>3. result > (maximum - d) \div 10 <=> result * 10 + d > maximum
    BY <1>1, <2>1
  <2> QED
    BY <1>1, <1>3, <2>2, <2>3 DEF OutOfRange
<1> QED
  BY <1>1, <1>2, <1>3

LEMMA NumbersInitially == NumbersInit => NumbersInv
BY WordHoldsSpaces DEF NumbersInit, NumbersInv, TakenAsWritten

LEMMA NumbersPreserved == NumbersInv /\ [NumbersNext]_numberVars => NumbersInv'
<1> SUFFICES ASSUME NumbersInv, [NumbersNext]_numberVars PROVE NumbersInv'
  OBVIOUS
<1>r. ASSUME field # "none"
      PROVE  /\ maximum \in Nat /\ maximum < Word /\ result \in Nat /\ Word \in Nat
             /\ maximum = space - options.start /\ result = written
  BY <1>r DEF NumbersInv, TakenAsWritten
<1>1. ASSUME NEW d \in Digits, Digit(d) PROVE NumbersInv'
  <2>1. field # "none"
    BY <1>1 DEF Digit
  <2>2. ~ (result * 10 + d > maximum)
    BY <1>1, <1>r, <2>1, RangeTest DEF Digit
  <2>3. d \in Nat /\ result * 10 + d \in Nat /\ result * 10 + d < Word
    BY <1>r, <2>1, <2>2 DEF Digits
  <2>4. (result * 10 + d) % Word = result * 10 + d
    BY <1>r, <2>1, <2>3, HeldByWord
  <2>5. result' = result * 10 + d /\ written' = written * 10 + d
    BY <1>1, <2>4 DEF Digit
  <2> QED
    BY <1>1, <1>r, <2>1, <2>2, <2>3, <2>5 DEF Digit, NumbersInv, TakenAsWritten
<1>2. ASSUME NEW d \in Digits, TooLarge(d) PROVE NumbersInv'
  <2>1. field # "none"
    BY <1>2 DEF TooLarge
  <2>2. result * 10 + d > maximum
    BY <1>2, <1>r, <2>1, RangeTest DEF TooLarge
  <2>3. d \in Nat
    BY DEF Digits
  <2> QED
    BY <1>2, <1>r, <2>1, <2>2, <2>3 DEF TooLarge, Throw, NumbersInv, TakenAsWritten
<1>3. CASE Malformed
  BY <1>3, <1>r DEF Malformed, Throw, NumbersInv, TakenAsWritten
<1>4. CASE StartRead
  <2>1. result \in Nat /\ result <= space /\ space < Word /\ space \in Nat /\ Word \in Nat
    BY <1>4, <1>r DEF StartRead, NumbersInv
  <2>2. (space - result) % Word = space - result
    BY <2>1, HeldByWord
  <2> QED
    BY <1>4, <2>1, <2>2 DEF StartRead, NumbersInv, TakenAsWritten
<1>5. CASE CountRead
  BY <1>5, <1>r DEF CountRead, NumbersInv, TakenAsWritten
<1>6. CASE UNCHANGED numberVars
  BY <1>6 DEF numberVars, NumbersInv, TakenAsWritten
<1> QED
  BY <1>1, <1>2, <1>3, <1>4, <1>5, <1>6 DEF NumbersNext

(* A number is taken as it was written, or refused for what it is. *)
THEOREM NumbersTakenAsWritten == NumbersSpec => []TakenAsWritten
<1>1. NumbersInv => TakenAsWritten
  BY DEF NumbersInv
<1> QED
  BY NumbersInitially, NumbersPreserved, <1>1, PTL DEF NumbersSpec
=============================================================================
