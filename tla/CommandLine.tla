---------------------------- MODULE CommandLine -----------------------------
(***************************************************************************)
(* main() of ayaz_decryptor/__main__.py: the commands analyze, decrypt and *)
(* verify, with verify_archive and emit, called by several users on one    *)
(* archive of pairs and one report path.                                   *)
(*                                                                         *)
(* A pair is told by whether its files have the hashes of the manifest     *)
(* (iter_pairs), whether its sizes agree (analyze_archive), and what       *)
(* becomes of its decryption: it matches, does not match, or is refused.   *)
(* iter_pairs reads pair by pair, so that a wrong hash is found when those *)
(* before it are done with.  decrypt_file is one step here (DecryptFile).  *)
(***************************************************************************)
EXTENDS Integers, Sequences

CONSTANTS
    Procs,          \* Calls of main.
    MaxListed,       \* Bound: pairs that its manifest lists.
    NoFile,         \* The report path does not exist.
    UsersFile       \* It holds something of its user's.

Pair == [sound : BOOLEAN, agrees : BOOLEAN,
         decrypted : {"match", "mismatch", "refused"}]

(* The manifest's list of pairs is never empty. *)
Archives == UNION {[1 .. n -> Pair] : n \in 1 .. MaxListed}

Commands == {"analyze", "decrypt", "verify"}

(* What emit makes of a result. *)
Reports ==
    [of : Procs, command : Commands, results : Seq(BOOLEAN), whole : BOOLEAN]

ASSUME CommandConstants == MaxListed \in Nat \ {0} /\ NoFile \notin Reports

VARIABLES
    archive,
    profileOk,      \* load_json accepts the profile.
    report,         \* The report path.
    call            \* call[p]: one run of main.

mainVars == <<archive, profileOk, report, call>>

(*   profile  load_json     pairs   in the loop over iter_pairs             *)
(*   file     decrypt_file  emit    before open or print                    *)
(*   write    the report is created and not yet written                     *)
(*   exit     main has returned code, or died with another one              *)
NewCall(command, toFile) ==
    [pc |-> CASE command = "analyze" -> "pairs" [] OTHER -> "profile",
     command |-> command, toFile |-> toFile,
     results |-> <<>>, made |-> FALSE, code |-> 1]

At(p, pc) == call[p].pc = pc

Step(p, c) == call' = [call EXCEPT ![p] = c] /\ UNCHANGED <<archive, profileOk>>

Returned(c, code) == [c EXCEPT !.pc = "exit", !.code = code]

(* The except clause of main. *)
Error(p) == Step(p, Returned(call[p], 2)) /\ UNCHANGED report

MainInit ==
    /\ archive \in Archives
    /\ profileOk \in BOOLEAN
    /\ report \in {NoFile, UsersFile}
    /\ call \in [Procs -> {NewCall(c, f) : c \in Commands, f \in BOOLEAN}]
    /\ \A p \in Procs : call[p].command = "decrypt" => ~ call[p].toFile

LoadProfile(p) ==
    /\ At(p, "profile") /\ profileOk
    /\ Step(p, [call[p] EXCEPT !.pc = IF call[p].command = "decrypt" THEN "file" ELSE "pairs"])
    /\ UNCHANGED report

BadProfile(p) == At(p, "profile") /\ ~ profileOk /\ Error(p)

DecryptFile(p) ==
    /\ At(p, "file")
    /\ Step(p, [call[p] EXCEPT !.pc = "emit", !.made = TRUE])
    /\ UNCHANGED report

DecryptFails(p) == At(p, "file") /\ Error(p)

-----------------------------------------------------------------------------
(* The loops over the pairs.                                               *)

More(p) == At(p, "pairs") /\ Len(call[p].results) < Len(archive)
Current(p) == archive[Len(call[p].results) + 1]

(* analyze takes no single pair that it cannot use; verify takes any whose *)
(* hashes are right. *)
Usable(c, pair) == pair.sound /\ (c.command = "analyze" => pair.agrees)

(* Slip: a refused pair left out of the results of the others. *)
MatchUnlessRefused(pair) == pair.decrypted # "mismatch"

Matches(pair) == pair.decrypted = "match"

(* One pair of verify, refused or not, or of analyze. *)
TakePair(p) ==
    /\ More(p) /\ Usable(call[p], Current(p))
    /\ Step(p, [call[p] EXCEPT !.results = Append(@, Matches(Current(p)))])
    /\ UNCHANGED report

BadPair(p) == More(p) /\ ~ Usable(call[p], Current(p)) /\ Error(p)

PairsDone(p) ==
    /\ At(p, "pairs") /\ ~ More(p)
    /\ Step(p, [call[p] EXCEPT !.pc = "emit"])
    /\ UNCHANGED report

-----------------------------------------------------------------------------
(* emit, and what main returns after it.                                   *)

Matched(c) == {i \in DOMAIN c.results : c.results[i]}

Code(c) ==
    IF c.command = "verify" /\ Matched(c) # DOMAIN c.results THEN 2 ELSE 0

PrintResult(p) ==
    /\ At(p, "emit") /\ ~ call[p].toFile
    /\ Step(p, Returned(call[p], Code(call[p])))
    /\ UNCHANGED report

PrintFails(p) == At(p, "emit") /\ ~ call[p].toFile /\ Error(p)

Document(p, whole) ==
    [of |-> p, command |-> call[p].command, results |-> call[p].results, whole |-> whole]

(* Slip: a report of before written over. *)
CreatableAlways == TRUE

(* open(path, "x") *)
Creatable == report = NoFile

Create(p) ==
    /\ At(p, "emit") /\ call[p].toFile /\ Creatable
    /\ report' = Document(p, FALSE)
    /\ Step(p, [call[p] EXCEPT !.pc = "write"])

CannotCreate(p) == At(p, "emit") /\ call[p].toFile /\ ~ Creatable /\ Error(p)

WriteReport(p) ==
    /\ At(p, "write")
    /\ report' = Document(p, TRUE)
    /\ Step(p, Returned(call[p], Code(call[p])))

(* A full disk, or text that is not UTF-8: what was created stays. *)
WriteFails(p) == At(p, "write") /\ Error(p)

(* A kill, or an exception that main does not know. *)
Die(p) ==
    /\ ~ At(p, "exit")
    /\ Step(p, Returned(call[p], 1))
    /\ UNCHANGED report

Finished == (\A p \in Procs : At(p, "exit")) /\ UNCHANGED mainVars

MainNext ==
    \/ \E p \in Procs :
          \/ LoadProfile(p) \/ BadProfile(p) \/ DecryptFile(p) \/ DecryptFails(p)
          \/ TakePair(p) \/ BadPair(p) \/ PairsDone(p)
          \/ PrintResult(p) \/ PrintFails(p)
          \/ Create(p) \/ CannotCreate(p) \/ WriteReport(p) \/ WriteFails(p)
          \/ Die(p)
    \/ Finished

MainSpec == MainInit /\ [][MainNext]_mainVars

-----------------------------------------------------------------------------
(* Properties.                                                             *)

(* Exit 0 of verify: every pair of the archive is sound and decrypts to    *)
(* its original; of analyze: every pair was read with its hash; of         *)
(* decrypt: the file is there.                                             *)
Earned(c) ==
    CASE c.command = "verify"  ->
            \A i \in DOMAIN archive : archive[i].sound /\ archive[i].decrypted = "match"
      [] c.command = "analyze" -> \A i \in DOMAIN archive : Usable(c, archive[i])
      [] OTHER                 -> c.made

(* A whole report has a result for every pair, and each says what is so.   *)
ReportTrue ==
    report \notin {NoFile, UsersFile} /\ report.whole =>
        /\ DOMAIN report.results = DOMAIN archive
        /\ \A i \in DOMAIN archive : archive[i].sound
        /\ report.command = "verify" =>
              \A i \in DOMAIN archive : report.results[i] <=> archive[i].decrypted = "match"

(* What a caller may rely on (lines 43-70, 104-115): exit 0 is earned by   *)
(* every pair, not by those before a failure; its report is the one at the *)
(* path, whole and never written over by a later call; and any whole       *)
(* report, whatever the exit, counts every pair rightly, refused ones too. *)
SuccessIsEarned ==
    /\ \A p \in Procs : At(p, "exit") /\ call[p].code = 0 =>
          /\ Earned(call[p])
          /\ call[p].toFile => report = Document(p, TRUE)
    /\ ReportTrue
=============================================================================
