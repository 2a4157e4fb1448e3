----------------------------- MODULE StoreJournal -----------------------------
(***************************************************************************)
(* The recoverable transactions of JSONStore: SaveGameState writes every   *)
(* new file to a journal directory, marks it with COMMIT, replaces the     *)
(* files one by one and deletes the journal; the next start of the process *)
(* applies again what it finds committed before anybody can log in.        *)
(*                                                                         *)
(* The World makes one call at a time; files[t] is the number of the call  *)
(* whose contents the file t holds.                                        *)
(***************************************************************************)
EXTENDS Naturals, FiniteSets

CONSTANTS
  AccountFiles,   \* accounts/<name>.json
  OtherFiles,     \* guilds.json and the instance state, outside accounts/
  Manifest, Commit, \* the two marker files of a journal
  Transactions,   \* file sets SaveGameState may cover
  MaxCalls,       \* bound: calls made to the store
  MaxErrors,      \* bound: file-system errors while a journal is applied
  MaxCrashes      \* bound: process crashes

Files == AccountFiles \union OtherFiles
Markers == {Manifest, Commit}

ASSUME JournalAssumption ==
  /\ AccountFiles \intersect OtherFiles = {}
  /\ Manifest # Commit /\ Markers \intersect Files = {}
  /\ Transactions \subseteq (SUBSET Files) \ {{}}
  /\ MaxCalls \in Nat /\ MaxErrors \in Nat /\ MaxCrashes \in Nat

VARIABLES
  files,      \* what each file holds
  stray,      \* files of other kinds written among the accounts
  entries,    \* entries[n]: files the transaction n covers
  journal,    \* journal[n]: what the directory of transaction n contains
  calls,      \* calls made so far
  pc,         \* where the process stands
  txn,        \* the transaction being built or applied
  todo,       \* files of txn still to be replaced
  confirmed,  \* history: newest call that returned without error, per file
  aborted,    \* history: transactions refused and thrown away
  doubtful,   \* history: calls refused when files may have changed
  errors, crashes

vars == <<files, stray, entries, journal, calls, pc, txn, todo, confirmed,
          aborted, doubtful, errors, crashes>>

Calls == 1..MaxCalls

TypeOK ==
  /\ files \in [Files -> 0..MaxCalls]
  /\ stray \in SUBSET OtherFiles
  /\ entries \in [Calls -> SUBSET Files]
  /\ journal \in [Calls -> SUBSET (Files \union Markers)]
  /\ calls \in 0..MaxCalls
  /\ pc \in {"idle", "stage", "undo", "apply", "remove", "boot", "recover",
             "reclaim", "broken"}
  /\ txn \in 0..MaxCalls
  /\ todo \in SUBSET Files
  /\ confirmed \in [Files -> 0..MaxCalls]
  /\ aborted \in SUBSET Calls /\ doubtful \in SUBSET Calls
  /\ errors \in 0..MaxErrors /\ crashes \in 0..MaxCrashes

Init ==
  /\ files = [t \in Files |-> 0] /\ stray = {}
  /\ entries = [n \in Calls |-> {}] /\ journal = [n \in Calls |-> {}]
  /\ calls = 0 /\ pc = "idle" /\ txn = 0 /\ todo = {}
  /\ confirmed = [t \in Files |-> 0] /\ aborted = {} /\ doubtful = {}
  /\ errors = 0 /\ crashes = 0

-----------------------------------------------------------------------------
(* SaveAccount and SaveInstanceState replace one file with a rename; the   *)
(* directory may fail to be synchronised before or after it.               *)
SaveFile(t) ==
  /\ pc = "idle" /\ calls < MaxCalls
  /\ calls' = calls + 1
  /\ LET stored == [files EXCEPT ![t] = calls + 1] IN
       \/ /\ files' = stored
          /\ confirmed' = [confirmed EXCEPT ![t] = calls + 1]
          /\ UNCHANGED <<doubtful, errors>>
       \/ /\ errors < MaxErrors /\ errors' = errors + 1
          /\ files' \in {files, stored}
          /\ doubtful' = doubtful \union {calls + 1}
          /\ UNCHANGED confirmed
  /\ UNCHANGED <<stray, entries, journal, pc, txn, todo, aborted, crashes>>

(* saveGameState creates the journal directory.                            *)
Begin(T) ==
  /\ pc = "idle" /\ calls < MaxCalls
  /\ calls' = calls + 1 /\ txn' = calls + 1
  /\ entries' = [entries EXCEPT ![calls + 1] = T]
  /\ pc' = "stage"
  /\ UNCHANGED <<files, stray, journal, todo, confirmed, aborted, doubtful,
                 errors, crashes>>

(* What may be written to the journal next: the new files, then MANIFEST,  *)
(* then COMMIT.                                                            *)
Staged(n) ==
  IF entries[n] \ journal[n] # {} THEN entries[n] \ journal[n]
  ELSE IF Manifest \notin journal[n] THEN {Manifest} ELSE {Commit}

(* Fault: COMMIT is written when it likes.                                 *)
StagedAnyOrder(n) == (entries[n] \union Markers) \ journal[n]

Stage ==
  /\ pc = "stage"
  /\ \E f \in Staged(txn) :
       /\ journal' = [journal EXCEPT ![txn] = @ \union {f}]
       /\ IF f = Commit THEN pc' = "apply" /\ todo' = entries[txn]
                        ELSE UNCHANGED <<pc, todo>>
  /\ UNCHANGED <<files, stray, entries, calls, txn, confirmed, aborted, doubtful,
                 errors, crashes>>

(* Fault: the journal of a transaction that failed stays.                  *)
StageErrorKept ==
  /\ pc = "stage" /\ errors < MaxErrors /\ errors' = errors + 1
  /\ \E F \in {{}} \union {{f} : f \in Staged(txn)} :
       journal' = [journal EXCEPT ![txn] = @ \union F]
  /\ aborted' = aborted \union {txn}
  /\ pc' = "idle" /\ txn' = 0
  /\ UNCHANGED <<files, stray, entries, calls, todo, confirmed, doubtful,
                 crashes>>

(* An error while a file of the journal is written or synchronised, COMMIT *)
(* included: the file may be there already.  The journal is thrown away.   *)
StageError ==
  /\ pc = "stage" /\ errors < MaxErrors /\ errors' = errors + 1
  /\ \E F \in {{}} \union {{f} : f \in Staged(txn)} :
       journal' = [journal EXCEPT ![txn] = @ \union F]
  /\ pc' = "undo"
  /\ UNCHANGED <<files, stray, entries, calls, txn, todo, confirmed, aborted,
                 doubtful, crashes>>

(* The call returns its error; that of the removal is ignored.             *)
Aborted ==
  /\ pc = "undo"
  /\ \/ /\ journal[txn] = {} /\ UNCHANGED <<doubtful, errors>>
        /\ aborted' = aborted \union {txn}
     \/ /\ errors < MaxErrors /\ errors' = errors + 1
        /\ doubtful' = doubtful \union {txn} /\ UNCHANGED aborted
  /\ pc' = "idle" /\ txn' = 0
  /\ UNCHANGED <<files, stray, entries, journal, calls, todo, confirmed,
                 crashes>>

(* applyTransaction, in the call and at the start of the process: replace  *)
(* the files one by one.                                                   *)
Apply ==
  /\ pc \in {"apply", "recover"} /\ todo # {}
  /\ \E t \in todo :
       /\ files' = [files EXCEPT ![t] = txn]
       /\ todo' = todo \ {t}
  /\ UNCHANGED <<stray, entries, journal, calls, pc, txn, confirmed, aborted,
                 doubtful, errors, crashes>>

Applied ==
  /\ pc \in {"apply", "recover"} /\ todo = {}
  /\ pc' = IF pc = "apply" THEN "remove" ELSE "reclaim"
  /\ UNCHANGED <<files, stray, entries, journal, calls, txn, todo, confirmed,
                 aborted, doubtful, errors, crashes>>

(* An error while the files are replaced or the journal is deleted: the    *)
(* call returns the error and the committed journal stays for the next     *)
(* start.                                                                  *)
ApplyError ==
  /\ pc \in {"apply", "remove"} /\ errors < MaxErrors /\ errors' = errors + 1
  /\ doubtful' = doubtful \union {txn}
  /\ pc' = "idle" /\ txn' = 0 /\ todo' = {}
  /\ UNCHANGED <<files, stray, entries, journal, calls, confirmed, aborted,
                 crashes>>

(* RemoveAll deletes the files of the journal one by one, in the order the *)
(* directory lists them.                                                   *)
Remove ==
  /\ pc \in {"remove", "reclaim", "undo"} /\ journal[txn] # {}
  /\ \E f \in journal[txn] : journal' = [journal EXCEPT ![txn] = @ \ {f}]
  /\ UNCHANGED <<files, stray, entries, calls, pc, txn, todo, confirmed,
                 aborted, doubtful, errors, crashes>>

(* Fault: the call returns while its journal is still there.               *)
ReturnEarly ==
  /\ pc = "remove"
  /\ confirmed' = [t \in Files |-> IF t \in entries[txn] THEN txn ELSE confirmed[t]]
  /\ pc' = "idle" /\ txn' = 0
  /\ UNCHANGED <<files, stray, entries, journal, calls, todo, aborted,
                 doubtful, errors, crashes>>

Return ==
  /\ pc = "remove" /\ journal[txn] = {}
  /\ confirmed' = [t \in Files |-> IF t \in entries[txn] THEN txn ELSE confirmed[t]]
  /\ pc' = "idle" /\ txn' = 0
  /\ UNCHANGED <<files, stray, entries, journal, calls, todo, aborted, doubtful,
                 errors, crashes>>

-----------------------------------------------------------------------------
(* The start of the process: recoverAccountTransactions, then the scan of  *)
(* every account.                                                          *)

(* An error during a recovery is one as well: the start fails, and the     *)
(* next one finds what a crash would leave.                                *)
Crash ==
  /\ crashes < MaxCrashes /\ crashes' = crashes + 1
  /\ pc # "broken"
  /\ pc' = "boot" /\ txn' = 0 /\ todo' = {}
  /\ UNCHANGED <<files, stray, entries, journal, calls, confirmed, aborted,
                 doubtful, errors>>

Journals == {n \in Calls : journal[n] # {}}

(* Fault: a committed journal is thrown away as well.                      *)
DiscardAll ==
  /\ pc = "boot"
  /\ \E n \in Journals : journal' = [journal EXCEPT ![n] = {}]
  /\ UNCHANGED <<files, stray, entries, calls, pc, txn, todo, confirmed,
                 aborted, doubtful, errors, crashes>>

(* A journal without COMMIT is thrown away.                                *)
Discard ==
  /\ pc = "boot"
  /\ \E n \in Journals :
       /\ Commit \notin journal[n]
       /\ journal' = [journal EXCEPT ![n] = {}]
  /\ UNCHANGED <<files, stray, entries, calls, pc, txn, todo, confirmed,
                 aborted, doubtful, errors, crashes>>

(* A committed journal is applied: by its manifest when every file the     *)
(* manifest names is there, as a journal of an older version when there is *)
(* no manifest.  The names of the directories, and so the order, are       *)
(* random.                                                                 *)
Recover ==
  /\ pc = "boot"
  /\ \E n \in Journals :
       /\ Commit \in journal[n]
       /\ \/ /\ Manifest \in journal[n] /\ entries[n] \subseteq journal[n]
             /\ todo' = entries[n] /\ UNCHANGED stray
          \/ /\ Manifest \notin journal[n]
             /\ todo' = journal[n] \intersect AccountFiles
             /\ stray' = stray \union (journal[n] \intersect OtherFiles)
       /\ txn' = n
  /\ pc' = "recover"
  /\ UNCHANGED <<files, entries, journal, calls, confirmed, aborted, doubtful,
                 errors, crashes>>

Recovered ==
  /\ pc = "reclaim" /\ journal[txn] = {}
  /\ pc' = "boot" /\ txn' = 0
  /\ UNCHANGED <<files, stray, entries, journal, calls, todo, confirmed,
                 aborted, doubtful, errors, crashes>>

(* The store refuses to work (initErr): a file the manifest names is       *)
(* missing, or a file among the accounts is not one.                       *)
Refuse ==
  /\ pc = "boot"
  /\ \/ \E n \in Journals : /\ Markers \subseteq journal[n]
                            /\ ~ (entries[n] \subseteq journal[n])
     \/ Journals = {} /\ stray # {}
  /\ pc' = "broken"
  /\ UNCHANGED <<files, stray, entries, journal, calls, txn, todo, confirmed,
                 aborted, doubtful, errors, crashes>>

Booted ==
  /\ pc = "boot" /\ Journals = {} /\ stray = {}
  /\ pc' = "idle"
  /\ UNCHANGED <<files, stray, entries, journal, calls, txn, todo, confirmed,
                 aborted, doubtful, errors, crashes>>

Next ==
  \/ \E t \in Files : SaveFile(t)
  \/ \E T \in Transactions : Begin(T)
  \/ Stage \/ StageError \/ Aborted
  \/ Apply \/ Applied \/ ApplyError \/ Remove \/ Return
  \/ Crash \/ Discard \/ Recover \/ Recovered \/ Refuse \/ Booted

Spec == Init /\ [][Next]_vars

-----------------------------------------------------------------------------
(* Properties. *)

(* SaveGameState: guild and accounts fall together.  Whenever the World    *)
(* runs and the file system has not failed, a transaction has changed all  *)
(* its files or none of them, whatever crashes cut it or its recovery      *)
(* short.                                                                  *)
AllOrNothing ==
  pc = "idle" /\ errors = 0 =>
    \A n \in Calls :
      (\E t \in entries[n] : files[t] = n) => \A t \in entries[n] : files[t] >= n

(* What a call that returned without error wrote stays, or is replaced by  *)
(* a later call: neither a crash nor a recovery takes it back.             *)
ConfirmedSurvives == \A t \in Files : confirmed[t] <= files[t]

(* What is left of it when the file system fails: only a call that         *)
(* returned an error when its files may have changed takes the place of a  *)
(* newer save.                                                             *)
OnlyDoubtfulReplaces ==
  \A t \in Files : confirmed[t] <= files[t] \/ files[t] \in doubtful

(* A transaction that was refused and whose journal was thrown away is     *)
(* never seen, not even after a crash: the World has rolled its memory     *)
(* back.                                                                   *)
AbortedLeavesNothing == \A t \in Files : files[t] \notin aborted

(* DOCS/EMULATOR.md: the journal makes a transaction recoverable after a   *)
(* crash, so the store works again at the next start.                      *)
StartsAgain == pc # "broken"
=============================================================================
