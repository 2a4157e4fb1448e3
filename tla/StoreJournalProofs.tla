------------------------- MODULE StoreJournalProofs -------------------------
(***************************************************************************)
(* For any files, transactions, calls, errors and crashes: transactions    *)
(* are all or nothing while the file system does not fail, only a doubtful *)
(* call replaces a confirmed one, and what was thrown away never appears.  *)
(***************************************************************************)
EXTENDS StoreJournal, TLAPS

\* A number that no call has had yet leaves no trace.
Fresh ==
  /\ \A t \in Files : files[t] <= calls /\ confirmed[t] <= calls
  /\ \A n \in aborted \union doubtful : n <= calls
  /\ \A n \in Calls : n > calls => journal[n] = {} /\ entries[n] = {}

\* The transaction the process is at.  One that is a call is the newest call;
\* while it is staged no file has its contents.
Busy == pc \in {"stage", "undo", "apply", "remove", "recover", "reclaim"}

TxnKnown ==
  /\ Busy => txn \in Calls /\ txn <= calls
  /\ ~Busy => txn = 0
  /\ pc \in {"stage", "undo", "apply", "remove"} => txn = calls
  /\ pc \in {"stage", "undo"} => \A t \in Files : files[t] # txn
  /\ pc \in {"recover", "reclaim"} => txn \in doubtful \/ txn = calls

\* A journal that is there is that of a call whose outcome was left open, or
\* the newest, which is open yet.
LeftOver ==
  \A n \in Calls :
    journal[n] # {} => n \in doubtful \/ (n = calls /\ pc # "idle")

\* A call has replaced the files that are not in todo any more.
Replaced ==
  /\ pc = "apply" => \A t \in entries[txn] \ todo : files[t] = txn
  /\ pc = "remove" => \A t \in entries[txn] : files[t] = txn

\* Of what was refused and thrown away nothing is left.
AbortedGone ==
  \A n \in aborted : journal[n] = {} /\ n # txn /\ \A t \in Files : files[t] # n

NoneDone(n) == \A t \in entries[n] : files[t] # n
AllDone(n)  == \A t \in entries[n] : files[t] = n
Complete(n) == entries[n] \union Markers \subseteq journal[n]
Finished(n) == NoneDone(n) \/ \A t \in entries[n] : files[t] >= n

\* The newest call, while the process is at it or has crashed at it, goes one
\* way only: nothing done, then a complete journal, then everything done.
Newest(n) ==
  /\ pc = "stage" => NoneDone(n) /\ Commit \notin journal[n]
  /\ pc = "apply" => Complete(n)
  /\ pc \in {"remove", "reclaim"} => AllDone(n)
  /\ pc = "recover" =>
       AllDone(n) \/ (Complete(n) /\ \A t \in entries[n] \ todo : files[t] = n)
  /\ pc = "boot" =>
       AllDone(n) \/ Complete(n) \/ (NoneDone(n) /\ Commit \notin journal[n])

\* While the file system has not failed.
Whole ==
  errors = 0 =>
    /\ doubtful = {} /\ pc # "undo"
    /\ \A n \in Calls : n < calls \/ (n = calls /\ pc = "idle") => Finished(n)
    /\ calls # 0 => Newest(calls)

IInv ==
  /\ TypeOK
  /\ Fresh /\ TxnKnown /\ LeftOver /\ Replaced
  /\ AbortedGone /\ OnlyDoubtfulReplaces
  /\ Whole

-----------------------------------------------------------------------------

LEMMA Shape ==
  ASSUME TypeOK
  PROVE  /\ calls \in Nat /\ errors \in Nat /\ crashes \in Nat /\ txn \in Nat
         /\ calls <= MaxCalls /\ MaxCalls \in Nat /\ MaxErrors \in Nat
         /\ \A t \in Files : files[t] \in Nat /\ confirmed[t] \in Nat
         /\ \A n \in Calls : n \in Nat /\ n >= 1 /\ n <= MaxCalls
BY JournalAssumption DEF TypeOK, Calls

LEMMA InitIInv == Init => IInv
<1> SUFFICES ASSUME Init PROVE IInv
  OBVIOUS
<1>1. TypeOK
  BY JournalAssumption DEF Init, TypeOK
<1>2. Fresh /\ TxnKnown /\ LeftOver /\ Replaced /\ AbortedGone
  BY DEF Init, Fresh, TxnKnown, Busy, LeftOver, Replaced, AbortedGone, Calls
<1>3. OnlyDoubtfulReplaces
  BY DEF Init, OnlyDoubtfulReplaces
<1>4. Whole
  BY DEF Init, Whole, Finished, NoneDone, Calls
<1> QED
  BY <1>1, <1>2, <1>3, <1>4 DEF IInv

LEMMA SaveFileIInv ==
  ASSUME IInv, NEW t \in Files, SaveFile(t)
  PROVE  IInv'
<1>0. PICK new \in Nat : new = calls + 1
  BY Shape DEF IInv
<1>1. TypeOK /\ Fresh /\ TxnKnown /\ LeftOver /\ Replaced /\ AbortedGone
      /\ OnlyDoubtfulReplaces /\ Whole
  BY DEF IInv
<1>2. /\ pc = "idle" /\ pc' = pc /\ calls < MaxCalls /\ calls' = new
      /\ UNCHANGED <<stray, entries, journal, txn, todo, aborted, crashes>>
  BY <1>0 DEF SaveFile
<1>3. \/ /\ files' = [files EXCEPT ![t] = new]
         /\ confirmed' = [confirmed EXCEPT ![t] = new]
         /\ UNCHANGED <<doubtful, errors>>
      \/ /\ errors < MaxErrors /\ errors' = errors + 1
         /\ files' \in {files, [files EXCEPT ![t] = new]}
         /\ doubtful' = doubtful \union {new}
         /\ UNCHANGED confirmed
  BY <1>0 DEF SaveFile
<1>4. new \in Calls /\ new \in 0 .. MaxCalls /\ new > calls
  BY <1>0, <1>1, <1>2, Shape DEF Calls
<1>5. \A u \in Files : files'[u] = files[u] \/ files'[u] = new
  BY <1>1, <1>3 DEF TypeOK
<1>6. TypeOK'
  <2>1. errors' \in 0 .. MaxErrors
    BY <1>1, <1>3, Shape DEF TypeOK
  <2> QED
    BY <1>1, <1>2, <1>3, <1>4, <2>1 DEF TypeOK
<1>7. Fresh'
  <2>1. \A u \in Files : files'[u] <= new /\ confirmed'[u] <= new
    BY <1>1, <1>3, <1>4, <1>5, Shape DEF Fresh, TypeOK
  <2>2. \A n \in aborted' \union doubtful' : n <= new
    BY <1>1, <1>2, <1>3, <1>4, Shape DEF Fresh, TypeOK
  <2>3. \A n \in Calls : n > new => journal'[n] = {} /\ entries'[n] = {}
    <3>1. \A n \in Calls : n > new => n > calls
      BY <1>1, <1>4, Shape
    <3> QED
      BY <1>1, <1>2, <3>1 DEF Fresh
  <2> QED
    BY <1>2, <2>1, <2>2, <2>3 DEF Fresh
<1>8. TxnKnown' /\ Replaced'
  BY <1>1, <1>2 DEF TxnKnown, Busy, Replaced
<1>9. LeftOver'
  BY <1>1, <1>2, <1>3 DEF LeftOver
<1>10. AbortedGone'
  <2>1. \A n \in aborted : n # new
    BY <1>1, <1>4, Shape DEF Fresh, TypeOK
  <2> QED
    BY <1>1, <1>2, <1>5, <2>1 DEF AbortedGone
<1>11. OnlyDoubtfulReplaces'
  <2> SUFFICES ASSUME NEW u \in Files
               PROVE  confirmed'[u] <= files'[u] \/ files'[u] \in doubtful'
    BY DEF OnlyDoubtfulReplaces
  <2>1. confirmed[u] <= files[u] \/ files[u] \in doubtful
    BY <1>1 DEF OnlyDoubtfulReplaces
  <2>2. doubtful \subseteq doubtful'
    BY <1>3
  <2>3. CASE u # t
    BY <1>1, <1>3, <2>1, <2>2, <2>3 DEF TypeOK
  <2>4. CASE u = t
    BY <1>1, <1>3, <1>4, <2>1, <2>4 DEF TypeOK
  <2> QED
    BY <2>3, <2>4
<1>12. Whole'
  <2> SUFFICES ASSUME errors' = 0 PROVE Whole'
    BY DEF Whole
  <2>1. errors = 0 /\ doubtful' = doubtful
    BY <1>1, <1>3, Shape
  <2>2. \A n \in Calls : n <= calls => Finished(n)
    BY <1>1, <1>2, <2>1, Shape DEF Whole
  <2>3. \A n \in Calls : n <= calls => Finished(n)'
    <3> SUFFICES ASSUME NEW n \in Calls, n <= calls PROVE Finished(n)'
      OBVIOUS
    <3>1. NoneDone(n) \/ \A u \in entries[n] : files[u] >= n
      BY <2>2 DEF Finished
    <3>2. \A u \in entries[n] : u \in Files
      BY <1>1 DEF TypeOK
    <3>3. CASE NoneDone(n)
      BY <1>1, <1>2, <1>4, <1>5, <3>2, <3>3, Shape DEF Finished, NoneDone
    <3>4. CASE \A u \in entries[n] : files[u] >= n
      BY <1>1, <1>2, <1>4, <1>5, <3>2, <3>4, Shape DEF Finished
    <3> QED
      BY <3>1, <3>3, <3>4
  <2>4. entries'[new] = {}
    BY <1>1, <1>2, <1>4, Shape DEF Fresh
  <2>5. Finished(new)'
    BY <2>4 DEF Finished, NoneDone
  <2>6. \A n \in Calls : n <= calls' => Finished(n)'
    <3>1. \A n \in Calls : n <= new => n <= calls \/ n = new
      BY <1>0, <1>1, Shape
    <3> QED
      BY <1>2, <2>3, <2>5, <3>1
  <2>7. Newest(calls)'
    BY <1>2 DEF Newest
  <2> QED
    BY <1>1, <1>2, <1>4, <2>1, <2>6, <2>7, Shape DEF Whole
<1> QED
  BY <1>6, <1>7, <1>8, <1>9, <1>10, <1>11, <1>12 DEF IInv

LEMMA BeginIInv ==
  ASSUME IInv, NEW T \in Transactions, Begin(T)
  PROVE  IInv'
<1>0. PICK new \in Nat : new = calls + 1
  BY Shape DEF IInv
<1>1. TypeOK /\ Fresh /\ TxnKnown /\ LeftOver /\ Replaced /\ AbortedGone
      /\ OnlyDoubtfulReplaces /\ Whole
  BY DEF IInv
<1>2. /\ pc = "idle" /\ pc' = "stage" /\ calls < MaxCalls /\ calls' = new
      /\ txn' = new /\ entries' = [entries EXCEPT ![new] = T]
      /\ UNCHANGED <<files, stray, journal, todo, confirmed, aborted, doubtful,
                     errors, crashes>>
  BY <1>0 DEF Begin
<1>3. new \in Calls /\ new \in 0 .. MaxCalls /\ new > calls
  BY <1>0, <1>1, <1>2, Shape DEF Calls
<1>4. T \subseteq Files
  BY JournalAssumption
<1>5. \A t \in Files : files[t] # new /\ files[t] <= new /\ confirmed[t] <= new
  BY <1>1, <1>3, Shape DEF Fresh
<1>6. \A n \in aborted \union doubtful : n # new /\ n <= new
  BY <1>1, <1>3, Shape DEF Fresh, TypeOK
<1>7. journal[new] = {}
  BY <1>1, <1>3 DEF Fresh
<1>8. TypeOK'
  BY <1>1, <1>2, <1>3, <1>4 DEF TypeOK
<1>9. Fresh'
  <2>1. \A n \in Calls : n > new => n > calls /\ n # new
    BY <1>1, <1>3, Shape
  <2>2. \A n \in Calls : n > new => journal'[n] = {} /\ entries'[n] = {}
    BY <1>1, <1>2, <1>3, <2>1 DEF Fresh, TypeOK
  <2> QED
    BY <1>2, <1>5, <1>6, <2>2 DEF Fresh
<1>10. TxnKnown' /\ Replaced'
  BY <1>2, <1>3, <1>5 DEF TxnKnown, Busy, Replaced
<1>11. LeftOver'
  BY <1>1, <1>2 DEF LeftOver
<1>12. AbortedGone'
  BY <1>1, <1>2, <1>6 DEF AbortedGone
<1>13. OnlyDoubtfulReplaces'
  BY <1>1, <1>2 DEF OnlyDoubtfulReplaces
<1>14. Whole'
  <2> SUFFICES ASSUME errors' = 0 PROVE Whole'
    BY DEF Whole
  <2>1. \A n \in Calls : n < new => n <= calls /\ n # new
    BY <1>0, <1>1, Shape
  <2>2. \A n \in Calls : n <= calls => Finished(n)
    BY <1>1, <1>2, Shape DEF Whole
  <2>3. \A n \in Calls : n < new => Finished(n)'
    BY <1>1, <1>2, <1>3, <2>1, <2>2 DEF Finished, NoneDone, TypeOK
  <2>4. entries'[new] = T
    BY <1>1, <1>2, <1>3 DEF TypeOK
  <2>5. Newest(calls)'
    BY <1>2, <1>4, <1>5, <1>7, <2>4 DEF Newest, NoneDone
  <2> QED
    BY <1>1, <1>2, <2>3, <2>5 DEF Whole
<1> QED
  BY <1>8, <1>9, <1>10, <1>11, <1>12, <1>13, <1>14 DEF IInv

\* COMMIT is the last file of a journal.
LEMMA StagedFacts ==
  ASSUME NEW n \in Calls, NEW f \in Staged(n), TypeOK
  PROVE  /\ f \in Files \union Markers
         /\ f = Commit => entries[n] \union {Manifest} \subseteq journal[n]
<1>1. /\ Manifest # Commit /\ Commit \notin Files
      /\ entries[n] \subseteq Files
  BY JournalAssumption DEF Markers, TypeOK
<1>2. CASE entries[n] \ journal[n] # {}
  BY <1>1, <1>2 DEF Staged
<1>3. CASE entries[n] \ journal[n] = {}
  BY <1>1, <1>3 DEF Staged, Markers
<1> QED
  BY <1>2, <1>3

LEMMA StageIInv ==
  ASSUME IInv, Stage
  PROVE  IInv'
<1>1. TypeOK /\ Fresh /\ TxnKnown /\ LeftOver /\ Replaced /\ AbortedGone
      /\ OnlyDoubtfulReplaces /\ Whole
  BY DEF IInv
<1>2. PICK f \in Staged(txn) :
        /\ journal' = [journal EXCEPT ![txn] = @ \union {f}]
        /\ IF f = Commit THEN pc' = "apply" /\ todo' = entries[txn]
                         ELSE UNCHANGED <<pc, todo>>
  BY DEF Stage
<1>3. /\ pc = "stage"
      /\ UNCHANGED <<files, stray, entries, calls, txn, confirmed, aborted,
                     doubtful, errors, crashes>>
  BY DEF Stage
<1>4. txn \in Calls /\ txn = calls /\ \A t \in Files : files[t] # txn
  BY <1>1, <1>3 DEF TxnKnown, Busy
<1>5. /\ f \in Files \union Markers
      /\ f = Commit => entries[txn] \union {Manifest} \subseteq journal[txn]
  BY <1>1, <1>4, StagedFacts
<1>6. pc' \in {"stage", "apply"} /\ (pc' = "apply" <=> f = Commit)
  BY <1>2, <1>3
<1>7. TypeOK'
  <2>1. todo' \in SUBSET Files
    BY <1>1, <1>2, <1>4 DEF TypeOK
  <2> QED
    BY <1>1, <1>2, <1>3, <1>4, <1>5, <1>6, <2>1 DEF TypeOK
<1>8. Fresh'
  BY <1>1, <1>2, <1>3, <1>4, Shape DEF Fresh, TypeOK
<1>9. TxnKnown'
  BY <1>1, <1>3, <1>4, <1>6 DEF TxnKnown, Busy
<1>10. LeftOver'
  BY <1>1, <1>2, <1>3, <1>4, <1>6 DEF LeftOver, TypeOK
<1>11. Replaced'
  BY <1>2, <1>3, <1>6 DEF Replaced
<1>12. AbortedGone'
  BY <1>1, <1>2, <1>3, <1>4 DEF AbortedGone, TypeOK
<1>13. OnlyDoubtfulReplaces'
  BY <1>1, <1>3 DEF OnlyDoubtfulReplaces
<1>14. Whole'
  <2> SUFFICES ASSUME errors' = 0 PROVE Whole'
    BY DEF Whole
  <2>1. /\ doubtful = {} /\ Newest(calls)
        /\ \A n \in Calls : n < calls => Finished(n)
    BY <1>1, <1>3, <1>4, Shape DEF Whole
  <2>2. \A n \in Calls : n < calls => Finished(n)'
    BY <1>3, <2>1 DEF Finished, NoneDone
  <2>3. Newest(txn)'
    <3>1. journal'[txn] = journal[txn] \union {f}
      BY <1>1, <1>2, <1>4 DEF TypeOK
    <3>2. CASE f = Commit
      BY <1>3, <1>5, <1>6, <3>1, <3>2 DEF Newest, Complete, Markers
    <3>3. CASE f # Commit
      BY <1>3, <1>4, <1>6, <2>1, <3>1, <3>3 DEF Newest, NoneDone
    <3> QED
      BY <3>2, <3>3
  <2> QED
    BY <1>3, <1>4, <1>6, <2>1, <2>2, <2>3 DEF Whole
<1> QED
  BY <1>7, <1>8, <1>9, <1>10, <1>11, <1>12, <1>13, <1>14 DEF IInv

LEMMA StageErrorIInv ==
  ASSUME IInv, StageError
  PROVE  IInv'
<1>1. TypeOK /\ Fresh /\ TxnKnown /\ LeftOver /\ Replaced /\ AbortedGone
      /\ OnlyDoubtfulReplaces
  BY DEF IInv
<1>2. PICK F \in {{}} \union {{f} : f \in Staged(txn)} :
        journal' = [journal EXCEPT ![txn] = @ \union F]
  BY DEF StageError
<1>3. /\ pc = "stage" /\ pc' = "undo" /\ errors < MaxErrors
      /\ errors' = errors + 1
      /\ UNCHANGED <<files, stray, entries, calls, txn, todo, confirmed, aborted,
                     doubtful, crashes>>
  BY DEF StageError
<1>4. txn \in Calls /\ txn = calls
  BY <1>1, <1>3 DEF TxnKnown, Busy
<1>5. F \subseteq Files \union Markers
  BY <1>1, <1>4, StagedFacts
<1>6. TypeOK'
  <2>1. errors' \in 0 .. MaxErrors
    BY <1>1, <1>3, Shape
  <2> QED
    BY <1>1, <1>2, <1>3, <1>4, <1>5, <2>1 DEF TypeOK
<1>7. Fresh'
  BY <1>1, <1>2, <1>3, <1>4, Shape DEF Fresh, TypeOK
<1>8. TxnKnown' /\ Replaced'
  BY <1>1, <1>3 DEF TxnKnown, Busy, Replaced
<1>9. LeftOver'
  BY <1>1, <1>2, <1>3, <1>4 DEF LeftOver, TypeOK
<1>10. AbortedGone'
  BY <1>1, <1>2, <1>3, <1>4 DEF AbortedGone, TypeOK
<1>11. OnlyDoubtfulReplaces'
  BY <1>1, <1>3 DEF OnlyDoubtfulReplaces
<1>12. Whole'
  BY <1>1, <1>3, Shape DEF Whole
<1> QED
  BY <1>6, <1>7, <1>8, <1>9, <1>10, <1>11, <1>12 DEF IInv

LEMMA AbortedIInv ==
  ASSUME IInv, Aborted
  PROVE  IInv'
<1>1. TypeOK /\ Fresh /\ TxnKnown /\ LeftOver /\ Replaced /\ AbortedGone
      /\ OnlyDoubtfulReplaces /\ Whole
  BY DEF IInv
<1>2. /\ pc = "undo" /\ pc' = "idle" /\ txn' = 0
      /\ UNCHANGED <<files, stray, entries, journal, calls, todo, confirmed,
                     crashes>>
  BY DEF Aborted
<1>3. \/ /\ journal[txn] = {} /\ aborted' = aborted \union {txn}
         /\ UNCHANGED <<doubtful, errors>>
      \/ /\ errors < MaxErrors /\ errors' = errors + 1
         /\ doubtful' = doubtful \union {txn} /\ UNCHANGED aborted
  BY DEF Aborted
<1>4. txn \in Calls /\ txn = calls /\ \A t \in Files : files[t] # txn
  BY <1>1, <1>2 DEF TxnKnown, Busy
<1>5. TypeOK'
  <2>1. errors' \in 0 .. MaxErrors
    BY <1>1, <1>3, Shape DEF TypeOK
  <2>2. txn' \in 0 .. MaxCalls
    BY <1>1, <1>2, Shape
  <2> QED
    BY <1>1, <1>2, <1>3, <1>4, <2>1, <2>2 DEF TypeOK
<1>6. Fresh'
  BY <1>1, <1>2, <1>3, <1>4, Shape DEF Fresh
<1>7. TxnKnown' /\ Replaced'
  BY <1>2 DEF TxnKnown, Busy, Replaced
<1>8. LeftOver'
  BY <1>1, <1>2, <1>3, <1>4 DEF LeftOver
<1>9. AbortedGone'
  <2>1. \A n \in aborted : n # 0
    BY <1>1, Shape DEF TypeOK
  <2>2. txn # 0
    BY <1>1, <1>4, Shape
  <2> QED
    BY <1>1, <1>2, <1>3, <1>4, <2>1, <2>2 DEF AbortedGone
<1>10. OnlyDoubtfulReplaces'
  BY <1>1, <1>2, <1>3 DEF OnlyDoubtfulReplaces
<1>11. Whole'
  BY <1>1, <1>2, <1>3, Shape DEF Whole
<1> QED
  BY <1>5, <1>6, <1>7, <1>8, <1>9, <1>10, <1>11 DEF IInv

LEMMA ApplyIInv ==
  ASSUME IInv, Apply
  PROVE  IInv'
<1>1. TypeOK /\ Fresh /\ TxnKnown /\ LeftOver /\ Replaced /\ AbortedGone
      /\ OnlyDoubtfulReplaces /\ Whole
  BY DEF IInv
<1>2. PICK t \in todo : files' = [files EXCEPT ![t] = txn] /\ todo' = todo \ {t}
  BY DEF Apply
<1>3. /\ pc \in {"apply", "recover"}
      /\ UNCHANGED <<stray, entries, journal, calls, pc, txn, confirmed, aborted,
                     doubtful, errors, crashes>>
  BY DEF Apply
<1>4. txn \in Calls /\ txn <= calls /\ (txn \in doubtful \/ txn = calls)
  BY <1>1, <1>3 DEF TxnKnown, Busy
<1>5. t \in Files /\ txn \in 0 .. MaxCalls
  BY <1>1, <1>2 DEF TypeOK
<1>6. files'[t] = txn /\ \A u \in Files : u # t => files'[u] = files[u]
  BY <1>1, <1>2, <1>5 DEF TypeOK
<1>7. TypeOK'
  BY <1>1, <1>2, <1>3, <1>5 DEF TypeOK
<1>8. Fresh'
  BY <1>1, <1>3, <1>4, <1>6 DEF Fresh
<1>9. TxnKnown' /\ LeftOver'
  BY <1>1, <1>3 DEF TxnKnown, Busy, LeftOver
<1>10. Replaced'
  <2>1. \A u \in entries[txn] : u \in Files
    BY <1>1, <1>4 DEF TypeOK
  <2> QED
    BY <1>1, <1>2, <1>3, <1>6, <2>1 DEF Replaced
<1>11. AbortedGone'
  BY <1>1, <1>3, <1>6 DEF AbortedGone
<1>12. OnlyDoubtfulReplaces'
  BY <1>1, <1>3, <1>4, <1>6 DEF OnlyDoubtfulReplaces, Fresh
<1>13. Whole'
  <2> SUFFICES ASSUME errors' = 0 PROVE Whole'
    BY DEF Whole
  <2>1. /\ errors = 0 /\ doubtful = {} /\ Newest(calls)
        /\ \A n \in Calls : n < calls => Finished(n)
    BY <1>1, <1>3, <1>4, Shape DEF Whole
  <2>2. txn = calls
    BY <1>4, <2>1
  <2>3. \A n \in Calls : n < calls => Finished(n)'
    <3> SUFFICES ASSUME NEW n \in Calls, n < calls PROVE Finished(n)'
      OBVIOUS
    <3>1. \A u \in entries[n] : u \in Files
      BY <1>1 DEF TypeOK
    <3>2. n # txn /\ n <= txn
      BY <1>1, <2>2, Shape
    <3>3. CASE NoneDone(n)
      BY <1>3, <1>6, <3>1, <3>2, <3>3 DEF Finished, NoneDone
    <3>4. CASE \A u \in entries[n] : files[u] >= n
      BY <1>3, <1>6, <3>1, <3>2, <3>4 DEF Finished
    <3> QED
      BY <2>1, <3>3, <3>4 DEF Finished
  <2>4. Newest(txn)'
    <3>1. \A u \in entries[txn] : u \in Files
      BY <1>1, <1>4 DEF TypeOK
    <3>2. CASE pc = "apply"
      BY <1>3, <2>1, <2>2, <3>2 DEF Newest, Complete
    <3>3. CASE pc = "recover"
      <4>1. AllDone(txn) => AllDone(txn)'
        BY <1>3, <1>6, <3>1 DEF AllDone
      <4>2. (\A u \in entries[txn] \ todo : files[u] = txn)
              => \A u \in entries[txn] \ todo' : files'[u] = txn
        BY <1>2, <1>6, <3>1
      <4> QED
        BY <1>3, <2>1, <2>2, <3>3, <4>1, <4>2 DEF Newest, Complete
    <3> QED
      BY <1>3, <3>2, <3>3
  <2> QED
    BY <1>3, <2>1, <2>2, <2>3, <2>4 DEF Whole
<1> QED
  BY <1>7, <1>8, <1>9, <1>10, <1>11, <1>12, <1>13 DEF IInv

LEMMA AppliedIInv ==
  ASSUME IInv, Applied
  PROVE  IInv'
<1>1. TypeOK /\ Fresh /\ TxnKnown /\ LeftOver /\ Replaced /\ AbortedGone
      /\ OnlyDoubtfulReplaces /\ Whole
  BY DEF IInv
<1>2. /\ pc \in {"apply", "recover"} /\ todo = {}
      /\ pc' = (IF pc = "apply" THEN "remove" ELSE "reclaim")
      /\ UNCHANGED <<files, stray, entries, journal, calls, txn, todo, confirmed,
                     aborted, doubtful, errors, crashes>>
  BY DEF Applied
<1>3. (pc = "apply" /\ pc' = "remove") \/ (pc = "recover" /\ pc' = "reclaim")
  BY <1>2
<1>4. TypeOK'
  BY <1>1, <1>2, <1>3 DEF TypeOK
<1>5. Fresh' /\ LeftOver' /\ AbortedGone' /\ OnlyDoubtfulReplaces'
  BY <1>1, <1>2, <1>3 DEF Fresh, LeftOver, AbortedGone, OnlyDoubtfulReplaces
<1>6. TxnKnown'
  BY <1>1, <1>2, <1>3 DEF TxnKnown, Busy
<1>7. Replaced'
  BY <1>1, <1>2, <1>3 DEF Replaced
<1>8. Whole'
  <2> SUFFICES ASSUME errors' = 0 PROVE Whole'
    BY DEF Whole
  <2>1. /\ errors = 0 /\ doubtful = {} /\ txn = calls /\ Newest(calls)
        /\ \A n \in Calls : n < calls => Finished(n)
    BY <1>1, <1>2, Shape DEF Whole, TxnKnown, Busy
  <2>2. \A n \in Calls : n < calls => Finished(n)'
    BY <1>2, <2>1 DEF Finished, NoneDone
  <2>3. AllDone(txn)
    BY <1>1, <1>2, <2>1 DEF Newest, AllDone, Replaced
  <2>4. Newest(txn)'
    BY <1>2, <1>3, <2>3 DEF Newest, AllDone
  <2> QED
    BY <1>2, <1>3, <2>1, <2>2, <2>4 DEF Whole
<1> QED
  BY <1>4, <1>5, <1>6, <1>7, <1>8 DEF IInv

LEMMA ApplyErrorIInv ==
  ASSUME IInv, ApplyError
  PROVE  IInv'
<1>1. TypeOK /\ Fresh /\ TxnKnown /\ LeftOver /\ Replaced /\ AbortedGone
      /\ OnlyDoubtfulReplaces /\ Whole
  BY DEF IInv
<1>2. /\ pc \in {"apply", "remove"} /\ pc' = "idle" /\ txn' = 0 /\ todo' = {}
      /\ errors < MaxErrors /\ errors' = errors + 1
      /\ doubtful' = doubtful \union {txn}
      /\ UNCHANGED <<files, stray, entries, journal, calls, confirmed, aborted,
                     crashes>>
  BY DEF ApplyError
<1>3. txn \in Calls /\ txn = calls
  BY <1>1, <1>2 DEF TxnKnown, Busy
<1>4. TypeOK'
  <2>1. errors' \in 0 .. MaxErrors /\ txn' \in 0 .. MaxCalls
    BY <1>1, <1>2, Shape
  <2> QED
    BY <1>1, <1>2, <1>3, <2>1 DEF TypeOK
<1>5. Fresh'
  BY <1>1, <1>2, <1>3, Shape DEF Fresh
<1>6. TxnKnown' /\ Replaced'
  BY <1>2 DEF TxnKnown, Busy, Replaced
<1>7. LeftOver' /\ OnlyDoubtfulReplaces'
  BY <1>1, <1>2, <1>3 DEF LeftOver, OnlyDoubtfulReplaces
<1>8. AbortedGone'
  <2>1. \A n \in aborted : n # 0
    BY <1>1, Shape DEF TypeOK
  <2> QED
    BY <1>1, <1>2, <2>1 DEF AbortedGone
<1>9. Whole'
  BY <1>1, <1>2, Shape DEF Whole
<1> QED
  BY <1>4, <1>5, <1>6, <1>7, <1>8, <1>9 DEF IInv

LEMMA RemoveIInv ==
  ASSUME IInv, Remove
  PROVE  IInv'
<1>1. TypeOK /\ Fresh /\ TxnKnown /\ LeftOver /\ Replaced /\ AbortedGone
      /\ OnlyDoubtfulReplaces /\ Whole
  BY DEF IInv
<1>2. PICK f \in journal[txn] : journal' = [journal EXCEPT ![txn] = @ \ {f}]
  BY DEF Remove
<1>3. /\ pc \in {"remove", "reclaim", "undo"}
      /\ UNCHANGED <<files, stray, entries, calls, pc, txn, todo, confirmed,
                     aborted, doubtful, errors, crashes>>
  BY DEF Remove
<1>4. txn \in Calls
  BY <1>1, <1>3 DEF TxnKnown, Busy
<1>5. \A n \in Calls : journal'[n] \subseteq journal[n]
  BY <1>1, <1>2, <1>4 DEF TypeOK
<1>6. TypeOK'
  BY <1>1, <1>2, <1>3, <1>4 DEF TypeOK
<1>7. Fresh' /\ LeftOver'
  BY <1>1, <1>3, <1>5 DEF Fresh, LeftOver
<1>8. TxnKnown' /\ Replaced' /\ OnlyDoubtfulReplaces'
  BY <1>1, <1>3 DEF TxnKnown, Busy, Replaced, OnlyDoubtfulReplaces
<1>9. AbortedGone'
  BY <1>1, <1>3, <1>5 DEF AbortedGone, TypeOK
<1>10. Whole'
  BY <1>1, <1>3 DEF Whole, Finished, NoneDone, Newest, AllDone
<1> QED
  BY <1>6, <1>7, <1>8, <1>9, <1>10 DEF IInv

LEMMA ReturnIInv ==
  ASSUME IInv, Return
  PROVE  IInv'
<1>1. TypeOK /\ Fresh /\ TxnKnown /\ LeftOver /\ Replaced /\ AbortedGone
      /\ OnlyDoubtfulReplaces /\ Whole
  BY DEF IInv
<1>2. /\ pc = "remove" /\ journal[txn] = {} /\ pc' = "idle" /\ txn' = 0
      /\ confirmed' = [t \in Files |-> IF t \in entries[txn] THEN txn
                                       ELSE confirmed[t]]
      /\ UNCHANGED <<files, stray, entries, journal, calls, todo, aborted,
                     doubtful, errors, crashes>>
  BY DEF Return
<1>3. /\ txn \in Calls /\ txn = calls /\ txn \in 0 .. MaxCalls
      /\ \A t \in entries[txn] : files[t] = txn
  BY <1>1, <1>2 DEF TxnKnown, Busy, Replaced, TypeOK
<1>4. TypeOK'
  <2>1. 0 \in 0 .. MaxCalls
    BY <1>1, Shape
  <2> QED
    BY <1>1, <1>2, <1>3, <2>1 DEF TypeOK
<1>5. Fresh'
  BY <1>1, <1>2, <1>3, Shape DEF Fresh
<1>6. TxnKnown' /\ Replaced'
  BY <1>2 DEF TxnKnown, Busy, Replaced
<1>7. LeftOver'
  BY <1>1, <1>2, <1>3 DEF LeftOver
<1>8. AbortedGone'
  <2>1. \A n \in aborted : n # 0
    BY <1>1, Shape DEF TypeOK
  <2> QED
    BY <1>1, <1>2, <2>1 DEF AbortedGone
<1>9. OnlyDoubtfulReplaces'
  BY <1>1, <1>2, <1>3, Shape DEF OnlyDoubtfulReplaces
<1>10. Whole'
  <2> SUFFICES ASSUME errors' = 0 PROVE Whole'
    BY DEF Whole
  <2>1. /\ errors = 0 /\ doubtful = {}
        /\ \A n \in Calls : n < calls => Finished(n)
    BY <1>1, <1>2, Shape DEF Whole
  <2>2. Finished(txn)
    BY <1>1, <1>3, Shape DEF Finished
  <2>3. \A n \in Calls : n < calls \/ n = calls => Finished(n)'
    BY <1>2, <1>3, <2>1, <2>2 DEF Finished, NoneDone
  <2>4. Newest(calls)'
    BY <1>2 DEF Newest
  <2> QED
    BY <1>2, <2>1, <2>3, <2>4 DEF Whole
<1> QED
  BY <1>4, <1>5, <1>6, <1>7, <1>8, <1>9, <1>10 DEF IInv

LEMMA CrashIInv ==
  ASSUME IInv, Crash
  PROVE  IInv'
<1>1. TypeOK /\ Fresh /\ TxnKnown /\ LeftOver /\ Replaced /\ AbortedGone
      /\ OnlyDoubtfulReplaces /\ Whole
  BY DEF IInv
<1>2. /\ pc # "broken" /\ pc' = "boot" /\ txn' = 0 /\ todo' = {}
      /\ crashes < MaxCrashes /\ crashes' = crashes + 1
      /\ UNCHANGED <<files, stray, entries, journal, calls, confirmed, aborted,
                     doubtful, errors>>
  BY DEF Crash
<1>3. TypeOK'
  <2>1. crashes' \in 0 .. MaxCrashes /\ txn' \in 0 .. MaxCalls
    BY <1>1, <1>2, Shape, JournalAssumption
  <2> QED
    BY <1>1, <1>2, <2>1 DEF TypeOK
<1>4. Fresh' /\ LeftOver' /\ OnlyDoubtfulReplaces'
  BY <1>1, <1>2 DEF Fresh, LeftOver, OnlyDoubtfulReplaces
<1>5. TxnKnown' /\ Replaced'
  BY <1>2 DEF TxnKnown, Busy, Replaced
<1>6. AbortedGone'
  <2>1. \A n \in aborted : n # 0
    BY <1>1, Shape DEF TypeOK
  <2> QED
    BY <1>1, <1>2, <2>1 DEF AbortedGone
<1>7. Whole'
  <2> SUFFICES ASSUME errors' = 0 PROVE Whole'
    BY DEF Whole
  <2>1. /\ doubtful = {} /\ pc # "undo" /\ (calls # 0 => Newest(calls))
        /\ \A n \in Calls : n < calls \/ (n = calls /\ pc = "idle") => Finished(n)
    BY <1>1, <1>2 DEF Whole
  <2>2. \A n \in Calls : n < calls => Finished(n)'
    BY <1>2, <2>1 DEF Finished, NoneDone
  <2>3. ASSUME calls # 0
        PROVE  AllDone(calls) \/ Complete(calls)
                 \/ (NoneDone(calls) /\ Commit \notin journal[calls])
    <3>1. calls \in Calls
      BY <1>1, <2>3, Shape DEF Calls
    <3>2. CASE pc = "idle"
      <4>1. Finished(calls)
        BY <2>1, <3>1, <3>2
      <4>2. journal[calls] = {}
        BY <1>1, <2>1, <3>1, <3>2 DEF LeftOver
      <4>3. \A t \in entries[calls] : t \in Files /\ files[t] <= calls
        BY <1>1, <3>1 DEF Fresh, TypeOK
      <4> QED
        BY <1>1, <4>1, <4>2, <4>3, Shape DEF Finished, AllDone
    <3>3. CASE pc # "idle"
      <4>1. pc \in {"stage", "apply", "remove", "boot", "recover", "reclaim"}
        BY <1>1, <1>2, <2>1, <3>3 DEF TypeOK
      <4> QED
        BY <2>1, <2>3, <4>1 DEF Newest
    <3> QED
      BY <3>2, <3>3
  <2>4. calls # 0 => Newest(calls)'
    BY <1>2, <2>3 DEF Newest, AllDone, Complete, NoneDone
  <2> QED
    BY <1>2, <2>1, <2>2, <2>4 DEF Whole
<1> QED
  BY <1>3, <1>4, <1>5, <1>6, <1>7 DEF IInv

LEMMA DiscardIInv ==
  ASSUME IInv, Discard
  PROVE  IInv'
<1>1. TypeOK /\ Fresh /\ TxnKnown /\ LeftOver /\ Replaced /\ AbortedGone
      /\ OnlyDoubtfulReplaces /\ Whole
  BY DEF IInv
<1>2. PICK n \in Journals : /\ Commit \notin journal[n]
                            /\ journal' = [journal EXCEPT ![n] = {}]
  BY DEF Discard
<1>3. /\ pc = "boot"
      /\ UNCHANGED <<files, stray, entries, calls, pc, txn, todo, confirmed,
                     aborted, doubtful, errors, crashes>>
  BY DEF Discard
<1>4. n \in Calls
  BY DEF Journals
<1>5. \A k \in Calls : journal'[k] = {} \/ (k # n /\ journal'[k] = journal[k])
  BY <1>1, <1>2, <1>4 DEF TypeOK
<1>6. TypeOK'
  BY <1>1, <1>2, <1>3, <1>4 DEF TypeOK
<1>7. Fresh' /\ LeftOver'
  BY <1>1, <1>3, <1>5 DEF Fresh, LeftOver
<1>8. TxnKnown' /\ Replaced' /\ OnlyDoubtfulReplaces'
  BY <1>1, <1>3 DEF TxnKnown, Busy, Replaced, OnlyDoubtfulReplaces
<1>9. AbortedGone'
  BY <1>1, <1>3, <1>5 DEF AbortedGone, TypeOK
<1>10. Whole'
  <2> SUFFICES ASSUME errors' = 0 PROVE Whole'
    BY DEF Whole
  <2>1. /\ doubtful = {} /\ (calls # 0 => Newest(calls))
        /\ \A k \in Calls : k < calls => Finished(k)
    BY <1>1, <1>3 DEF Whole
  <2>2. \A k \in Calls : k < calls => Finished(k)'
    BY <1>3, <2>1 DEF Finished, NoneDone
  <2>3. ASSUME calls # 0
        PROVE  AllDone(calls) \/ (NoneDone(calls) /\ Commit \notin journal'[calls])
                 \/ Complete(calls)'
    <3>1. calls \in Calls
      BY <1>1, <2>3, Shape DEF Calls
    <3>2. Complete(calls) => Commit \in journal[calls]
      BY DEF Complete, Markers
    <3>3. n = calls
      BY <1>1, <1>4, <2>1 DEF LeftOver, Journals
    <3> QED
      BY <1>2, <1>3, <1>5, <2>1, <2>3, <3>1, <3>2, <3>3 DEF Newest
  <2>4. calls # 0 => Newest(calls)'
    BY <1>3, <2>3 DEF Newest, AllDone, NoneDone, Complete
  <2> QED
    BY <1>3, <2>1, <2>2, <2>4 DEF Whole
<1> QED
  BY <1>6, <1>7, <1>8, <1>9, <1>10 DEF IInv

LEMMA RecoverIInv ==
  ASSUME IInv, Recover
  PROVE  IInv'
<1>1. TypeOK /\ Fresh /\ TxnKnown /\ LeftOver /\ Replaced /\ AbortedGone
      /\ OnlyDoubtfulReplaces /\ Whole
  BY DEF IInv
<1>2. PICK n \in Journals :
        /\ Commit \in journal[n] /\ txn' = n
        /\ \/ /\ Manifest \in journal[n] /\ entries[n] \subseteq journal[n]
              /\ todo' = entries[n] /\ UNCHANGED stray
           \/ /\ Manifest \notin journal[n]
              /\ todo' = journal[n] \intersect AccountFiles
              /\ stray' = stray \union (journal[n] \intersect OtherFiles)
  BY DEF Recover
<1>3. /\ pc = "boot" /\ pc' = "recover"
      /\ UNCHANGED <<files, entries, journal, calls, confirmed, aborted,
                     doubtful, errors, crashes>>
  BY DEF Recover
<1>4. n \in Calls /\ journal[n] # {} /\ n \in 0 .. MaxCalls
  BY <1>1, Shape DEF Journals
<1>5. n <= calls /\ (n \in doubtful \/ n = calls)
  <2>1. ~ (n > calls)
    BY <1>1, <1>4 DEF Fresh
  <2> QED
    BY <1>1, <1>4, <2>1, Shape DEF LeftOver
<1>6. TypeOK'
  <2>1. todo' \in SUBSET Files /\ stray' \in SUBSET OtherFiles
    BY <1>1, <1>2, <1>4 DEF TypeOK, Files
  <2> QED
    BY <1>1, <1>2, <1>3, <1>4, <2>1 DEF TypeOK
<1>7. Fresh' /\ LeftOver' /\ OnlyDoubtfulReplaces'
  BY <1>1, <1>3 DEF Fresh, LeftOver, OnlyDoubtfulReplaces
<1>8. TxnKnown' /\ Replaced'
  BY <1>2, <1>3, <1>4, <1>5 DEF TxnKnown, Busy, Replaced
<1>9. AbortedGone'
  BY <1>1, <1>2, <1>3, <1>4 DEF AbortedGone
<1>10. Whole'
  <2> SUFFICES ASSUME errors' = 0 PROVE Whole'
    BY DEF Whole
  <2>1. /\ doubtful = {} /\ (calls # 0 => Newest(calls))
        /\ \A k \in Calls : k < calls => Finished(k)
    BY <1>1, <1>3 DEF Whole
  <2>2. \A k \in Calls : k < calls => Finished(k)'
    BY <1>3, <2>1 DEF Finished, NoneDone
  <2>3. n = calls /\ n # 0
    BY <1>1, <1>4, <1>5, <2>1, Shape
  <2>4. AllDone(n) \/ Complete(n)
    BY <1>2, <1>3, <2>1, <2>3 DEF Newest
  <2>5. Complete(n) => todo' = entries[n]
    BY <1>2 DEF Complete, Markers
  <2>6. Newest(n)'
    BY <1>3, <2>4, <2>5 DEF Newest, AllDone, Complete
  <2> QED
    BY <1>3, <2>1, <2>2, <2>3, <2>6 DEF Whole
<1> QED
  BY <1>6, <1>7, <1>8, <1>9, <1>10 DEF IInv

LEMMA RecoveredIInv ==
  ASSUME IInv, Recovered
  PROVE  IInv'
<1>1. TypeOK /\ Fresh /\ TxnKnown /\ LeftOver /\ Replaced /\ AbortedGone
      /\ OnlyDoubtfulReplaces /\ Whole
  BY DEF IInv
<1>2. /\ pc = "reclaim" /\ journal[txn] = {} /\ pc' = "boot" /\ txn' = 0
      /\ UNCHANGED <<files, stray, entries, journal, calls, todo, confirmed,
                     aborted, doubtful, errors, crashes>>
  BY DEF Recovered
<1>3. TypeOK'
  <2>1. 0 \in 0 .. MaxCalls
    BY <1>1, Shape
  <2> QED
    BY <1>1, <1>2, <2>1 DEF TypeOK
<1>4. Fresh' /\ LeftOver' /\ OnlyDoubtfulReplaces'
  BY <1>1, <1>2 DEF Fresh, LeftOver, OnlyDoubtfulReplaces
<1>5. TxnKnown' /\ Replaced'
  BY <1>2 DEF TxnKnown, Busy, Replaced
<1>6. AbortedGone'
  <2>1. \A n \in aborted : n # 0
    BY <1>1, Shape DEF TypeOK
  <2> QED
    BY <1>1, <1>2, <2>1 DEF AbortedGone
<1>7. Whole'
  BY <1>1, <1>2 DEF Whole, Finished, NoneDone, Newest, AllDone
<1> QED
  BY <1>3, <1>4, <1>5, <1>6, <1>7 DEF IInv

LEMMA RefuseIInv ==
  ASSUME IInv, Refuse
  PROVE  IInv'
<1>1. TypeOK /\ Fresh /\ TxnKnown /\ LeftOver /\ Replaced /\ AbortedGone
      /\ OnlyDoubtfulReplaces /\ Whole
  BY DEF IInv
<1>2. /\ pc = "boot" /\ pc' = "broken"
      /\ UNCHANGED <<files, stray, entries, journal, calls, txn, todo, confirmed,
                     aborted, doubtful, errors, crashes>>
  BY DEF Refuse
<1>3. TypeOK' /\ Fresh' /\ LeftOver' /\ OnlyDoubtfulReplaces' /\ AbortedGone'
  BY <1>1, <1>2 DEF TypeOK, Fresh, LeftOver, OnlyDoubtfulReplaces, AbortedGone
<1>4. TxnKnown' /\ Replaced'
  BY <1>1, <1>2 DEF TxnKnown, Busy, Replaced
<1>5. Whole'
  BY <1>1, <1>2 DEF Whole, Finished, NoneDone, Newest
<1> QED
  BY <1>3, <1>4, <1>5 DEF IInv

LEMMA BootedIInv ==
  ASSUME IInv, Booted
  PROVE  IInv'
<1>1. TypeOK /\ Fresh /\ TxnKnown /\ LeftOver /\ Replaced /\ AbortedGone
      /\ OnlyDoubtfulReplaces /\ Whole
  BY DEF IInv
<1>2. /\ pc = "boot" /\ pc' = "idle" /\ Journals = {}
      /\ UNCHANGED <<files, stray, entries, journal, calls, txn, todo, confirmed,
                     aborted, doubtful, errors, crashes>>
  BY DEF Booted
<1>3. \A n \in Calls : journal[n] = {}
  BY <1>2 DEF Journals
<1>4. TypeOK' /\ Fresh' /\ LeftOver' /\ OnlyDoubtfulReplaces' /\ AbortedGone'
  BY <1>1, <1>2, <1>3 DEF TypeOK, Fresh, LeftOver, OnlyDoubtfulReplaces,
    AbortedGone
<1>5. TxnKnown' /\ Replaced'
  BY <1>1, <1>2 DEF TxnKnown, Busy, Replaced
<1>6. Whole'
  <2> SUFFICES ASSUME errors' = 0 PROVE Whole'
    BY DEF Whole
  <2>1. /\ doubtful = {} /\ (calls # 0 => Newest(calls))
        /\ \A n \in Calls : n < calls => Finished(n)
    BY <1>1, <1>2 DEF Whole
  <2>2. calls \in Calls => Finished(calls)
    <3> SUFFICES ASSUME calls \in Calls PROVE Finished(calls)
      OBVIOUS
    <3>1. calls # 0 /\ ~Complete(calls)
      BY <1>1, <1>3, Shape DEF Complete, Markers
    <3>2. AllDone(calls) \/ NoneDone(calls)
      BY <1>2, <2>1, <3>1 DEF Newest
    <3> QED
      BY <1>1, <3>2, Shape DEF Finished, AllDone
  <2>3. \A n \in Calls : n < calls \/ n = calls => Finished(n)'
    BY <1>2, <2>1, <2>2 DEF Finished, NoneDone
  <2>4. Newest(calls)'
    BY <1>2 DEF Newest
  <2> QED
    BY <1>2, <2>1, <2>3, <2>4 DEF Whole
<1> QED
  BY <1>4, <1>5, <1>6 DEF IInv

LEMMA StutterIInv ==
  ASSUME IInv, UNCHANGED vars
  PROVE  IInv'
<1>1. TypeOK /\ Fresh /\ TxnKnown /\ LeftOver /\ Replaced /\ AbortedGone
      /\ OnlyDoubtfulReplaces /\ Whole
  BY DEF IInv
<1>2. TypeOK' /\ Fresh' /\ LeftOver' /\ OnlyDoubtfulReplaces' /\ AbortedGone'
  BY <1>1 DEF vars, TypeOK, Fresh, LeftOver, OnlyDoubtfulReplaces, AbortedGone
<1>3. TxnKnown' /\ Replaced'
  BY <1>1 DEF vars, TxnKnown, Busy, Replaced
<1>4. Whole'
  BY <1>1 DEF vars, Whole, Finished, NoneDone, Newest, AllDone, Complete
<1> QED
  BY <1>2, <1>3, <1>4 DEF IInv

-----------------------------------------------------------------------------

\* The invariant holds in every state.
THEOREM SpecIInv == Spec => []IInv
<1>1. IInv /\ [Next]_vars => IInv'
  <2> SUFFICES ASSUME IInv, [Next]_vars PROVE IInv'
    OBVIOUS
  <2>1. ASSUME NEW t \in Files, SaveFile(t) PROVE IInv'
    BY <2>1, SaveFileIInv
  <2>2. ASSUME NEW T \in Transactions, Begin(T) PROVE IInv'
    BY <2>2, BeginIInv
  <2>3. CASE Stage \/ StageError \/ Aborted
    BY <2>3, StageIInv, StageErrorIInv, AbortedIInv
  <2>4. CASE Apply \/ Applied \/ ApplyError \/ Remove \/ Return
    BY <2>4, ApplyIInv, AppliedIInv, ApplyErrorIInv, RemoveIInv, ReturnIInv
  <2>5. CASE Crash \/ Discard \/ Recover \/ Recovered \/ Refuse \/ Booted
    BY <2>5, CrashIInv, DiscardIInv, RecoverIInv, RecoveredIInv, RefuseIInv,
      BootedIInv
  <2>6. CASE UNCHANGED vars
    BY <2>6, StutterIInv
  <2> QED
    BY <2>1, <2>2, <2>3, <2>4, <2>5, <2>6 DEF Next
<1> QED
  BY <1>1, InitIInv, PTL DEF Spec

\* Every variable has its type.
THEOREM TypeCorrect == Spec => []TypeOK
<1>1. IInv => TypeOK
  BY DEF IInv
<1> QED
  BY <1>1, SpecIInv, PTL

\* While the file system does not fail, whenever the World runs a transaction
\* of SaveGameState has changed all its files or none of them.
THEOREM TransactionsAreAtomic == Spec => []AllOrNothing
<1>1. IInv => AllOrNothing
  <2> SUFFICES ASSUME IInv, pc = "idle", errors = 0, NEW n \in Calls,
                      NEW t \in entries[n], files[t] = n
               PROVE  \A u \in entries[n] : files[u] >= n
    BY DEF AllOrNothing
  <2>1. ~ (n > calls)
    BY DEF IInv, Fresh
  <2>2. n < calls \/ n = calls
    BY <2>1, Shape DEF IInv
  <2>3. Finished(n)
    BY <2>2 DEF IInv, Whole
  <2> QED
    BY <2>3 DEF Finished, NoneDone
<1> QED
  BY <1>1, SpecIInv, PTL

\* Only a call that failed when its files may have changed ever takes the
\* place of a save that was confirmed, through crashes and recoveries.
THEOREM ConfirmedReplacedOnlyByDoubtful == Spec => []OnlyDoubtfulReplaces
<1>1. IInv => OnlyDoubtfulReplaces
  BY DEF IInv
<1> QED
  BY <1>1, SpecIInv, PTL

\* A transaction whose journal was thrown away is never applied.
THEOREM RefusedStaysAway == Spec => []AbortedLeavesNothing
<1>1. IInv => AbortedLeavesNothing
  BY DEF IInv, AbortedGone, AbortedLeavesNothing
<1> QED
  BY <1>1, SpecIInv, PTL

=============================================================================
