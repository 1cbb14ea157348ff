--------------------- MODULE VocabServerRequestsProofs ---------------------
(***************************************************************************)
(* Proofs about VocabServerRequests, for every set of devices and changes, *)
(* every number of backups kept and every bound: its types, that a         *)
(* revision once acknowledged names one file, that a backup holds what was *)
(* held at its revision, and that the newest backups are the ones kept     *)
(* while revisions have one digit.                                         *)
(***************************************************************************)
EXTENDS VocabServerRequests, FiniteSetTheorems, TLAPS

-----------------------------------------------------------------------------
(* Operators of VocabServer                                                *)

\* Pruning backups only ever removes some.
LEMMA LastByNameIsSubset ==
  ASSUME NEW B, NEW k
  PROVE  LastByName(B, k) \subseteq B
BY DEF LastByName

\* _cleanup_old_backups writes no backup.
LEMMA CleanedUpIsSubset ==
  ASSUME NEW B
  PROVE  CleanedUp(B) \subseteq B
BY LastByNameIsSubset DEF CleanedUp

\* The revision in force is the one in vocab_meta.json, even where
\* _read_vocab_data does not look at it.
LEMMA CurrentRevIsServerRev ==
  ASSUME ServerTypeOK
  PROVE  CurrentRev = serverRev /\ CurrentRev \in Nat
BY DEF ServerTypeOK, CurrentRev

\* A forced PUT adds at most the current version to the backups.
LEMMA ArchivedBounds ==
  ASSUME ServerTypeOK
  PROVE  /\ Archived \in SUBSET Backup
         /\ Archived \subseteq backups \cup {Version}
         /\ vocab = NoFile => Archived = backups
<1>1. CASE vocab = NoFile
  BY <1>1 DEF Archived, ServerTypeOK
<1>2. CASE vocab # NoFile
  <2>1. vocab \in VocabFile /\ CurrentRev \in Nat
    BY <1>2, CurrentRevIsServerRev DEF ServerTypeOK
  <2>2. Version \in Backup
    BY <2>1 DEF Version, Backup
  <2> QED
    BY <1>2, <2>2 DEF Archived, Version, ServerTypeOK
<1> QED
  BY <1>1, <1>2

\* vocab.json and vocab_meta.json either stay, or are rewritten under the next
\* revision, or only vocab.json is rewritten (a death between the two).
Stays == UNCHANGED <<vocab, serverRev, updatedBy>>
HalfRewritten(f) == vocab' = f /\ UNCHANGED <<serverRev, updatedBy>>

\* Every step of every handler keeps the types, and never lowers the revision.
LEMMA FilesKeepTheirTypes ==
  ASSUME ServerTypeOK, NEW f \in VocabFile, NEW c \in Client,
         Stays \/ WriteVocabData(f, c) \/ HalfRewritten(f),
         backups' \subseteq Archived \cup backups
  PROVE  /\ ServerTypeOK'
         /\ CurrentRev \in Nat /\ CurrentRev' \in Nat /\ CurrentRev <= CurrentRev'
<1>1. CurrentRev = serverRev /\ CurrentRev \in Nat
  BY CurrentRevIsServerRev
<1>2. backups' \in SUBSET Backup
  BY ArchivedBounds DEF ServerTypeOK
<1>3. f # NoFile
  BY NoFileAssumption DEF VocabFile
<1>4. ServerTypeOK' /\ serverRev' \in Nat /\ serverRev <= serverRev'
  <2>1. CASE Stays
    BY <2>1, <1>2 DEF Stays, ServerTypeOK
  <2>2. CASE WriteVocabData(f, c)
    BY <2>2, <1>1, <1>2, <1>3 DEF WriteVocabData, ServerTypeOK
  <2>3. CASE HalfRewritten(f)
    BY <2>3, <1>2, <1>3 DEF HalfRewritten, ServerTypeOK
  <2> QED
    BY <2>1, <2>2, <2>3
<1>5. CurrentRev' = serverRev'
  BY <1>4 DEF ServerTypeOK, CurrentRev
<1> QED
  BY <1>1, <1>4, <1>5

-----------------------------------------------------------------------------
(* Names of backups                                                        *)

\* Up to here revisions sort by name as they do by number.
OneDigit == CurrentRev <= 9

LEMMA NamesSortByNumber ==
  ASSUME NEW m \in 0 .. 9, NEW n \in 0 .. 9
  PROVE  NameBefore(m, n) <=> m < n
BY DEF NameBefore, LeftAligned

LEMMA OneDigitHasMaximum ==
  ASSUME NEW S \in SUBSET (0 .. 9), S # {}
  PROVE  \E m \in S : \A n \in S : n <= m
<1> SUFFICES ASSUME \A m \in S : \E n \in S : m < n
             PROVE  FALSE
  OBVIOUS
<1>1. \A n \in S : n < 9
  OBVIOUS
<1>2. \A n \in S : n < 8
  BY <1>1
<1>3. \A n \in S : n < 7
  BY <1>2
<1>4. \A n \in S : n < 6
  BY <1>3
<1>5. \A n \in S : n < 5
  BY <1>4
<1>6. \A n \in S : n < 4
  BY <1>5
<1>7. \A n \in S : n < 3
  BY <1>6
<1>8. \A n \in S : n < 2
  BY <1>7
<1>9. \A n \in S : n < 1
  BY <1>8
<1>10. PICK n \in S : TRUE
  OBVIOUS
<1>11. n \in 0 .. 9 /\ n < 1
  BY <1>9
<1>12. PICK d \in S : n < d
  OBVIOUS
<1>13. d \in 0 .. 9 /\ d < 1
  BY <1>9
<1> QED
  BY <1>11, <1>12, <1>13

\* Revision n is among the backups B, or enough newer ones are.
Covered(B, n) ==
  \/ \E b \in B : b.rev = n
  \/ Cardinality({b \in B : b.rev > n}) >= Keep

\* Pruning to the last names leaves each revision there or enough newer ones:
\* above the newest backup that is removed there are as many as are kept.
LEMMA LastByNameCovers ==
  ASSUME NEW B, IsFiniteSet(B), \A b \in B : b.rev \in 0 .. 9,
         NEW k \in Nat, k >= Keep, NEW n \in Nat, Covered(B, n)
  PROVE  Covered(LastByName(B, k), n)
<1> DEFINE L == LastByName(B, k)
           Above(m) == {b \in B : b.rev > m}
           AboveInL == {b \in L : b.rev > n}
           Out == {b \in B \ L : b.rev >= n}
<1>1. L \subseteq B
  BY LastByNameIsSubset
<1>2. \A m : IsFiniteSet(Above(m)) /\ Cardinality(Above(m)) \in Nat
  BY FS_Subset, FS_CardinalityType
<1>3. IsFiniteSet(AboveInL) /\ Cardinality(AboveInL) \in Nat
  BY <1>1, FS_Subset, FS_CardinalityType
<1>4. CASE Out = {}
  <2>1. \A b \in B : b.rev >= n => b \in L
    BY <1>4
  <2>2. AboveInL = Above(n)
    BY <1>1, <2>1
  <2> QED
    BY <1>1, <2>1, <2>2 DEF Covered
<1>5. CASE Out # {}
  <2> DEFINE Revs == {b.rev : b \in Out}
  <2>1. PICK m \in Revs : \A r \in Revs : r <= m
    <3>1. Revs \in SUBSET (0 .. 9) /\ Revs # {}
      BY <1>5
    <3> HIDE DEF Revs
    <3> QED
      BY <3>1, OneDigitHasMaximum
  <2>2. PICK b \in B : b \notin L /\ b.rev = m /\ m >= n
    BY <2>1
  <2>3. \A d \in B : d.rev > m => d \in L
    <3> SUFFICES ASSUME NEW d \in B, d.rev > m, d \notin L
                 PROVE  FALSE
      OBVIOUS
    <3>1. d.rev \in 0 .. 9 /\ m \in 0 .. 9
      BY <2>2
    <3>2. d \in Out /\ d.rev \in Revs
      BY <2>2, <3>1
    <3> HIDE DEF L, Out, Revs
    <3> QED
      BY <2>1, <3>1, <3>2
  <2>4. Above(m) \subseteq AboveInL
    BY <2>2, <2>3
  <2>5. {d \in B : NameBefore(b.rev, d.rev)} = Above(m)
    BY <2>2, NamesSortByNumber
  <2>6. Cardinality(Above(m)) >= k
    <3> HIDE DEF Above
    <3> QED
      BY <1>2, <2>2, <2>5 DEF LastByName
  <2>7. Cardinality(Above(m)) <= Cardinality(AboveInL)
    BY <1>3, <2>4, FS_Subset
  <2>8. Cardinality(AboveInL) >= Keep
    <3> HIDE DEF Above, AboveInL
    <3> QED
      BY <1>2, <1>3, <2>6, <2>7, KeepAssumption
  <2> QED
    BY <2>8 DEF Covered
<1> QED
  BY <1>4, <1>5

\* Every backup has a revision of its own.
RevisionsDiffer(B) == \A a, b \in B : a.rev = b.rev => a = b

\* The version that is archived takes the place of a backup of its revision.
LEMMA ArchivedCovers ==
  ASSUME ServerTypeOK, IsFiniteSet(backups), RevisionsDiffer(backups)
  PROVE  /\ IsFiniteSet(Archived) /\ RevisionsDiffer(Archived)
         /\ \A n \in Nat : Covered(backups, n) => Covered(Archived, n)
<1>1. CASE vocab = NoFile
  BY <1>1 DEF Archived
<1>2. CASE vocab # NoFile
  <2> DEFINE Others == {b \in backups : b.rev # CurrentRev}
  <2>1. Archived = Others \cup {Version} /\ Version.rev = CurrentRev
    BY <1>2 DEF Archived, Version
  <2>2. IsFiniteSet(Others)
    BY FS_Subset
  <2>3. IsFiniteSet(Archived)
    BY <2>1, <2>2, FS_AddElement
  <2>4. RevisionsDiffer(Archived)
    BY <2>1 DEF RevisionsDiffer
  <2>5. ASSUME NEW n \in Nat, Covered(backups, n)
        PROVE  Covered(Archived, n)
    <3>1. CASE \E b \in backups : b.rev = n
      <4>1. \E b \in Archived : b.rev = n
        BY <2>1, <3>1
      <4> QED
        BY <4>1 DEF Covered
    <3>2. CASE Cardinality({b \in backups : b.rev > n}) >= Keep
      <4> DEFINE S == {b \in backups : b.rev > n}
                 T == {b \in Archived : b.rev > n}
                 f == [b \in S |-> IF b.rev = CurrentRev THEN Version ELSE b]
      <4>1. IsFiniteSet(S) /\ IsFiniteSet(T)
        BY <2>3, FS_Subset
      <4>2. f \in Injection(S, T)
        <5>1. \A b \in S : f[b] \in T /\ f[b].rev = b.rev
          BY <2>1
        <5>2. \A a, b \in S : f[a] = f[b] => a = b
          BY <5>1 DEF RevisionsDiffer
        <5> QED
          BY <5>1, <5>2 DEF Injection, IsInjective
      <4>3. Cardinality(S) <= Cardinality(T)
        BY <4>1, <4>2, FS_Injection
      <4>4. Cardinality(S) \in Nat /\ Cardinality(T) \in Nat
        BY <4>1, FS_CardinalityType
      <4>5. Cardinality(T) >= Keep
        <5> HIDE DEF S, T
        <5>1. Cardinality(S) >= Keep
          BY <3>2 DEF S
        <5> QED
          BY <4>3, <4>4, <5>1, KeepAssumption
      <4> QED
        BY <4>5 DEF Covered
    <3> QED
      BY <2>5, <3>1, <3>2 DEF Covered
  <2> QED
    BY <2>3, <2>4, <2>5
<1> QED
  BY <1>1, <1>2

-----------------------------------------------------------------------------
(* Requests                                                                *)

\* Every request is answered or cut, and does one of these to the files.
LEMMA RequestsStep ==
  ASSUME TypeOK, NEW f \in VocabFile, NEW c \in Client, NEW rev \in 0 .. MaxRev,
         Put(rev, f, c) \/ PutDies(rev, f) \/ ForcedPut(f, c) \/ ForcedPutDies(f, c)
  PROVE  /\ Stays \/ WriteVocabData(f, c) \/ HalfRewritten(f)
         /\ backups' \subseteq Archived \cup backups
         /\ \/ Answered /\ WriteVocabData(f, c)
            \/ Unanswered
         /\ archived' \subseteq archived \cup (Archived \ backups)
<1>1. CASE Put(rev, f, c)
  BY <1>1 DEF Put, PutVocab, NothingArchived
<1>2. CASE PutDies(rev, f)
  BY <1>2 DEF PutDies, PutVocabCut, HalfRewritten, NothingArchived
<1>3. CASE ForcedPut(f, c)
  BY <1>3, CleanedUpIsSubset DEF ForcedPut, PutVocabForce, CurrentArchived
<1>4. CASE ForcedPutDies(f, c)
  <2>1. backups' \subseteq Archived
    BY <1>4, LastByNameIsSubset DEF ForcedPutDies, PutVocabForceCut
  <2>2. Stays \/ WriteVocabData(f, c) \/ HalfRewritten(f)
    BY <1>4 DEF ForcedPutDies, PutVocabForceCut, Stays, HalfRewritten
  <2> QED
    BY <1>4, <2>1, <2>2 DEF ForcedPutDies, CurrentArchived
<1> QED
  BY <1>1, <1>2, <1>3, <1>4

-----------------------------------------------------------------------------
(* Types                                                                   *)

\* An empty vault has the right types.
LEMMA TypeInit == Init => TypeOK
BY DEF Init, ServerInit, TypeOK, ServerTypeOK

\* A request, finished or cut short, keeps the types of files and history.
LEMMA TypeStep == TypeOK /\ [Next]_vars => TypeOK'
<1> SUFFICES ASSUME TypeOK, [Next]_vars
             PROVE  TypeOK'
  OBVIOUS
<1>1. CASE UNCHANGED vars
  BY <1>1 DEF vars, serverVars, historyVars, TypeOK, ServerTypeOK
<1>2. CASE Next
  <2>1. PICK f \in VocabFile, c \in Client, rev \in 0 .. MaxRev :
          Put(rev, f, c) \/ PutDies(rev, f) \/ ForcedPut(f, c) \/ ForcedPutDies(f, c)
    <3>1. 0 \in 0 .. MaxRev
      BY MaxRevAssumption
    <3> QED
      BY <1>2, <3>1 DEF Next
  <2>2. /\ Stays \/ WriteVocabData(f, c) \/ HalfRewritten(f)
        /\ backups' \subseteq Archived \cup backups
        /\ \/ Answered /\ WriteVocabData(f, c)
           \/ Unanswered
        /\ archived' \subseteq archived \cup (Archived \ backups)
    BY <2>1, RequestsStep
  <2>3. ServerTypeOK' /\ CurrentRev' \in Nat
    BY <2>2, FilesKeepTheirTypes DEF TypeOK
  <2>4. vocab' # NoFile => Version' \in Backup
    BY <2>3 DEF ServerTypeOK, Version, Backup
  <2>5. held' \in SUBSET Backup /\ acked' \in SUBSET Backup
    <3>1. CASE Answered /\ WriteVocabData(f, c)
      <4>1. vocab' # NoFile
        BY <3>1, NoFileAssumption DEF WriteVocabData, VocabFile
      <4> QED
        BY <3>1, <4>1, <2>4 DEF Answered, TypeOK
    <3>2. CASE Unanswered
      BY <3>2, <2>4 DEF Unanswered, TypeOK
    <3> QED
      BY <3>1, <3>2, <2>2
  <2>6. archived' \in SUBSET Backup
    BY <2>2, ArchivedBounds DEF TypeOK
  <2> QED
    BY <2>3, <2>5, <2>6 DEF TypeOK
<1> QED
  BY <1>1, <1>2

\* The files and the history keep their types under any sequence of requests
\* and deaths of the process; in particular no vocab_meta.json is ever left
\* with a revision and no vocab.json.
THEOREM TypeCorrect == Spec => []TypeOK
BY TypeInit, TypeStep, PTL DEF Spec

-----------------------------------------------------------------------------
(* Revisions and backups                                                   *)

\* What the two properties need to be inductive: an acknowledged revision is
\* not above the one in force, and what is held now has been recorded.
HistoryInv ==
  /\ \A a \in acked : a.rev <= CurrentRev
  /\ AckedRevisionNamesOneFile
  /\ vocab # NoFile => Version \in held
  /\ BackupIsWhatWasHeld

\* In an empty vault nothing has been acknowledged or backed up.
LEMMA HistoryInit == Init => HistoryInv
BY DEF Init, ServerInit, HistoryInv, AckedRevisionNamesOneFile, BackupIsWhatWasHeld

\* A request keeps the history consistent with the files: a new
\* acknowledgement has a revision above all the earlier ones, a new backup is of
\* the version held.
LEMMA HistoryStep == TypeOK /\ HistoryInv /\ [Next]_vars => HistoryInv'
<1> SUFFICES ASSUME TypeOK, HistoryInv, [Next]_vars
             PROVE  HistoryInv'
  OBVIOUS
<1>1. CASE UNCHANGED vars
  BY <1>1 DEF vars, serverVars, historyVars, HistoryInv, CurrentRev, Version,
              AckedRevisionNamesOneFile, BackupIsWhatWasHeld
<1>2. CASE Next
  <2>1. PICK f \in VocabFile, c \in Client, rev \in 0 .. MaxRev :
          Put(rev, f, c) \/ PutDies(rev, f) \/ ForcedPut(f, c) \/ ForcedPutDies(f, c)
    <3>1. 0 \in 0 .. MaxRev
      BY MaxRevAssumption
    <3> QED
      BY <1>2, <3>1 DEF Next
  <2>2. /\ Stays \/ WriteVocabData(f, c) \/ HalfRewritten(f)
        /\ backups' \subseteq Archived \cup backups
        /\ \/ Answered /\ WriteVocabData(f, c)
           \/ Unanswered
    BY <2>1, RequestsStep
  <2>3. CurrentRev \in Nat /\ CurrentRev' \in Nat /\ CurrentRev <= CurrentRev'
    BY <2>2, FilesKeepTheirTypes DEF TypeOK
  <2>4. WriteVocabData(f, c) => vocab' # NoFile /\ CurrentRev' = CurrentRev + 1
    BY NoFileAssumption DEF WriteVocabData, VocabFile, CurrentRev
  <2>5. \A a \in acked : a.rev \in Nat
    BY DEF TypeOK, Backup
  <2>6. (\A a \in acked : a.rev <= CurrentRev)'
    <3>1. CASE Answered /\ WriteVocabData(f, c)
      BY <3>1, <2>3, <2>5 DEF Answered, Version, HistoryInv
    <3>2. CASE Unanswered
      BY <3>2, <2>3, <2>5 DEF Unanswered, HistoryInv
    <3> QED
      BY <2>2, <3>1, <3>2
  <2>7. AckedRevisionNamesOneFile'
    <3>1. CASE Answered /\ WriteVocabData(f, c)
      <4>1. \A a \in acked : a.rev # Version'.rev
        BY <3>1, <2>3, <2>4, <2>5 DEF HistoryInv, Version
      <4>2. acked' = acked \cup {Version'}
        BY <3>1 DEF Answered
      <4> QED
        BY <4>1, <4>2 DEF HistoryInv, AckedRevisionNamesOneFile
    <3>2. CASE Unanswered
      BY <3>2 DEF Unanswered, HistoryInv, AckedRevisionNamesOneFile
    <3> QED
      BY <2>2, <3>1, <3>2
  <2>8. held \subseteq held' /\ (vocab' # NoFile => Version' \in held')
    BY <2>2 DEF Answered, Unanswered
  <2>9. BackupIsWhatWasHeld'
    <3>1. Archived \subseteq held
      BY ArchivedBounds DEF TypeOK, HistoryInv, BackupIsWhatWasHeld
    <3> QED
      BY <2>2, <2>8, <3>1 DEF HistoryInv, BackupIsWhatWasHeld
  <2> QED
    BY <2>6, <2>7, <2>8, <2>9 DEF HistoryInv
<1> QED
  BY <1>1, <1>2

\* The history is consistent with the files in every reachable state.
LEMMA HistoryCorrect == Spec => []HistoryInv
BY HistoryInit, HistoryStep, TypeCorrect, PTL DEF Spec

\* A serverRev that was acknowledged names one content for ever, however many
\* requests follow and wherever the process dies: the clients may take equality
\* of revisions for equality of contents.
THEOREM AckedRevisionsAreUnique == Spec => []AckedRevisionNamesOneFile
<1>1. HistoryInv => AckedRevisionNamesOneFile
  BY DEF HistoryInv
<1> QED
  BY <1>1, HistoryCorrect, PTL

\* A backup file never holds what replaced the content it is named for, also
\* when a forced PUT is cut short or retried after that.
THEOREM BackupsAreGenuine == Spec => []BackupIsWhatWasHeld
<1>1. HistoryInv => BackupIsWhatWasHeld
  BY DEF HistoryInv
<1> QED
  BY <1>1, HistoryCorrect, PTL

-----------------------------------------------------------------------------
(* The newest backups                                                      *)

\* What the retention of backups needs to be inductive: each backup has a
\* revision of its own, at most the current one, and each archived revision is
\* there or has Keep newer ones above it.
KeptInv ==
  /\ IsFiniteSet(backups)
  /\ RevisionsDiffer(backups)
  /\ \A b \in backups : b.rev <= CurrentRev
  /\ \A a \in archived : Covered(backups, a.rev)

\* Nothing has been archived in an empty vault.
LEMMA KeptInit == Init => KeptInv
BY FS_EmptySet DEF Init, ServerInit, KeptInv, RevisionsDiffer

\* What a forced PUT makes of the backups, however far it gets.
LEMMA ForcedPutBackups ==
  ASSUME NEW f \in VocabFile, NEW c \in Client,
         TypeOK, KeptInv, ForcedPut(f, c) \/ ForcedPutDies(f, c)
  PROVE  \/ backups' = Archived
         \/ \E k \in Nat : k >= Keep /\ backups' = LastByName(Archived, k)
<1>1. CASE ForcedPut(f, c)
  BY <1>1, KeepAssumption DEF ForcedPut, PutVocabForce, CleanedUp
<1>2. CASE ForcedPutDies(f, c)
  <2>1. Cardinality(Archived) \in Nat
    BY ArchivedCovers, FS_CardinalityType DEF TypeOK, KeptInv
  <2>2. \A k \in Keep .. Keep + Cardinality(Archived) : k \in Nat /\ k >= Keep
    BY <2>1, KeepAssumption
  <2> QED
    BY <1>2, <2>2 DEF ForcedPutDies, PutVocabForceCut
<1> QED
  BY <1>1, <1>2

\* While revisions have one digit, archiving and pruning lose no revision that
\* has fewer than Keep newer ones.
LEMMA PruningCovers ==
  ASSUME TypeOK, KeptInv, OneDigit, NEW B,
         \/ B = Archived
         \/ \E k \in Nat : k >= Keep /\ B = LastByName(Archived, k)
  PROVE  /\ IsFiniteSet(B) /\ RevisionsDiffer(B)
         /\ \A b \in B : b.rev \in Nat /\ b.rev <= CurrentRev
         /\ \A n \in Nat : Covered(Archived, n) => Covered(B, n)
<1>1. IsFiniteSet(Archived) /\ RevisionsDiffer(Archived)
  BY ArchivedCovers DEF TypeOK, KeptInv
<1>2. CurrentRev \in Nat /\ CurrentRev <= 9
  BY CurrentRevIsServerRev DEF TypeOK, OneDigit
<1>3. \A b \in Archived : b.rev \in Nat /\ b.rev <= CurrentRev
  <2>1. \A b \in backups : b.rev \in Nat /\ b.rev <= CurrentRev
    BY DEF TypeOK, ServerTypeOK, Backup, KeptInv
  <2>2. Version.rev = CurrentRev
    BY DEF Version
  <2> QED
    BY <1>2, <2>1, <2>2, ArchivedBounds DEF TypeOK
<1>4. B \subseteq Archived
  BY LastByNameIsSubset
<1>5. \A b \in Archived : b.rev \in 0 .. 9
  BY <1>2, <1>3
<1>6. \A n \in Nat : Covered(Archived, n) => Covered(B, n)
  BY <1>1, <1>5, LastByNameCovers
<1> QED
  BY <1>1, <1>3, <1>4, <1>6, FS_Subset DEF RevisionsDiffer

\* A request, finished or cut short, keeps the newest backups.
LEMMA KeptStep == TypeOK /\ KeptInv /\ OneDigit /\ [Next]_vars => KeptInv'
<1> SUFFICES ASSUME TypeOK, KeptInv, OneDigit, [Next]_vars
             PROVE  KeptInv'
  OBVIOUS
<1>1. CASE UNCHANGED vars
  BY <1>1 DEF vars, serverVars, historyVars, KeptInv, CurrentRev
<1>2. CASE Next
  <2>1. PICK f \in VocabFile, c \in Client, rev \in 0 .. MaxRev :
          Put(rev, f, c) \/ PutDies(rev, f) \/ ForcedPut(f, c) \/ ForcedPutDies(f, c)
    <3>1. 0 \in 0 .. MaxRev
      BY MaxRevAssumption
    <3> QED
      BY <1>2, <3>1 DEF Next
  <2>2. /\ Stays \/ WriteVocabData(f, c) \/ HalfRewritten(f)
        /\ backups' \subseteq Archived \cup backups
        /\ archived' \subseteq archived \cup (Archived \ backups)
    BY <2>1, RequestsStep
  <2>3. CurrentRev \in Nat /\ CurrentRev' \in Nat /\ CurrentRev <= CurrentRev'
    BY <2>2, FilesKeepTheirTypes DEF TypeOK
  <2>4. CASE Put(rev, f, c) \/ PutDies(rev, f)
    <3>1. backups' = backups /\ archived' = archived
      BY <2>4 DEF Put, PutDies, PutVocab, PutVocabCut, NothingArchived
    <3>2. \A b \in backups : b.rev \in Nat /\ b.rev <= CurrentRev
      BY DEF TypeOK, ServerTypeOK, Backup, KeptInv
    <3> QED
      BY <2>3, <3>1, <3>2 DEF KeptInv
  <2>5. CASE ForcedPut(f, c) \/ ForcedPutDies(f, c)
    <3>1. /\ IsFiniteSet(backups') /\ RevisionsDiffer(backups')
          /\ \A b \in backups' : b.rev \in Nat /\ b.rev <= CurrentRev
          /\ \A n \in Nat : Covered(Archived, n) => Covered(backups', n)
      BY <2>5, ForcedPutBackups, PruningCovers
    <3>2. \A a \in archived : a.rev \in Nat /\ Covered(Archived, a.rev)
      <4>1. \A a \in archived : a.rev \in Nat /\ Covered(backups, a.rev)
        BY DEF TypeOK, Backup, KeptInv
      <4> QED
        BY <4>1, ArchivedCovers DEF TypeOK, KeptInv
    <3>3. \A a \in Archived : a.rev \in Nat /\ Covered(Archived, a.rev)
      BY ArchivedBounds DEF TypeOK, Backup, Covered
    <3>4. \A a \in archived' : Covered(backups', a.rev)
      BY <2>2, <3>1, <3>2, <3>3
    <3> QED
      BY <2>3, <3>1, <3>4 DEF KeptInv
  <2> QED
    BY <2>1, <2>4, <2>5
<1> QED
  BY <1>1, <1>2

\* As long as revisions have one digit, a revision that was backed up is missing
\* only where Keep newer backups are kept, whatever requests were cut short and
\* wherever in the pruning. From revision 10 on it is false: names are compared.
THEOREM NewestBackupsAreKept == Spec /\ []OneDigit => []NewestBackupsKept
<1>1. KeptInv => NewestBackupsKept
  BY DEF KeptInv, Covered, NewestBackupsKept
<1> QED
  BY <1>1, KeptInit, KeptStep, TypeCorrect, PTL DEF Spec
=============================================================================
