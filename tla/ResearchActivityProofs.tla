------------------------ MODULE ResearchActivityProofs ------------------------
(***************************************************************************)
(* Proofs about ResearchActivity, for every set of records, requests and   *)
(* readers, and for every size of a page.                                  *)
(***************************************************************************)
EXTENDS ResearchActivity, SequenceTheorems, TLAPS

\* What a step does to the archive: nothing, or it appends a record that the
\* trigger lets through.
Imported(record) == Insertable(record) /\ archive' = Append(archive, record)

ArchiveStep == UNCHANGED archive \/ \E record \in Records : Imported(record)

IInv == TypeOK /\ PagesTileTheSnapshot

-----------------------------------------------------------------------------
(* The archive only grows.                                                 *)

LEMMA AppendedArchive ==
  ASSUME archive \in Seq(Records), NEW record \in Records, Imported(record)
  PROVE  /\ archive' \in Seq(Records)
         /\ Len(archive) \in Nat
         /\ Len(archive') = Len(archive) + 1
         /\ DOMAIN archive = 1 .. Len(archive)
         /\ DOMAIN archive' = 1 .. Len(archive) + 1
         /\ \A n \in 1 .. Len(archive) : archive'[n] = archive[n]
         /\ archive'[Len(archive) + 1] = record
         /\ Saved' = Saved \cup {record}
  <1>1. /\ archive' \in Seq(Records)
        /\ Len(archive') = Len(archive) + 1
        /\ \A n \in 1 .. Len(archive) : archive'[n] = archive[n]
        /\ archive'[Len(archive) + 1] = record
    BY AppendProperties DEF Imported
  <1>2. /\ Len(archive) \in Nat
        /\ DOMAIN archive = 1 .. Len(archive)
        /\ DOMAIN archive' = 1 .. Len(archive) + 1
    BY <1>1, LenProperties
  <1>3. Saved' \subseteq Saved \cup {record}
    <2>1. SUFFICES ASSUME NEW n \in 1 .. Len(archive) + 1
                   PROVE  archive'[n] \in Saved \cup {record}
      BY <1>2 DEF Saved
    <2>2. CASE n \in 1 .. Len(archive)
      BY <2>2, <1>1, <1>2 DEF Saved
    <2>3. CASE n = Len(archive) + 1
      BY <2>3, <1>1
    <2>4. QED
      BY <2>2, <2>3, <1>2
  <1>4. Saved \cup {record} \subseteq Saved'
    <2>1. ASSUME NEW n \in 1 .. Len(archive)
          PROVE  archive[n] \in Saved'
      <3>1. n \in 1 .. Len(archive) + 1
        BY <1>2
      <3>2. QED
        BY <3>1, <1>1, <1>2 DEF Saved
    <2>2. record \in Saved'
      <3>1. Len(archive) + 1 \in 1 .. Len(archive) + 1
        BY <1>2
      <3>2. QED
        BY <3>1, <1>1, <1>2 DEF Saved
    <2>3. QED
      BY <2>1, <2>2, <1>2 DEF Saved
  <1>5. QED
    BY <1>1, <1>2, <1>3, <1>4

LEMMA SavedAreRecords ==
  ASSUME archive \in Seq(Records)
  PROVE  Saved \subseteq Records
  BY LenProperties, ElementOfSeq DEF Saved

\* A request under way has a record.
LEMMA InsertStep ==
  ASSUME TypeOK, NEW i \in Importers, Insert(i)
  PROVE  ArchiveStep
  <1>1. importer[i].record \in Records
    BY DEF Insert, TypeOK
  <1>2. QED
    BY <1>1 DEF Insert, ArchiveStep, Imported

LEMMA FailsStep ==
  ASSUME TypeOK, NEW i \in Importers, Fails(i)
  PROVE  ArchiveStep
  <1>1. importer[i].record \in Records
    BY DEF Fails, TypeOK
  <1>2. QED
    BY <1>1 DEF Fails, ArchiveStep, Imported

LEMMA EveryArchiveStep ==
  ASSUME TypeOK, [Next]_vars
  PROVE  ArchiveStep
  <1>1. CASE UNCHANGED vars
    BY <1>1 DEF vars, ArchiveStep
  <1>2. ASSUME NEW i \in Importers, NEW record \in Records, Submit(i, record)
        PROVE  ArchiveStep
    BY <1>2 DEF Submit, ArchiveStep
  <1>3. ASSUME NEW i \in Importers, ReadLatest(i)
        PROVE  ArchiveStep
    BY <1>3 DEF ReadLatest, ArchiveStep
  <1>4. ASSUME NEW record \in Records, InsertOffline(record)
        PROVE  ArchiveStep
    BY <1>4 DEF InsertOffline, ArchiveStep, Imported
  <1>5. ASSUME NEW c \in Readers, Reading(c)
        PROVE  ArchiveStep
    BY <1>5 DEF Reading, OpenArchive, ReadPage, CloseArchive, ArchiveStep
  <1>6. QED
    BY <1>1, <1>2, <1>3, <1>4, <1>5, InsertStep, FailsStep DEF Next, Importing

-----------------------------------------------------------------------------
(* Types, and the pages of a reader.                                       *)

LEMMA ArchiveType ==
  ASSUME archive \in Seq(Records), ArchiveStep
  PROVE  archive' \in Seq(Records)
  BY AppendedArchive DEF ArchiveStep

LEMMA SomeStates ==
  /\ Unread \in ReaderState
  /\ \A record \in Records : \A answer \in Answers :
       [phase |-> "idle", record |-> record, answer |-> answer] \in ImporterState
  /\ \A record \in Records : \A phase \in {"idle", "latest", "insert"} :
       [phase |-> phase, record |-> record, answer |-> "none"] \in ImporterState
  BY EmptySeq DEF Unread, ReaderState, ImporterState, Answers

LEMMA ImportingType ==
  ASSUME TypeOK, NEW i \in Importers, Importing(i)
  PROVE  /\ importer' \in [Importers -> ImporterState]
         /\ \A j \in Importers :
              importer'[j].phase # "idle" => importer'[j].record \in Records
         /\ UNCHANGED reader
  <1>1. ASSUME NEW record \in Records, NEW answer \in Answers,
               Answered(i, record, answer)
        PROVE  /\ importer' \in [Importers -> ImporterState]
               /\ \A j \in Importers :
                    importer'[j].phase # "idle" => importer'[j].record \in Records
    <2>1. [phase |-> "idle", record |-> record, answer |-> answer] \in ImporterState
      BY SomeStates
    <2>2. QED
      BY <1>1, <2>1 DEF Answered, TypeOK
  <1>2. ASSUME NEW record \in Records, NEW phase \in {"latest", "insert"},
               Goes(i, phase, record)
        PROVE  /\ importer' \in [Importers -> ImporterState]
               /\ \A j \in Importers :
                    importer'[j].phase # "idle" => importer'[j].record \in Records
    <2>1. [phase |-> phase, record |-> record, answer |-> "none"] \in ImporterState
      BY SomeStates
    <2>2. QED
      BY <1>2, <2>1 DEF Goes, TypeOK
  <1>3. ASSUME NEW record \in Records, Submit(i, record)
        PROVE  /\ importer' \in [Importers -> ImporterState]
               /\ \A j \in Importers :
                    importer'[j].phase # "idle" => importer'[j].record \in Records
               /\ UNCHANGED reader
    BY <1>1, <1>2, <1>3 DEF Submit, Answers
  <1>4. ASSUME importer[i].phase # "idle"
        PROVE  importer[i].record \in Records
    BY <1>4 DEF TypeOK
  <1>5. ASSUME ReadLatest(i)
        PROVE  /\ importer' \in [Importers -> ImporterState]
               /\ \A j \in Importers :
                    importer'[j].phase # "idle" => importer'[j].record \in Records
               /\ UNCHANGED reader
    <2>1. importer[i].record \in Records
      BY <1>4, <1>5 DEF ReadLatest
    <2>2. \/ Goes(i, "insert", importer[i].record)
          \/ Answered(i, importer[i].record, "conflict")
      BY <1>5 DEF ReadLatest
    <2>3. QED
      BY <2>1, <2>2, <1>1, <1>2, <1>5 DEF ReadLatest, Answers
  <1>6. ASSUME Insert(i) \/ Fails(i)
        PROVE  /\ importer' \in [Importers -> ImporterState]
               /\ \A j \in Importers :
                    importer'[j].phase # "idle" => importer'[j].record \in Records
               /\ UNCHANGED reader
    <2>1. importer[i].record \in Records
      BY <1>4, <1>6 DEF Insert, Fails
    <2>2. \E answer \in Answers : Answered(i, importer[i].record, answer)
      BY <1>6 DEF Insert, Fails, Answers
    <2>3. QED
      BY <2>1, <2>2, <1>1, <1>6 DEF Insert, Fails
  <1>7. QED
    BY <1>3, <1>5, <1>6 DEF Importing

\* What one reader holds: the first records of its snapshot, in order.
Tiles(s) ==
  /\ s.received = SubSeq(archive, 1, s.after)
  /\ s.after <= s.snapshot
  /\ s.snapshot <= Len(archive)
  /\ s.phase = "complete" => s.after = s.snapshot

LEMMA PrefixOfAppended ==
  ASSUME archive \in Seq(Records), ArchiveStep, NEW s \in ReaderState, Tiles(s)
  PROVE  Tiles(s)'
  <1>1. CASE UNCHANGED archive
    BY <1>1 DEF Tiles
  <1>2. ASSUME NEW record \in Records, Imported(record)
        PROVE  Tiles(s)'
    <2>1. /\ archive' \in Seq(Records)
          /\ Len(archive) \in Nat
          /\ Len(archive') = Len(archive) + 1
          /\ \A n \in 1 .. Len(archive) : archive'[n] = archive[n]
      BY <1>2, AppendedArchive
    <2>2. s.after \in Nat /\ s.after <= Len(archive)
      BY <2>1 DEF Tiles, ReaderState
    <2>3. \A n \in 1 .. s.after : archive[n] \in Records /\ archive'[n] \in Records
      BY <2>1, <2>2, ElementOfSeq
    <2>4. /\ SubSeq(archive, 1, s.after) \in Seq(Records)
          /\ Len(SubSeq(archive, 1, s.after)) = s.after
          /\ \A n \in 1 .. s.after : SubSeq(archive, 1, s.after)[n] = archive[n]
      BY <2>2, <2>3, SubSeqProperties
    <2>5. /\ SubSeq(archive', 1, s.after) \in Seq(Records)
          /\ Len(SubSeq(archive', 1, s.after)) = s.after
          /\ \A n \in 1 .. s.after : SubSeq(archive', 1, s.after)[n] = archive'[n]
      BY <2>2, <2>3, SubSeqProperties
    <2>6. SubSeq(archive', 1, s.after) = SubSeq(archive, 1, s.after)
      <3>1. \A n \in 1 .. s.after : archive'[n] = archive[n]
        BY <2>1, <2>2
      <3>2. QED
        BY <3>1, <2>4, <2>5, SeqEqual
    <2>7. s.snapshot <= Len(archive')
      BY <2>1 DEF Tiles, ReaderState
    <2>8. QED
      BY <2>6, <2>7 DEF Tiles
  <1>3. QED
    BY <1>1, <1>2 DEF ArchiveStep

\* A reader's own step leaves the archive alone and keeps its pages adjacent.
LEMMA ReadingTiles ==
  ASSUME IInv, NEW c \in Readers, Reading(c)
  PROVE  \E s \in ReaderState :
           /\ reader' = [reader EXCEPT ![c] = s]
           /\ Tiles(s)
           /\ UNCHANGED <<archive, importer>>
  <1> DEFINE snapshot == reader[c].snapshot
             after == reader[c].after
  <1>1. /\ archive \in Seq(Records)
        /\ Len(archive) \in Nat
        /\ reader[c] \in ReaderState
        /\ after \in Nat
        /\ snapshot \in Nat
        /\ after <= snapshot
        /\ snapshot <= Len(archive)
        /\ reader[c].received = SubSeq(archive, 1, after)
    BY LenProperties DEF IInv, TypeOK, PagesTileTheSnapshot, ReaderState
  <1>2. SubSeq(archive, 1, 0) = <<>>
    BY SubSeqEmpty
  <1>3. CASE OpenArchive(c)
    <2> DEFINE s == [phase |-> "paging", after |-> 0, snapshot |-> Len(archive),
                     received |-> <<>>]
    <2>1. s \in ReaderState
      BY <1>1, EmptySeq DEF ReaderState
    <2>2. Tiles(s)
      BY <1>1, <1>2 DEF Tiles
    <2>3. QED
      BY <1>3, <2>1, <2>2 DEF OpenArchive
  <1>4. CASE ReadPage(c)
    <2> DEFINE end == PageEnd(c)
               page == SubSeq(archive, after + 1, end)
               s == [phase |-> IF end = snapshot THEN "complete" ELSE "paging",
                     after |-> end, snapshot |-> snapshot,
                     received |-> reader[c].received \o page]
    <2>1. end \in Nat /\ after <= end /\ end <= snapshot
      BY <1>1, ActivityAssumption DEF PageEnd
    <2>2. reader[c].received \o page = SubSeq(archive, 1, end)
      <3>1. /\ 1 \in 1 .. Len(archive) + 1
            /\ after \in 1 - 1 .. Len(archive)
            /\ end \in after .. Len(archive)
        BY <1>1, <2>1
      <3>2. QED
        BY <3>1, <1>1, ConcatAdjacentSubSeq
    <2>3. SubSeq(archive, 1, end) \in Seq(Records)
      <3>1. \A n \in 1 .. end : archive[n] \in Records
        BY <1>1, <2>1, ElementOfSeq
      <3>2. QED
        BY <3>1, <2>1, SubSeqProperties
    <2>4. s \in ReaderState
      BY <1>1, <2>1, <2>2, <2>3 DEF ReaderState
    <2>5. Tiles(s)
      BY <1>1, <2>1, <2>2 DEF Tiles
    <2>6. reader' = [reader EXCEPT ![c] = s] /\ UNCHANGED <<archive, importer>>
      BY <1>4 DEF ReadPage
    <2>7. QED
      BY <2>4, <2>5, <2>6
  <1>5. CASE CloseArchive(c)
    <2>1. Unread \in ReaderState
      BY SomeStates
    <2>2. Tiles(Unread)
      BY <1>1, <1>2 DEF Tiles, Unread
    <2>3. QED
      BY <1>5, <2>1, <2>2 DEF CloseArchive
  <1>6. QED
    BY <1>3, <1>4, <1>5 DEF Reading

LEMMA TilesAll == PagesTileTheSnapshot <=> \A c \in Readers : Tiles(reader[c])
  BY DEF PagesTileTheSnapshot, Tiles

LEMMA InitIInv == Init => IInv
  <1> SUFFICES ASSUME Init PROVE IInv
    OBVIOUS
  <1>1. archive \in Seq(Records) /\ Len(archive) = 0
    BY EmptySeq DEF Init
  <1>2. Unread \in ReaderState
    BY SomeStates
  <1>3. TypeOK
    BY <1>1, <1>2 DEF Init, TypeOK, ImporterState, Answers
  <1>4. SubSeq(archive, 1, 0) = <<>>
    BY SubSeqEmpty
  <1>5. Tiles(Unread)
    BY <1>1, <1>4 DEF Tiles, Unread
  <1>6. \A c \in Readers : Tiles(reader[c])
    BY <1>5 DEF Init
  <1>7. QED
    BY <1>3, <1>6, TilesAll DEF IInv

LEMMA NextIInv ==
  ASSUME IInv, [Next]_vars
  PROVE  IInv'
  <1>1. TypeOK /\ ArchiveStep /\ archive \in Seq(Records)
    BY EveryArchiveStep DEF IInv, TypeOK
  <1>2. archive' \in Seq(Records)
    BY <1>1, ArchiveType
  <1>3. ASSUME UNCHANGED reader
        PROVE  PagesTileTheSnapshot'
    <2>1. ASSUME NEW c \in Readers
          PROVE  Tiles(reader[c])'
      <3>1. reader[c] \in ReaderState /\ Tiles(reader[c])
        BY TilesAll DEF IInv, TypeOK
      <3>2. QED
        BY <3>1, <1>1, <1>3, PrefixOfAppended DEF Tiles
    <2>2. QED
      BY <2>1 DEF PagesTileTheSnapshot, Tiles
  <1>4. CASE UNCHANGED vars
    BY <1>2, <1>3, <1>4 DEF vars, IInv, TypeOK
  <1>5. ASSUME NEW i \in Importers, Importing(i)
        PROVE  IInv'
    BY <1>1, <1>2, <1>3, <1>5, ImportingType DEF IInv, TypeOK
  <1>6. ASSUME NEW record \in Records, InsertOffline(record)
        PROVE  IInv'
    BY <1>1, <1>2, <1>3, <1>6 DEF InsertOffline, IInv, TypeOK
  <1>7. ASSUME NEW c \in Readers, Reading(c)
        PROVE  IInv'
    <2>1. PICK s \in ReaderState :
            /\ reader' = [reader EXCEPT ![c] = s]
            /\ Tiles(s)
            /\ UNCHANGED <<archive, importer>>
      BY <1>7, ReadingTiles
    <2>2. TypeOK'
      BY <1>1, <2>1 DEF TypeOK
    <2>3. ASSUME NEW e \in Readers
          PROVE  Tiles(reader[e])'
      <3>1. Tiles(reader[e])
        BY TilesAll DEF IInv
      <3>2. CASE e = c
        BY <2>1, <3>2 DEF Tiles, IInv, TypeOK
      <3>3. CASE e # c
        BY <2>1, <3>1, <3>3 DEF Tiles, IInv, TypeOK
      <3>4. QED
        BY <3>2, <3>3
    <2>4. QED
      BY <2>2, <2>3 DEF IInv, PagesTileTheSnapshot, Tiles
  <1>8. QED
    BY <1>4, <1>5, <1>6, <1>7 DEF Next

\* The state of the archive, the imports and the readers stays in its types.
THEOREM Typing == Spec => []TypeOK
  <1>1. IInv /\ [Next]_vars => IInv'
    BY NextIInv
  <1>2. IInv => TypeOK
    BY DEF IInv
  <1>3. QED
    BY InitIInv, <1>1, <1>2, PTL DEF Spec

\* A client that follows the cursor of archivePublicResearchActivity receives
\* every record of its snapshot once and in order, whatever is imported while
\* it reads.
THEOREM Paging == Spec => []PagesTileTheSnapshot
  <1>1. IInv /\ [Next]_vars => IInv'
    BY NextIInv
  <1>2. IInv => PagesTileTheSnapshot
    BY DEF IInv
  <1>3. QED
    BY InitIInv, <1>1, <1>2, PTL DEF Spec

-----------------------------------------------------------------------------
(* The histories.                                                          *)

LEMMA OneLineStep ==
  ASSUME TypeOK, OneLine, RevisionsRunForward, ArchiveStep
  PROVE  OneLine'
  <1>1. CASE UNCHANGED archive
    BY <1>1 DEF OneLine, Saved
  <1>2. ASSUME NEW record \in Records, Imported(record)
        PROVE  OneLine'
    <2>1. Saved' = Saved \cup {record}
      BY <1>2, AppendedArchive DEF TypeOK
    <2>2. \A s \in Saved : s.id # record.id
      BY <1>2 DEF Imported, Insertable
    <2>3. ASSUME NEW s \in Saved, s.activity = record.activity,
                 s.supersedes = record.supersedes
          PROVE  FALSE
      <3>1. record.supersedes # NoId
        BY <1>2, <2>3 DEF Imported, Insertable
      <3>2. PICK previous \in Saved :
              previous.id = record.supersedes /\ Latest(previous)
        BY <1>2, <3>1 DEF Imported, Insertable
      <3>3. QED
        BY <2>3, <3>2 DEF Latest
    <2>4. QED
      BY <2>1, <2>2, <2>3 DEF OneLine
  <1>3. QED
    BY <1>1, <1>2 DEF ArchiveStep

LEMMA RevisionsStep ==
  ASSUME TypeOK, RevisionsRunForward, ArchiveStep
  PROVE  RevisionsRunForward'
  <1>1. CASE UNCHANGED archive
    BY <1>1 DEF RevisionsRunForward, Follows
  <1>2. ASSUME NEW record \in Records, Imported(record)
        PROVE  RevisionsRunForward'
    <2> DEFINE last == Len(archive) + 1
    <2>1. /\ Len(archive) \in Nat
          /\ DOMAIN archive = 1 .. Len(archive)
          /\ DOMAIN archive' = 1 .. last
          /\ \A n \in 1 .. Len(archive) : archive'[n] = archive[n]
          /\ archive'[last] = record
      BY <1>2, AppendedArchive DEF TypeOK
    <2>2. ASSUME NEW n \in 1 .. last, archive'[n].supersedes # NoId
          PROVE  \E m \in 1 .. last :
                   /\ m < n
                   /\ archive'[m].id = archive'[n].supersedes
                   /\ Follows(archive'[m], archive'[n])
      <3>1. CASE n \in 1 .. Len(archive)
        <4>1. archive[n].supersedes # NoId
          BY <2>1, <2>2, <3>1
        <4>2. PICK m \in 1 .. Len(archive) :
                /\ m < n
                /\ archive[m].id = archive[n].supersedes
                /\ Follows(archive[m], archive[n])
          BY <2>1, <3>1, <4>1 DEF RevisionsRunForward
        <4>3. m \in 1 .. last /\ archive'[m] = archive[m] /\ archive'[n] = archive[n]
          BY <2>1, <3>1
        <4>4. QED
          BY <4>2, <4>3
      <3>2. CASE n = last
        <4>1. record.supersedes # NoId
          BY <2>1, <2>2, <3>2
        <4>2. PICK previous \in Saved :
                previous.id = record.supersedes /\ Follows(previous, record)
          BY <1>2, <4>1 DEF Imported, Insertable
        <4>3. PICK m \in 1 .. Len(archive) : previous = archive[m]
          BY <2>1 DEF Saved
        <4>4. m \in 1 .. last /\ m < last /\ archive'[m] = previous
          BY <2>1, <4>3
        <4>5. QED
          BY <2>1, <3>2, <4>2, <4>4
      <3>3. QED
        BY <2>1, <3>1, <3>2
    <2>3. QED
      BY <2>1, <2>2 DEF RevisionsRunForward, Follows
  <1>3. QED
    BY <1>1, <1>2 DEF ArchiveStep

LEMMA InitHistories == Init => OneLine /\ RevisionsRunForward /\ AnswersAreTrue
  BY DEF Init, OneLine, RevisionsRunForward, AnswersAreTrue, Saved

\* Whatever imports race, the saved records of an activity are one line of
\* revisions, and every revision runs forward from a record saved before it.
THEOREM Histories == Spec => []OneHistory
  <1> DEFINE Both == OneLine /\ RevisionsRunForward
  <1>1. TypeOK /\ Both /\ [Next]_vars => Both'
    BY EveryArchiveStep, OneLineStep, RevisionsStep
  <1>2. Init => Both
    BY InitHistories
  <1> HIDE DEF Both
  <1>3. Spec => []Both
    BY <1>1, <1>2, Typing, PTL DEF Spec
  <1>4. QED
    BY <1>3 DEF Both, OneHistory

-----------------------------------------------------------------------------
(* What the requests are told.                                             *)

LEMMA SavedGrows ==
  ASSUME TypeOK, ArchiveStep
  PROVE  Saved \subseteq Saved'
  <1>1. CASE UNCHANGED archive
    BY <1>1 DEF Saved
  <1>2. ASSUME NEW record \in Records, Imported(record)
        PROVE  Saved \subseteq Saved'
    BY <1>2, AppendedArchive DEF TypeOK
  <1>3. QED
    BY <1>1, <1>2 DEF ArchiveStep

\* An answer that is given keeps the others' true.
LEMMA AnswerStep ==
  ASSUME TypeOK, AnswersAreTrue, ArchiveStep, NEW i \in Importers,
         \/ /\ importer'[i].answer \notin {"saved", "duplicate"}
         \/ importer'[i].answer = "duplicate" /\ importer'[i].record \in Saved
         \/ /\ importer'[i].answer = "saved"
            /\ Imported(importer'[i].record)
            /\ importer'[i].record \in Records,
         \A j \in Importers \ {i} : importer'[j] = importer[j]
  PROVE  AnswersAreTrue'
  <1>1. Saved \subseteq Saved'
    BY SavedGrows
  <1>2. ASSUME NEW j \in Importers, importer'[j].answer \in {"saved", "duplicate"}
        PROVE  importer'[j].record \in Saved'
    <2>1. CASE j # i
      BY <1>1, <1>2, <2>1 DEF AnswersAreTrue
    <2>2. CASE j = i /\ importer'[i].answer = "duplicate"
      BY <1>1, <2>2
    <2>3. CASE j = i /\ importer'[i].answer = "saved"
      <3>1. Imported(importer'[i].record) /\ importer'[i].record \in Records
        BY <2>3
      <3>2. Saved' = Saved \cup {importer'[i].record}
        BY <3>1, AppendedArchive DEF TypeOK
      <3>3. QED
        BY <3>2, <2>3
    <2>4. QED
      BY <1>2, <2>1, <2>2, <2>3
  <1>3. ASSUME importer'[i].answer = "saved", NEW j \in Importers, j # i,
               importer'[j].answer = "saved"
        PROVE  importer'[i].record.id # importer'[j].record.id
    <2>1. \A s \in Saved : s.id # importer'[i].record.id
      BY <1>3 DEF Imported, Insertable
    <2>2. importer'[j].record \in Saved
      BY <1>3 DEF AnswersAreTrue
    <2>3. QED
      BY <2>1, <2>2
  <1>4. ASSUME NEW j \in Importers, NEW k \in Importers, j # k,
               importer'[j].answer = "saved", importer'[k].answer = "saved"
        PROVE  importer'[j].record.id # importer'[k].record.id
    <2>1. CASE j = i
      BY <1>3, <1>4, <2>1
    <2>2. CASE k = i
      BY <1>3, <1>4, <2>2
    <2>3. CASE j # i /\ k # i
      BY <1>4, <2>3 DEF AnswersAreTrue
    <2>4. QED
      BY <2>1, <2>2, <2>3
  <1>5. QED
    BY <1>2, <1>4 DEF AnswersAreTrue

LEMMA Updates ==
  ASSUME TypeOK, NEW i \in Importers, NEW record, NEW value
  PROVE  /\ Answered(i, record, value) =>
              /\ importer'[i].answer = value
              /\ importer'[i].record = record
              /\ \A j \in Importers \ {i} : importer'[j] = importer[j]
         /\ Goes(i, value, record) =>
              /\ importer'[i].answer = "none"
              /\ \A j \in Importers \ {i} : importer'[j] = importer[j]
  BY DEF Answered, Goes, TypeOK

LEMMA SubmitAnswer ==
  ASSUME TypeOK, AnswersAreTrue, ArchiveStep, NEW i \in Importers,
         NEW record \in Records, Submit(i, record)
  PROVE  AnswersAreTrue'
  <1>1. CASE record \in Saved /\ Answered(i, record, "duplicate")
    BY <1>1, Updates, AnswerStep
  <1>2. CASE Answered(i, record, "conflict")
    BY <1>2, Updates, AnswerStep
  <1>3. CASE Goes(i, "latest", record)
    BY <1>3, Updates, AnswerStep
  <1>4. QED
    BY <1>1, <1>2, <1>3 DEF Submit

LEMMA ReadLatestAnswer ==
  ASSUME TypeOK, AnswersAreTrue, ArchiveStep, NEW i \in Importers, ReadLatest(i)
  PROVE  AnswersAreTrue'
  <1>1. CASE Goes(i, "insert", importer[i].record)
    BY <1>1, Updates, AnswerStep
  <1>2. CASE Answered(i, importer[i].record, "conflict")
    BY <1>2, Updates, AnswerStep
  <1>3. QED
    BY <1>1, <1>2 DEF ReadLatest

LEMMA InsertAnswer ==
  ASSUME TypeOK, AnswersAreTrue, ArchiveStep, NEW i \in Importers,
         Insert(i) \/ Fails(i)
  PROVE  AnswersAreTrue'
  <1>1. importer[i].record \in Records
    BY DEF Insert, Fails, TypeOK
  <1>2. CASE \/ Answered(i, importer[i].record, "conflict")
             \/ Answered(i, importer[i].record, "unavailable")
    BY <1>2, Updates, AnswerStep
  <1>3. CASE /\ Imported(importer[i].record)
             /\ Answered(i, importer[i].record, "saved")
    BY <1>1, <1>3, Updates, AnswerStep
  <1>4. QED
    BY <1>2, <1>3 DEF Insert, Fails, Imported

LEMMA NextAnswers ==
  ASSUME TypeOK, AnswersAreTrue, [Next]_vars
  PROVE  AnswersAreTrue'
  <1>1. ArchiveStep
    BY EveryArchiveStep
  <1>2. ASSUME UNCHANGED importer
        PROVE  AnswersAreTrue'
    <2>1. Saved \subseteq Saved'
      BY <1>1, SavedGrows
    <2>2. QED
      BY <1>2, <2>1 DEF AnswersAreTrue
  <1>3. CASE UNCHANGED vars
    BY <1>2, <1>3 DEF vars
  <1>4. ASSUME NEW record \in Records, InsertOffline(record)
        PROVE  AnswersAreTrue'
    BY <1>2, <1>4 DEF InsertOffline
  <1>5. ASSUME NEW c \in Readers, Reading(c)
        PROVE  AnswersAreTrue'
    BY <1>2, <1>5 DEF Reading, OpenArchive, ReadPage, CloseArchive
  <1>6. QED
    BY <1>1, <1>3, <1>4, <1>5, SubmitAnswer, ReadLatestAnswer, InsertAnswer
       DEF Next, Importing

\* Only one of the requests that submit a record is told it has saved it, and
\* whoever is told "saved" or "duplicate" finds that record.
THEOREM Answering == Spec => []AnswersAreTrue
  <1>1. TypeOK /\ AnswersAreTrue /\ [Next]_vars => AnswersAreTrue'
    BY NextAnswers
  <1>2. Init => AnswersAreTrue
    BY InitHistories
  <1>3. QED
    BY <1>1, <1>2, Typing, PTL DEF Spec

-----------------------------------------------------------------------------
(* Refinement of RevisionLog.                                              *)

\* A record without a successor is the last of its activity in the archive.
LatestIsNewest ==
  \A n \in DOMAIN archive : Latest(archive[n]) => Log!Newest(n)

LEMMA LatestStep ==
  ASSUME TypeOK, LatestIsNewest, ArchiveStep
  PROVE  LatestIsNewest'
  <1>1. CASE UNCHANGED archive
    BY <1>1 DEF LatestIsNewest, Latest, Saved, Log!Newest
  <1>2. ASSUME NEW record \in Records, Imported(record)
        PROVE  LatestIsNewest'
    <2> DEFINE last == Len(archive) + 1
    <2>1. /\ Len(archive) \in Nat
          /\ DOMAIN archive = 1 .. Len(archive)
          /\ DOMAIN archive' = 1 .. last
          /\ \A n \in 1 .. Len(archive) : archive'[n] = archive[n]
          /\ archive'[last] = record
          /\ Saved' = Saved \cup {record}
      BY <1>2, AppendedArchive DEF TypeOK
    <2>2. ASSUME NEW n \in 1 .. Len(archive), Latest(archive[n])',
                 record.activity = archive[n].activity
          PROVE  FALSE
      <3>1. archive[n] \in Saved /\ archive'[n] = archive[n]
        BY <2>1 DEF Saved
      <3>2. Latest(archive[n]) /\ record.supersedes # archive[n].id
        BY <2>1, <2>2, <3>1 DEF Latest
      <3>3. record.supersedes # NoId
        BY <1>2, <2>2, <3>1 DEF Imported, Insertable
      <3>4. PICK previous \in Saved :
              /\ previous.id = record.supersedes
              /\ Latest(previous)
              /\ Follows(previous, record)
        BY <1>2, <3>3 DEF Imported, Insertable
      <3>5. PICK m \in 1 .. Len(archive) : archive[m] = previous
        BY <2>1 DEF Saved
      <3>6. archive[m].activity = archive[n].activity
        BY <2>2, <3>4, <3>5 DEF Follows
      <3>7. m = n
        BY <2>1, <3>2, <3>4, <3>5, <3>6 DEF LatestIsNewest, Log!Newest
      <3>8. QED
        BY <3>2, <3>4, <3>5, <3>7
    <2>3. ASSUME NEW n \in 1 .. last, Latest(archive[n])', NEW m \in 1 .. last,
                 archive'[m].activity = archive'[n].activity
          PROVE  m <= n
      <3>1. CASE n = last
        BY <2>1, <3>1
      <3>2. CASE n # last /\ m = last
        <4>1. n \in 1 .. Len(archive) /\ archive'[n] = archive[n]
          BY <2>1, <3>2
        <4>2. QED
          BY <2>1, <2>2, <2>3, <3>2, <4>1
      <3>3. CASE n # last /\ m # last
        <4>1. /\ n \in 1 .. Len(archive) /\ archive'[n] = archive[n]
              /\ m \in 1 .. Len(archive) /\ archive'[m] = archive[m]
          BY <2>1, <3>3
        <4>2. Latest(archive[n])
          BY <2>1, <2>3, <4>1 DEF Latest
        <4>3. QED
          BY <2>1, <2>3, <4>1, <4>2 DEF LatestIsNewest, Log!Newest
      <3>4. QED
        BY <3>1, <3>2, <3>3
    <2>4. QED
      BY <2>1, <2>3 DEF LatestIsNewest, Log!Newest
  <1>3. QED
    BY <1>1, <1>2 DEF ArchiveStep

\* What the trigger lets through fits the log.
LEMMA ImportedFits ==
  ASSUME TypeOK, LatestIsNewest, NEW record \in Records, Imported(record)
  PROVE  /\ \A n \in DOMAIN archive : archive[n].id # record.id
         /\ Log!Fresh(record) \/ \E n \in DOMAIN archive : Log!Replaces(record, n)
         /\ archive' = Append(archive, record)
  <1>1. \A n \in DOMAIN archive : archive[n] \in Saved
    BY DEF Saved
  <1>2. \A n \in DOMAIN archive : archive[n].id # record.id
    BY <1>1 DEF Imported, Insertable
  <1>3. CASE record.supersedes = NoId
    BY <1>1, <1>2, <1>3 DEF Imported, Insertable, Log!Fresh
  <1>4. CASE record.supersedes # NoId
    <2>1. PICK previous \in Saved :
            /\ previous.id = record.supersedes
            /\ Latest(previous)
            /\ Follows(previous, record)
      BY <1>4 DEF Imported, Insertable
    <2>2. PICK n \in DOMAIN archive : archive[n] = previous
      BY DEF Saved
    <2>3. previous \in Records
      BY SavedAreRecords DEF TypeOK
    <2>4. <<previous, record>> \in {pair \in Records \X Records : Follows(pair[1], pair[2])}
      BY <2>1, <2>3
    <2>5. Log!Newest(n)
      BY <2>1, <2>2 DEF LatestIsNewest
    <2>6. Log!Replaces(record, n)
      BY <2>1, <2>2, <2>4, <2>5 DEF Log!Replaces
    <2>7. QED
      BY <1>2, <2>6 DEF Imported
  <1>5. QED
    BY <1>2, <1>3, <1>4 DEF Imported

\* What an answer of one request makes of what the clients are told.
LEMMA ToldOf ==
  ASSUME TypeOK, NEW i \in Importers, NEW record, NEW value
  PROVE  /\ Answered(i, record, value) =>
              Told' = [Told EXCEPT ![i] = IF value \in {"saved", "duplicate"}
                                          THEN <<value, record>> ELSE <<>>]
         /\ Goes(i, value, record) => Told' = [Told EXCEPT ![i] = <<>>]
  <1>1. ASSUME NEW state, importer' = [importer EXCEPT ![i] = state]
        PROVE  Told' = [Told EXCEPT ![i] = IF state.answer \in {"saved", "duplicate"}
                                           THEN <<state.answer, state.record>> ELSE <<>>]
    <2>1. importer'[i] = state /\ \A j \in Importers \ {i} : importer'[j] = importer[j]
      BY <1>1 DEF TypeOK
    <2>2. QED
      BY <2>1 DEF Told
  <1>2. ASSUME Answered(i, record, value)
        PROVE  Told' = [Told EXCEPT ![i] = IF value \in {"saved", "duplicate"}
                                           THEN <<value, record>> ELSE <<>>]
    <2>1. PICK state : state = [phase |-> "idle", record |-> record, answer |-> value]
      OBVIOUS
    <2>2. importer' = [importer EXCEPT ![i] = state]
      BY <1>2, <2>1 DEF Answered
    <2>3. state.answer = value /\ state.record = record
      BY <2>1
    <2>4. QED
      BY <1>1, <2>2, <2>3
  <1>3. ASSUME Goes(i, value, record)
        PROVE  Told' = [Told EXCEPT ![i] = <<>>]
    <2>1. PICK state : state = [phase |-> value, record |-> record, answer |-> "none"]
      OBVIOUS
    <2>2. importer' = [importer EXCEPT ![i] = state] /\ state.answer = "none"
      BY <1>3, <2>1 DEF Goes
    <2>3. QED
      BY <1>1, <2>2
  <1>4. QED
    BY <1>2, <1>3

\* A request that is told nothing of its record.
LEMMA Silenced ==
  ASSUME TypeOK, NEW i \in Importers, UNCHANGED <<archive, reader>>,
         \/ \E record, value : value \notin {"saved", "duplicate"} /\ Answered(i, record, value)
         \/ \E record, phase : Goes(i, phase, record)
  PROVE  Log!Next
  <1>1. Told' = [Told EXCEPT ![i] = <<>>]
    BY ToldOf
  <1>2. Log!Silence(i)
    BY <1>1 DEF Log!Silence, Copy
  <1>3. QED
    BY <1>2 DEF Log!Next

\* A record that is saved is published at that moment.
LEMMA Published ==
  ASSUME TypeOK, LatestIsNewest, NEW record \in Records, Imported(record), UNCHANGED reader,
         \/ UNCHANGED importer
         \/ \E i \in Importers, value \in {"saved", "unavailable"} :
               Answered(i, record, value)
  PROVE  Log!Next
  <1>1. \/ UNCHANGED Told
        \/ \E i \in Importers, receipt \in {<<>>, <<"saved", record>>} :
              Told' = [Told EXCEPT ![i] = receipt]
    <2>1. CASE UNCHANGED importer
      BY <2>1 DEF Told
    <2>2. ASSUME NEW i \in Importers, Answered(i, record, "saved")
          PROVE  Told' = [Told EXCEPT ![i] = <<"saved", record>>]
      BY <2>2, ToldOf
    <2>3. ASSUME NEW i \in Importers, Answered(i, record, "unavailable")
          PROVE  Told' = [Told EXCEPT ![i] = <<>>]
      BY <2>3, ToldOf
    <2>4. QED
      BY <2>1, <2>2, <2>3
  <1>2. Log!Publish(record)
    BY <1>1, ImportedFits DEF Log!Publish, Copy
  <1>3. QED
    BY <1>2 DEF Log!Next

LEMMA ImportingRefines ==
  ASSUME TypeOK, LatestIsNewest, NEW i \in Importers, Importing(i)
  PROVE  Log!Next
  <1>1. ASSUME NEW record \in Records, Submit(i, record)
        PROVE  Log!Next
    <2>1. CASE record \in Saved /\ Answered(i, record, "duplicate")
      <3>1. Told' = [Told EXCEPT ![i] = <<"duplicate", record>>]
        BY <2>1, ToldOf
      <3>2. \E n \in DOMAIN archive : archive[n] = record
        BY <2>1 DEF Saved
      <3>3. Log!Confirm(i, record)
        BY <1>1, <3>1, <3>2 DEF Log!Confirm, Submit, Copy
      <3>4. QED
        BY <3>3 DEF Log!Next
    <2>2. CASE Answered(i, record, "conflict") \/ Goes(i, "latest", record)
      BY <1>1, <2>2, Silenced DEF Submit
    <2>3. QED
      BY <1>1, <2>1, <2>2 DEF Submit
  <1>2. CASE ReadLatest(i)
    BY <1>2, Silenced DEF ReadLatest
  <1>3. CASE Insert(i) \/ Fails(i)
    <2>1. importer[i].record \in Records
      BY <1>3 DEF Insert, Fails, TypeOK
    <2>2. CASE /\ UNCHANGED archive
               /\ \/ Answered(i, importer[i].record, "conflict")
                  \/ Answered(i, importer[i].record, "unavailable")
      BY <1>3, <2>2, Silenced DEF Insert, Fails
    <2>3. CASE /\ Imported(importer[i].record)
               /\ \/ Answered(i, importer[i].record, "saved")
                  \/ Answered(i, importer[i].record, "unavailable")
      BY <1>3, <2>1, <2>3, Published DEF Insert, Fails
    <2>4. QED
      BY <1>3, <2>2, <2>3 DEF Insert, Fails, Imported
  <1>4. QED
    BY <1>1, <1>2, <1>3 DEF Importing

LEMMA ReadingRefines ==
  ASSUME IInv, NEW c \in Readers, Reading(c)
  PROVE  Log!Next
  <1> DEFINE view(s) == [phase |-> s.phase, text |-> s.received, upto |-> s.snapshot]
  <1>1. /\ UNCHANGED <<archive, importer>> /\ UNCHANGED Told
        /\ Len(archive) \in Nat /\ reader[c] \in ReaderState /\ Tiles(reader[c])
    BY TilesAll DEF Reading, OpenArchive, ReadPage, CloseArchive, Told, IInv, TypeOK
  <1>2. ASSUME NEW s, reader' = [reader EXCEPT ![c] = s]
        PROVE  Copy' = [Copy EXCEPT ![c] = view(s)]
    BY <1>2 DEF Copy, IInv, TypeOK
  <1>3. Copy[c] = view(reader[c])
    BY DEF Copy
  <1> HIDE DEF view
  <1>4. CASE OpenArchive(c)
    <2>1. PICK s : s = [phase |-> "paging", after |-> 0, snapshot |-> Len(archive),
                        received |-> <<>>]
      OBVIOUS
    <2>2. view(s) = [phase |-> "paging", text |-> <<>>, upto |-> Len(archive)]
      BY <2>1 DEF view
    <2>3. Copy' = [Copy EXCEPT ![c] = [phase |-> "paging", text |-> <<>>,
                                       upto |-> Len(archive)]]
      BY <1>2, <1>4, <2>1, <2>2 DEF OpenArchive
    <2>4. Copy[c].phase = "idle"
      BY <1>3, <1>4 DEF OpenArchive, view
    <2>5. Log!Open(c)
      BY <1>1, <2>3, <2>4 DEF Log!Open
    <2>6. QED
      BY <2>5 DEF Log!Next
  <1>5. CASE ReadPage(c)
    <2>1. PICK s : s = [phase |-> IF PageEnd(c) = reader[c].snapshot
                                  THEN "complete" ELSE "paging",
                        after |-> PageEnd(c),
                        snapshot |-> reader[c].snapshot,
                        received |-> reader[c].received \o
                                     SubSeq(archive, reader[c].after + 1, PageEnd(c))]
      OBVIOUS
    <2>2. reader' = [reader EXCEPT ![c] = s]
      BY <1>5, <2>1 DEF ReadPage
    <2>3. s.received = SubSeq(archive, 1, s.after)
      <3>1. PICK t \in ReaderState : reader' = [reader EXCEPT ![c] = t] /\ Tiles(t)
        BY ReadingTiles
      <3>2. t = s
        BY <2>2, <3>1 DEF IInv, TypeOK
      <3>3. QED
        BY <3>1, <3>2 DEF Tiles
    <2>4. /\ s.after = PageEnd(c) /\ s.snapshot = reader[c].snapshot
          /\ s.phase = IF PageEnd(c) = reader[c].snapshot THEN "complete" ELSE "paging"
          /\ s.received = SubSeq(archive, 1, PageEnd(c))
      <3>1. s.after = PageEnd(c)
        BY <2>1
      <3>2. QED
        BY <2>1, <2>3, <3>1
    <2>5. view(s) = [phase |-> IF PageEnd(c) = reader[c].snapshot
                               THEN "complete" ELSE "paging",
                     text |-> SubSeq(archive, 1, PageEnd(c)), upto |-> reader[c].snapshot]
      BY <2>4 DEF view
    <2>6. Copy[c].phase = "paging" /\ Copy[c].upto = reader[c].snapshot
      BY <1>3, <1>5 DEF ReadPage, view
    <2>7. Len(Copy[c].text) = reader[c].after
      <3>1. Copy[c].text = SubSeq(archive, 1, reader[c].after)
        <4>1. reader[c].received = SubSeq(archive, 1, reader[c].after)
          BY <1>1 DEF Tiles
        <4>2. Copy[c].text = reader[c].received
          BY <1>3 DEF view
        <4>3. QED
          BY <4>1, <4>2
      <3>2. reader[c].after \in Nat /\ reader[c].after <= Len(archive)
        BY <1>1 DEF Tiles, ReaderState
      <3>3. \A n \in 1 .. reader[c].after : archive[n] \in Records
        BY <3>2, ElementOfSeq DEF IInv, TypeOK
      <3>4. QED
        BY <3>1, <3>2, <3>3, SubSeqProperties
    <2>8. PageEnd(c) \in Len(Copy[c].text) .. Copy[c].upto
      BY <1>1, <2>6, <2>7, ActivityAssumption DEF PageEnd, Tiles, ReaderState
    <2>9. Log!Read(c)
      <3>1. Copy' = [Copy EXCEPT ![c] = view(s)]
        BY <1>2, <2>2
      <3>2. QED
        BY <1>1, <2>5, <2>6, <2>8, <3>1 DEF Log!Read
    <2>10. QED
      BY <2>9 DEF Log!Next
  <1>6. CASE CloseArchive(c)
    <2>1. view(Unread) = Log!Closed
      BY DEF view, Unread, Log!Closed
    <2>2. Copy' = [Copy EXCEPT ![c] = Log!Closed]
      BY <1>2, <1>6, <2>1 DEF CloseArchive
    <2>3. Log!Close(c)
      BY <1>1, <2>2 DEF Log!Close
    <2>4. QED
      BY <2>3 DEF Log!Next
  <1>7. QED
    BY <1>4, <1>5, <1>6 DEF Reading

LEMMA LogStep ==
  ASSUME IInv, LatestIsNewest, [Next]_vars
  PROVE  [Log!Next]_(Log!vars)
  <1>1. TypeOK
    BY DEF IInv
  <1>2. CASE UNCHANGED vars
    BY <1>2 DEF vars, Log!vars, Told, Copy
  <1>3. ASSUME NEW record \in Records, InsertOffline(record)
        PROVE  Log!Next
    BY <1>1, <1>3, Published DEF InsertOffline, Imported
  <1>4. QED
    BY <1>1, <1>2, <1>3, ImportingRefines, ReadingRefines DEF Next

LEMMA InitLog == Init => Log!Init /\ LatestIsNewest
  BY DEF Init, Log!Init, Log!Closed, LatestIsNewest, Told, Copy, Unread

\* However many imports race, fail or are repeated, and however many clients
\* page meanwhile: an import takes effect at once, on the newest record of its
\* activity, or not at all; "saved" is said to the one request that published
\* the record; and what a client reads is a prefix of the log as it was when it
\* began (researchActivity.ts:42-129).
THEOREM IsTheLog == Spec => ImplementsRevisionLog
  <1>1. IInv /\ [Next]_vars => IInv'
    BY NextIInv
  <1>2. IInv /\ LatestIsNewest /\ [Next]_vars => LatestIsNewest'
    BY EveryArchiveStep, LatestStep DEF IInv
  <1>3. IInv /\ LatestIsNewest /\ [Next]_vars => [Log!Next]_(Log!vars)
    BY LogStep
  <1>4. QED
    BY InitIInv, InitLog, <1>1, <1>2, <1>3, PTL
       DEF Spec, ImplementsRevisionLog, Log!Spec
=============================================================================
