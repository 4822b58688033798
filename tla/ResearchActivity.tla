--------------------------- MODULE ResearchActivity ---------------------------
(***************************************************************************)
(* The public research activity of the control plane: reviewed records are *)
(* imported, a record may be superseded by one newer record of the same    *)
(* activity, and nothing is ever changed or deleted                        *)
(* (glim-think/src/workspace/researchActivity.ts, migrations 0021, 0023).  *)
(* Readers page through the archive along a fixed snapshot while imports   *)
(* go on.                                                                  *)
(*                                                                         *)
(* Every SQL statement of an import is a step; the triggers of the table   *)
(* belong to its INSERT.                                                   *)
(***************************************************************************)
EXTENDS Naturals, Sequences

CONSTANTS
  Records,    \* reviewed records that may be submitted
  NoId,       \* supersedes of a first record
  NoRecord,   \* no record
  Importers,  \* import requests under way at one time
  Readers,    \* clients that read the archive
  Limit       \* records of a page

ASSUME ActivityAssumption ==
  /\ \A r \in Records :
       /\ {r.observed, r.reviewed} \subseteq Nat
       /\ r.id # NoId
       /\ r.corrected \in BOOLEAN
  /\ NoRecord \notin Records
  /\ Limit \in Nat \ {0}

VARIABLES
  archive,   \* public_research_activity, in the order of
             \* public_activity_archive_sequence
  importer,  \* the import requests
  reader     \* the clients' position in the archive and what they were sent

vars == <<archive, importer, reader>>

Saved == {archive[n] : n \in DOMAIN archive}

\* NOT EXISTS (... successor WHERE successor.supersedes_id = a.id)
Latest(a) == \A s \in Saved : s.supersedes # a.id

Terminal == {"completed", "failed"}

\* assertSuccessor, without its look at the predecessor's id.
Follows(previous, record) ==
  /\ record.activity = previous.activity
  /\ record.kind = previous.kind
  /\ record.observed >= previous.observed
  /\ record.reviewed > previous.reviewed
  /\ IF previous.state \in Terminal
     THEN record.state = previous.state /\ record.corrected
     ELSE record.state = "planned" => previous.state = "planned"

\* Deviation: nothing keeps a record from having two successors.
InsertableBeside(record) ==
  /\ \A s \in Saved : s.id # record.id
  /\ IF record.supersedes = NoId
     THEN \A s \in Saved : s.activity # record.activity
     ELSE \E previous \in Saved :
            previous.id = record.supersedes /\ Follows(previous, record)

\* What the trigger public_activity_validate_insert and the unique indexes ask
\* of a new record.
Insertable(record) ==
  /\ \A s \in Saved : s.id # record.id
  /\ IF record.supersedes = NoId
     THEN \A s \in Saved : s.activity # record.activity
     ELSE \E previous \in Saved :
            /\ previous.id = record.supersedes
            /\ Latest(previous)
            /\ Follows(previous, record)

Answers == {"none", "saved", "duplicate", "conflict", "unavailable"}
ImporterState ==
  [phase : {"idle", "latest", "insert"}, record : Records \cup {NoRecord},
   answer : Answers]
ReaderState ==
  [phase : {"idle", "paging", "complete"}, after : Nat, snapshot : Nat,
   received : Seq(Records)]

\* The type invariant.
TypeOK ==
  /\ archive \in Seq(Records)
  /\ importer \in [Importers -> ImporterState]
  /\ \A i \in Importers :
       importer[i].phase # "idle" => importer[i].record \in Records
  /\ reader \in [Readers -> ReaderState]

-----------------------------------------------------------------------------
Unread == [phase |-> "idle", after |-> 0, snapshot |-> 0, received |-> <<>>]

Init ==
  /\ archive = <<>>
  /\ importer = [i \in Importers |->
       [phase |-> "idle", record |-> NoRecord, answer |-> "none"]]
  /\ reader = [c \in Readers |-> Unread]

-----------------------------------------------------------------------------
\* importPublicResearchActivity.

\* The request of i goes on to a phase, or is answered.
Goes(i, phase, record) == importer' =
  [importer EXCEPT ![i] =
     [phase |-> phase, record |-> record, answer |-> "none"]]

Answered(i, record, answer) == importer' =
  [importer EXCEPT ![i] =
     [phase |-> "idle", record |-> record, answer |-> answer]]

\* The SELECT by id: the same record again is a duplicate, another one with
\* the id of a saved one a conflict.
Submit(i, record) ==
  /\ importer[i].phase = "idle"
  /\ \/ /\ record \in Saved
        /\ Answered(i, record, "duplicate")
     \/ /\ record \notin Saved
        /\ \E s \in Saved : s.id = record.id
        /\ Answered(i, record, "conflict")
     \/ /\ \A s \in Saved : s.id # record.id
        /\ Goes(i, "latest", record)
  /\ UNCHANGED <<archive, reader>>

\* The SELECT of the latest record of the activity, and assertSuccessor.
ReadLatest(i) ==
  LET record == importer[i].record
      latest == {a \in Saved : a.activity = record.activity /\ Latest(a)}
      Fits == \/ latest = {} /\ record.supersedes = NoId
              \/ \E a \in latest : record.supersedes = a.id /\ Follows(a, record)
  IN
  /\ importer[i].phase = "latest"
  /\ \/ Fits /\ Goes(i, "insert", record)
     \/ ~Fits /\ Answered(i, record, "conflict")
  /\ UNCHANGED <<archive, reader>>

\* Deviation: the number of changed rows is not looked at.
InsertUncounted(i) ==
  LET record == importer[i].record IN
  /\ importer[i].phase = "insert"
  /\ \/ /\ record \in Saved \/ Insertable(record)
        /\ archive' = IF record \in Saved THEN archive
                      ELSE Append(archive, record)
        /\ Answered(i, record, "saved")
     \/ /\ record \notin Saved
        /\ ~Insertable(record)
        /\ Answered(i, record, "unavailable")
        /\ UNCHANGED archive
  /\ UNCHANGED reader

\* The INSERT.  A record another request has saved in the meantime changes no
\* row; one that no longer fits is refused by the trigger with an error.
Insert(i) ==
  LET record == importer[i].record IN
  /\ importer[i].phase = "insert"
  /\ \/ /\ record \in Saved
        /\ Answered(i, record, "conflict")
        /\ UNCHANGED archive
     \/ /\ record \notin Saved
        /\ ~Insertable(record)
        /\ Answered(i, record, "unavailable")
        /\ UNCHANGED archive
     \/ /\ Insertable(record)
        /\ archive' = Append(archive, record)
        /\ Answered(i, record, "saved")
  /\ UNCHANGED reader

\* A statement fails, or the Worker ends; an INSERT may have been applied.
Fails(i) ==
  LET record == importer[i].record IN
  /\ importer[i].phase # "idle"
  /\ Answered(i, record, "unavailable")
  /\ \/ UNCHANGED archive
     \/ /\ importer[i].phase = "insert"
        /\ Insertable(record)
        /\ archive' = Append(archive, record)
  /\ UNCHANGED reader

\* A reviewed record is inserted offline, under the same trigger.
InsertOffline(record) ==
  /\ Insertable(record)
  /\ archive' = Append(archive, record)
  /\ UNCHANGED <<importer, reader>>

-----------------------------------------------------------------------------
\* archivePublicResearchActivity.

\* The first request of a client fixes the snapshot at the last sequence.
OpenArchive(c) ==
  /\ reader[c].phase = "idle"
  /\ reader' = [reader EXCEPT ![c] =
       [phase |-> "paging", after |-> 0, snapshot |-> Len(archive),
        received |-> <<>>]]
  /\ UNCHANGED <<archive, importer>>

\* Deviation: a page reads to the end of the archive, not of the snapshot.
PageEndOfArchive(c) ==
  IF Len(archive) - reader[c].after > Limit
  THEN reader[c].after + Limit
  ELSE Len(archive)

\* The last sequence of the page after the cursor.
PageEnd(c) ==
  IF reader[c].snapshot - reader[c].after > Limit
  THEN reader[c].after + Limit
  ELSE reader[c].snapshot

\* A page: sequence > after AND sequence <= snapshot, one more than the limit
\* to see whether another page follows.
ReadPage(c) ==
  /\ reader[c].phase = "paging"
  /\ reader' = [reader EXCEPT ![c] =
       [phase |-> IF PageEnd(c) = reader[c].snapshot
                  THEN "complete" ELSE "paging",
        after |-> PageEnd(c),
        snapshot |-> reader[c].snapshot,
        received |-> reader[c].received \o
                     SubSeq(archive, reader[c].after + 1, PageEnd(c))]]
  /\ UNCHANGED <<archive, importer>>

\* The client is done with the archive, or loses its answer and begins again.
CloseArchive(c) ==
  /\ reader[c].phase # "idle"
  /\ reader' = [reader EXCEPT ![c] = Unread]
  /\ UNCHANGED <<archive, importer>>

-----------------------------------------------------------------------------
Importing(i) ==
  \/ \E record \in Records : Submit(i, record)
  \/ ReadLatest(i)
  \/ Insert(i)
  \/ Fails(i)

Reading(c) == OpenArchive(c) \/ ReadPage(c) \/ CloseArchive(c)

Next ==
  \/ \E i \in Importers : Importing(i)
  \/ \E record \in Records : InsertOffline(record)
  \/ \E c \in Readers : Reading(c)

Spec == Init /\ [][Next]_vars

-----------------------------------------------------------------------------
\* An id names one record, and no record of an activity has two successors.
OneLine ==
  \A r, s \in Saved :
    /\ r.id = s.id => r = s
    /\ r.activity = s.activity /\ r.supersedes = s.supersedes => r = s

\* A record supersedes a record of its activity that the archive lists before
\* it, of the same kind, observed no later and reviewed before, and a terminal
\* result stays what it is.
RevisionsRunForward ==
  \A n \in DOMAIN archive :
    archive[n].supersedes # NoId =>
      \E m \in DOMAIN archive :
        /\ m < n
        /\ archive[m].id = archive[n].supersedes
        /\ Follows(archive[m], archive[n])

\* Whatever imports race, the saved records of an activity are one line of
\* revisions that runs forward, although the request reads the latest record
\* and compares the two with a statement of its own before the INSERT.
OneHistory == OneLine /\ RevisionsRunForward

\* Only one of the requests that submit a record is told it has saved it, and
\* whoever is told "saved" or "duplicate" finds that record.
AnswersAreTrue ==
  \A i, j \in Importers :
    /\ importer[i].answer \in {"saved", "duplicate"} => importer[i].record \in Saved
    /\ importer[i].answer = "saved" /\ importer[j].answer = "saved" /\ i # j
       => importer[i].record.id # importer[j].record.id

\* A client that follows the cursor receives every record of its snapshot once
\* and in order, whatever is imported while it reads.
PagesTileTheSnapshot ==
  \A c \in Readers :
    /\ reader[c].received = SubSeq(archive, 1, reader[c].after)
    /\ reader[c].after <= reader[c].snapshot
    /\ reader[c].snapshot <= Len(archive)
    /\ reader[c].phase = "complete" => reader[c].after = reader[c].snapshot

-----------------------------------------------------------------------------
\* Refinement.

\* What the clients are told of a record that is public.
Told ==
  [i \in Importers |->
     IF importer[i].answer \in {"saved", "duplicate"}
     THEN <<importer[i].answer, importer[i].record>> ELSE <<>>]

\* What the readers have of the archive.
Copy ==
  [c \in Readers |-> [phase |-> reader[c].phase, text |-> reader[c].received,
                      upto |-> reader[c].snapshot]]

\* The log of revisions that the archive, its imports and its pages stand for.
Log == INSTANCE RevisionLog WITH
  log <- archive,
  told <- Told,
  copy <- Copy,
  Revisions <- {pair \in Records \X Records : Follows(pair[1], pair[2])},
  Clients <- Importers

\* Each import takes effect at once or not at all, and a reader pages through
\* what was public when it began: the statements of the imports, which look for
\* a record without a successor, the triggers and the cursor implement the log
\* (researchActivity.ts:42-129).
ImplementsRevisionLog == Log!Spec
=============================================================================
