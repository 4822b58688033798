----------------------------- MODULE Scoreboard -----------------------------
(***************************************************************************)
(* What a campaign shows its readers, with no dispatch, no run, no request *)
(* and no retirement: the scores of a cell are replaced only by those of a *)
(* newer observation, a triplet is judged on scores that its cells showed  *)
(* at one time, and the campaign is closed as completed only when each of  *)
(* its cells has been completed.  An evaluation may take its time: the     *)
(* verdict it ends with is over the scores it began with, and replaces any *)
(* other.  Nothing forbids to open a closed campaign again: the code does. *)
(* Campaigns implements this specification.                                *)
(***************************************************************************)
EXTENDS Integers

CONSTANTS
  Cells,        \* the cells of the campaign
  Triplets,     \* the triplets
  TripletOf     \* the triplet of each cell

VARIABLES
  score,        \* per cell: the time of the observation its scores come from,
                \* 0 for none
  completed,    \* the cells a completed result was shown for
  evaluations,  \* the evaluations that have begun: of a triplet, on scores
  judged,       \* the triplets with a verdict
  judgedOn,     \* per cell: the scores that the verdict of its triplet is over
  closed        \* is the campaign shown as completed?

vars == <<score, completed, evaluations, judged, judgedOn, closed>>

Init ==
  /\ score = [c \in Cells |-> 0]
  /\ completed = {}
  /\ evaluations = {}
  /\ judged = {}
  /\ judgedOn = [c \in Cells |-> 0]
  /\ closed = FALSE

\* A result: with newer scores, or of a completed run, or both.
Record(c) ==
  /\ \/ score' = score
     \/ score'[c] > score[c] /\ score' = [score EXCEPT ![c] = score'[c]]
  /\ completed' = completed \/ completed' = completed \cup {c}
  /\ UNCHANGED <<evaluations, judged, judgedOn, closed>>

Begin(t) ==
  /\ evaluations' = evaluations \cup {[of |-> t, on |-> score]}
  /\ UNCHANGED <<score, completed, judged, judgedOn, closed>>

\* Several evaluations may be of the same triplet on the same scores.
Ends(e) == evaluations' = evaluations \/ evaluations' = evaluations \ {e}

Judge(e) ==
  /\ Ends(e)
  /\ judged' = judged \cup {e.of}
  /\ judgedOn' = [c \in Cells |->
       IF TripletOf[c] = e.of THEN e.on[c] ELSE judgedOn[c]]
  /\ UNCHANGED <<score, completed, closed>>

GiveUp(e) ==
  /\ Ends(e)
  /\ UNCHANGED <<score, completed, judged, judgedOn, closed>>

Close ==
  /\ completed = Cells
  /\ ~closed /\ closed' = TRUE
  /\ UNCHANGED <<score, completed, evaluations, judged, judgedOn>>

Reopen ==
  /\ closed /\ closed' = FALSE
  /\ UNCHANGED <<score, completed, evaluations, judged, judgedOn>>

Next ==
  \/ \E c \in Cells : Record(c)
  \/ \E t \in Triplets : Begin(t)
  \/ \E e \in evaluations : Judge(e) \/ GiveUp(e)
  \/ Close
  \/ Reopen

Spec == Init /\ [][Next]_vars
=============================================================================
