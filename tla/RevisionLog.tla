----------------------------- MODULE RevisionLog -----------------------------
(***************************************************************************)
(* What the public research activity promises, with no request that reads  *)
(* before it writes, no trigger and no cursor: one log, in which a record  *)
(* of an activity is the first of it or replaces the one that the log      *)
(* lists last; a client is told "saved" for a record that it alone added   *)
(* and "duplicate" for one that is there; and a reader's copy is a growing *)
(* prefix of the log up to its length when the reader began.               *)
(* ResearchActivity implements this specification.                         *)
(***************************************************************************)
EXTENDS Naturals, Sequences

CONSTANTS
  Records,    \* the records that may be published
  NoId,       \* supersedes of a first record
  Revisions,  \* the pairs <<old, new>> in which new may replace old
  Clients,    \* who publishes
  Readers     \* who reads

VARIABLES
  log,        \* the published records
  told,       \* told[i]: what the client i was told of a record, or <<>>
  copy        \* copy[c]: what the reader c has of the log

vars == <<log, told, copy>>

Closed == [phase |-> "idle", text |-> <<>>, upto |-> 0]

Init ==
  /\ log = <<>>
  /\ told = [i \in Clients |-> <<>>]
  /\ copy = [c \in Readers |-> Closed]

\* The n-th record is the newest of its activity.
Newest(n) == \A m \in DOMAIN log : log[m].activity = log[n].activity => m <= n

Fresh(r) ==
  /\ r.supersedes = NoId
  /\ \A n \in DOMAIN log : log[n].activity # r.activity

Replaces(r, n) ==
  /\ Newest(n)
  /\ log[n].id = r.supersedes
  /\ <<log[n], r>> \in Revisions

\* Its client is told, or is not, or nobody asked.
Publish(r) ==
  /\ \A n \in DOMAIN log : log[n].id # r.id
  /\ Fresh(r) \/ \E n \in DOMAIN log : Replaces(r, n)
  /\ log' = Append(log, r)
  /\ \/ UNCHANGED told
     \/ \E i \in Clients, receipt \in {<<>>, <<"saved", r>>} :
          told' = [told EXCEPT ![i] = receipt]
  /\ UNCHANGED copy

Confirm(i, r) ==
  /\ \E n \in DOMAIN log : log[n] = r
  /\ told' = [told EXCEPT ![i] = <<"duplicate", r>>]
  /\ UNCHANGED <<log, copy>>

\* A client is told nothing of its record, or asks anew.
Silence(i) ==
  /\ told' = [told EXCEPT ![i] = <<>>]
  /\ UNCHANGED <<log, copy>>

Open(c) ==
  /\ copy[c].phase = "idle"
  /\ copy' = [copy EXCEPT ![c] =
       [phase |-> "paging", text |-> <<>>, upto |-> Len(log)]]
  /\ UNCHANGED <<log, told>>

Read(c) ==
  /\ copy[c].phase = "paging"
  /\ \E n \in Len(copy[c].text) .. copy[c].upto :
       copy' = [copy EXCEPT ![c] =
         [phase |-> IF n = copy[c].upto THEN "complete" ELSE "paging",
          text |-> SubSeq(log, 1, n), upto |-> copy[c].upto]]
  /\ UNCHANGED <<log, told>>

Close(c) ==
  /\ copy' = [copy EXCEPT ![c] = Closed]
  /\ UNCHANGED <<log, told>>

Next ==
  \/ \E r \in Records : Publish(r) \/ \E i \in Clients : Confirm(i, r)
  \/ \E i \in Clients : Silence(i)
  \/ \E c \in Readers : Open(c) \/ Read(c) \/ Close(c)

Spec == Init /\ [][Next]_vars
=============================================================================
