---------------------------- MODULE HerdrTelemetry ----------------------------
(***************************************************************************)
(* The telemetry loop of the herdr bridge                                  *)
(* (tools/herdr-bridge/src/telemetry.ts): a subscriber that hears the      *)
(* status changes of the panes it is subscribed to, a bounded buffer of    *)
(* beats, and a single sender that posts them to the worker's table        *)
(* lab_beats (glim-think/src/feed/beats.ts).                               *)
(*                                                                         *)
(* The daemon runs on one thread: what lies between two awaits is a step.  *)
(* A beat is its sequence number, which is the part of beat_id that tells  *)
(* the beats of a daemon apart.                                            *)
(***************************************************************************)
EXTENDS Naturals, Sequences, FiniteSets

CONSTANTS
  Panes,        \* panes of the machine
  Statuses,     \* agent statuses
  Unknown,      \* no status is known
  Absent,       \* there is no such pane
  MaxBuffered,  \* options.maxBuffered
  MaxBeats      \* bounds the beats of a daemon

ASSUME TelemetryAssumption ==
  /\ MaxBuffered \in Nat \ {0}
  /\ MaxBeats \in Nat
  /\ Unknown \notin Statuses
  /\ Absent \notin Statuses

VARIABLES
  herdr,       \* the status of each pane, as herdr knows it
  subscriber,  \* subscribeLoop: the panes it is subscribed to
  lastStatus,  \* this.lastStatus
  buffer,      \* this.buffer
  stats,       \* this.stats; received is also this.seq
  sender,      \* sendLoop: where it waits, and for which beat
  lab_beats,   \* the beats the worker has stored
  aborted      \* signal.aborted

vars == <<herdr, subscriber, lastStatus, buffer, stats, sender, lab_beats,
          aborted>>

daemon == <<subscriber, lastStatus>>
sending == <<buffer, stats, sender, lab_beats>>

Waits == {"wait", "woken", "posting", "backoff", "draining", "stopped"}

\* The type invariant.
TypeOK ==
  /\ herdr \in [Panes -> Statuses \cup {Absent}]
  /\ subscriber \in
       [phase : {"list", "connect", "subscribed", "closed"},
        panes : SUBSET Panes, rebuild : BOOLEAN]
  /\ lastStatus \in [Panes -> Statuses \cup {Unknown}]
  /\ buffer \in Seq(1 .. stats.received)
  /\ Len(buffer) <= MaxBuffered
  /\ stats \in [received : 0 .. MaxBeats, sent : Nat, dropped : Nat, failed : Nat]
  /\ sender \in [phase : Waits, beat : 0 .. stats.received]
  /\ lab_beats \subseteq 1 .. stats.received
  /\ aborted \in BOOLEAN

-----------------------------------------------------------------------------
Init ==
  /\ herdr \in [Panes -> Statuses \cup {Absent}]
  /\ subscriber = [phase |-> "list", panes |-> {}, rebuild |-> FALSE]
  /\ lastStatus = [p \in Panes |-> Unknown]
  /\ buffer = <<>>
  /\ stats = [received |-> 0, sent |-> 0, dropped |-> 0, failed |-> 0]
  /\ sender = [phase |-> "wait", beat |-> 0]
  /\ lab_beats = {}
  /\ aborted = FALSE

-----------------------------------------------------------------------------
\* Events of herdr.

Subscribed == subscriber.phase = "subscribed"

\* Deviation: nobody calls wake().
Asleep == sender

\* wake(): the sender resumes after the current event.
Woken == [sender EXCEPT !.phase = IF @ = "wait" THEN "woken" ELSE @]

\* Deviation: the oldest beat goes without being counted.
IngestUncounted(p, s) ==
  \/ /\ lastStatus[p] = s
     /\ UNCHANGED <<lastStatus, sending>>
  \/ /\ lastStatus[p] # s
     /\ stats.received < MaxBeats
     /\ lastStatus' = [lastStatus EXCEPT ![p] = s]
     /\ buffer' = Append(
          IF Len(buffer) >= MaxBuffered THEN Tail(buffer) ELSE buffer,
          stats.received + 1)
     /\ stats' = [stats EXCEPT !.received = @ + 1]
     /\ sender' = Woken
     /\ UNCHANGED lab_beats

\* ingest: a status that differs from the last one becomes a beat; when the
\* buffer is full its oldest beat goes, even while it is being posted.
Ingest(p, s) ==
  \/ /\ lastStatus[p] = s
     /\ UNCHANGED <<lastStatus, sending>>
  \/ /\ lastStatus[p] # s
     /\ stats.received < MaxBeats
     /\ lastStatus' = [lastStatus EXCEPT ![p] = s]
     /\ LET full == Len(buffer) >= MaxBuffered
            beat == stats.received + 1
        IN /\ buffer' = Append(IF full THEN Tail(buffer) ELSE buffer, beat)
           /\ stats' = [stats EXCEPT
                !.received = beat,
                !.dropped = IF full THEN stats.dropped + 1 ELSE stats.dropped]
     /\ sender' = Woken
     /\ UNCHANGED lab_beats

\* A pane reports a status, or the same again; only panes of the subscription
\* are heard.
StatusChanges(p, s) ==
  /\ herdr[p] # Absent
  /\ herdr' = [herdr EXCEPT ![p] = s]
  /\ \/ /\ Subscribed /\ p \in subscriber.panes
        /\ Ingest(p, s)
     \/ /\ ~(Subscribed /\ p \in subscriber.panes)
        /\ UNCHANGED <<lastStatus, sending>>
  /\ UNCHANGED <<subscriber, aborted>>

\* pane.created asks for another subscription.
PaneCreated(p, s) ==
  /\ herdr[p] = Absent
  /\ herdr' = [herdr EXCEPT ![p] = s]
  /\ subscriber' = [subscriber EXCEPT !.rebuild = @ \/ Subscribed]
  /\ UNCHANGED <<lastStatus, sending, aborted>>

\* pane.closed forgets the pane's status.
PaneClosed(p) ==
  /\ herdr[p] # Absent
  /\ herdr' = [herdr EXCEPT ![p] = Absent]
  /\ lastStatus' = IF Subscribed THEN [lastStatus EXCEPT ![p] = Unknown]
                   ELSE lastStatus
  /\ UNCHANGED <<subscriber, sending, aborted>>

\* The dispatcher is done with the pane of a job.
Forget(p) ==
  /\ lastStatus' = [lastStatus EXCEPT ![p] = Unknown]
  /\ UNCHANGED <<herdr, subscriber, sending, aborted>>

-----------------------------------------------------------------------------
\* subscribeLoop.

Enters(phase, panes) ==
  subscriber' = [phase |-> phase, panes |-> panes, rebuild |-> FALSE]

\* The loop begins again, or ends after the signal.
BeginsAgain == Enters(IF aborted THEN "closed" ELSE "list", {})

\* paneList answers.
ListPanes ==
  /\ subscriber.phase = "list"
  /\ Enters("connect", {p \in Panes : herdr[p] # Absent})
  /\ UNCHANGED <<herdr, lastStatus, sending, aborted>>

\* herdr acknowledges the subscription to the panes of the list.
Subscribe ==
  /\ subscriber.phase = "connect"
  /\ Enters("subscribed", subscriber.panes)
  /\ UNCHANGED <<herdr, lastStatus, sending, aborted>>

\* The subscription is refused or not acknowledged, or herdr drops it.
SubscriptionFails ==
  /\ subscriber.phase \in {"connect", "subscribed"}
  /\ BeginsAgain
  /\ UNCHANGED <<herdr, lastStatus, sending, aborted>>

\* Deviation: the panes are not listed again.
RebuildUnlisted ==
  /\ Subscribed /\ subscriber.rebuild
  /\ Enters("connect", subscriber.panes)
  /\ UNCHANGED <<herdr, lastStatus, sending, aborted>>

\* The subscription is closed, to list the panes again.
Rebuild ==
  /\ Subscribed /\ subscriber.rebuild
  /\ BeginsAgain
  /\ UNCHANGED <<herdr, lastStatus, sending, aborted>>

\* The signal ends the loop before it lists, or while it is subscribed.
SubscriberCloses ==
  /\ aborted
  /\ subscriber.phase \in {"list", "subscribed"}
  /\ Enters("closed", {})
  /\ UNCHANGED <<herdr, lastStatus, sending, aborted>>

-----------------------------------------------------------------------------
\* sendLoop.

\* The loop goes on with what is left in the buffer: it waits, or takes the
\* oldest beat; after the signal it drains the buffer, each beat once.
Continue(left) ==
  \/ /\ ~aborted /\ left = <<>>
     /\ sender' = [sender EXCEPT !.phase = "wait"]
     /\ buffer' = left
  \/ /\ ~aborted /\ left # <<>>
     /\ sender' = [phase |-> "posting", beat |-> Head(left)]
     /\ buffer' = left
  \/ /\ aborted /\ left # <<>>
     /\ sender' = [phase |-> "draining", beat |-> Head(left)]
     /\ buffer' = Tail(left)
  \/ /\ aborted /\ left = <<>>
     /\ sender' = [sender EXCEPT !.phase = "stopped"]
     /\ buffer' = left

SenderWakes ==
  /\ sender.phase = "woken"
  /\ Continue(buffer)
  /\ UNCHANGED <<herdr, daemon, stats, lab_beats, aborted>>

\* The worker has the beat, for the first time or again (ON CONFLICT DO
\* NOTHING), and says so: buffer.shift() takes the beat at the head now.
PostSucceeds ==
  /\ sender.phase = "posting"
  /\ lab_beats' = lab_beats \cup {sender.beat}
  /\ stats' = [stats EXCEPT !.sent = @ + 1]
  /\ Continue(Tail(buffer))
  /\ UNCHANGED <<herdr, daemon, aborted>>

\* Deviation: a refused beat counts as sent.
PostRefusedAsSent ==
  /\ sender.phase = "posting"
  /\ stats' = [stats EXCEPT !.sent = @ + 1]
  /\ Continue(Tail(buffer))
  /\ UNCHANGED <<herdr, daemon, lab_beats, aborted>>

\* An answer that no retry can help.
PostRefused ==
  /\ sender.phase = "posting"
  /\ stats' = [stats EXCEPT !.failed = @ + 1]
  /\ Continue(Tail(buffer))
  /\ UNCHANGED <<herdr, daemon, lab_beats, aborted>>

\* The worker has the beat, or not; one that arrives after the post has timed
\* out is taken to arrive before.
Uncertain(beat) == lab_beats' \in {lab_beats, lab_beats \cup {beat}}

\* Deviation: a beat that failed goes to the end of the buffer.
PostFailsToTheEnd ==
  /\ sender.phase = "posting"
  /\ Uncertain(sender.beat)
  /\ buffer' = Append(Tail(buffer), Head(buffer))
  /\ sender' = [sender EXCEPT !.phase = "backoff"]
  /\ UNCHANGED <<herdr, daemon, stats, aborted>>

\* No answer, or one of the worker's errors: the beat stays where it is.
PostFails ==
  /\ sender.phase = "posting"
  /\ Uncertain(sender.beat)
  /\ sender' = [sender EXCEPT !.phase = "backoff"]
  /\ UNCHANGED <<herdr, daemon, buffer, stats, aborted>>

BackoffEnds ==
  /\ sender.phase = "backoff"
  /\ Continue(buffer)
  /\ UNCHANGED <<herdr, daemon, stats, lab_beats, aborted>>

DrainSucceeds ==
  /\ sender.phase = "draining"
  /\ lab_beats' = lab_beats \cup {sender.beat}
  /\ stats' = [stats EXCEPT !.sent = @ + 1]
  /\ Continue(buffer)
  /\ UNCHANGED <<herdr, daemon, aborted>>

\* Deviation: the drain tries a beat again until it is sent.
DrainFailsAgain ==
  /\ sender.phase = "draining"
  /\ Uncertain(sender.beat)
  /\ buffer' = <<sender.beat>> \o buffer
  /\ sender' = [sender EXCEPT !.phase = "backoff"]
  /\ UNCHANGED <<herdr, daemon, stats, aborted>>

DrainFails ==
  /\ sender.phase = "draining"
  /\ Uncertain(sender.beat)
  /\ stats' = [stats EXCEPT !.failed = @ + 1]
  /\ Continue(buffer)
  /\ UNCHANGED <<herdr, daemon, aborted>>

\* SIGINT or SIGTERM; a waiting sender is woken.
Abort ==
  /\ ~aborted
  /\ aborted' = TRUE
  /\ sender' = Woken
  /\ UNCHANGED <<herdr, daemon, buffer, stats, lab_beats>>

-----------------------------------------------------------------------------
Herdr ==
  \E p \in Panes :
    \/ \E s \in Statuses : StatusChanges(p, s) \/ PaneCreated(p, s)
    \/ PaneClosed(p)
    \/ Forget(p)

Subscribing ==
  ListPanes \/ Subscribe \/ SubscriptionFails \/ Rebuild \/ SubscriberCloses

Posting ==
  PostSucceeds \/ PostRefused \/ PostFails \/ DrainSucceeds \/ DrainFails

Sending == SenderWakes \/ BackoffEnds \/ Posting

Next ==
  \/ Herdr
  \/ Subscribing
  \/ Sending
  \/ Abort

\* Both loops go on; a post is answered or times out; herdr and the worker are
\* not unreachable for ever.
Fairness ==
  /\ WF_vars(Sending)
  /\ WF_vars(ListPanes)
  /\ WF_vars(Rebuild)
  /\ WF_vars(SubscriberCloses)
  /\ SF_vars(Subscribe)
  /\ SF_vars(PostSucceeds)

Spec == Init /\ [][Next]_vars /\ Fairness

-----------------------------------------------------------------------------
Buffered == {buffer[n] : n \in DOMAIN buffer}

Underway == IF sender.phase \in {"posting", "draining", "backoff"}
            THEN {sender.beat} ELSE {}

\* Every status change that was heard is counted once: as sent, dropped, failed
\* or still buffered.
EveryBeatCounted ==
  stats.received = stats.sent + stats.dropped + stats.failed + Len(buffer)
                   + (IF sender.phase = "draining" THEN 1 ELSE 0)

\* The daemon loses no more beats than it counts as dropped or failed, although
\* the beat at the head of the buffer may not be the one that was posted when
\* the answer comes.
LossesAreCounted ==
  Cardinality((1 .. stats.received) \ (lab_beats \cup Buffered \cup Underway))
  <= stats.dropped + stats.failed

\* The sender never goes back: a beat is posted after the ones before it, also
\* when the buffer overflows during a retry.
PostsRunForward == [][sender'.beat >= sender.beat]_vars

\* The sender never sleeps over a beat: what is buffered leaves the buffer, or
\* the daemon stops.
BufferDrains ==
  \A n \in 1 .. MaxBeats :
    n \in Buffered ~> n \notin Buffered \/ sender.phase = "stopped"

\* A pane whose creation was announced to the subscription is subscribed to,
\* unless it is closed before or the daemon stops.
AnnouncedPanesAreCovered ==
  \A p \in Panes :
    Subscribed /\ subscriber.rebuild /\ herdr[p] # Absent
    ~> \/ Subscribed /\ p \in subscriber.panes
       \/ herdr[p] = Absent
       \/ aborted

\* After the signal both loops end, whatever the worker answers.
ShutdownEnds ==
  aborted ~> sender.phase = "stopped" /\ subscriber.phase = "closed"
=============================================================================
