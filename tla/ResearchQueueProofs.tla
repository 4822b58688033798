------------------------ MODULE ResearchQueueProofs ------------------------
(***************************************************************************)
(* Proofs about ResearchQueue, for every number of calls, keys, consumers  *)
(* and retries.                                                            *)
(***************************************************************************)
EXTENDS ResearchQueue, TLAPS

\* What the progress of a call says about its row and its message.
CallerInv(j) ==
    /\ caller[j] \in {"new", "checked", "duplicate"} =>
          row[j].outcome = "absent" /\ message[j].at = "unsent"
    /\ caller[j] = "inserted" =>
          row[j].outcome = "pending" /\ message[j].at = "unsent"
    /\ caller[j] = "enqueued" =>
          row[j].outcome # "absent" /\ message[j].at # "unsent"

MessageInv(j) ==
    /\ message[j].at = "acked" => row[j].outcome # "pending"
    /\ row[j].outcome = "success" /\ message[j].failures = 0 =>
          message[j].at \in {"leased", "acked"}

\* A message that never came back has one consumer, which has nothing left to
\* record once it has recorded a success.
ConsumerInv(c) ==
    consumer[c].at # "idle" =>
        /\ message[consumer[c].job].at # "unsent"
        /\ consumer[c].at = "ack" => row[consumer[c].job].outcome # "pending"
        /\ message[consumer[c].job].failures = 0 =>
              /\ message[consumer[c].job].at = "leased"
              /\ message[consumer[c].job].holder = c
              /\ row[consumer[c].job].outcome = "success" => consumer[c].at = "ack"

IInv ==
    /\ TypeOK
    /\ \A j \in Jobs : CallerInv(j) /\ MessageInv(j)
    /\ \A c \in Consumers : ConsumerInv(c)
    /\ DuplicateNamesAJob

-------------------------------------------------------------------------------
(* Types.                                                                  *)

LEMMA ConstantTypes ==
  NoHolder \in Consumers /\ Idle \in Consumer /\ Unsent \in Message /\ NoRow \in Row
  BY QueueAssumption DEF NoHolder, Idle, Unsent, NoRow, Consumer, Message, Row, Outcome

-------------------------------------------------------------------------------
LEMMA RowTypes ==
  ASSUME TypeOK, NEW j \in Jobs
  PROVE  /\ {Inserted(j), Deleted(j), Failed(j), Started(j)} \subseteq [Jobs -> Row]
         /\ \A o \in {"success", "failed"} : Finished(j, o) \in [Jobs -> Row]
  <1>1. row \in [Jobs -> Row] /\ row[j] \in Row
    BY DEF TypeOK, Row
  <1>2. /\ [outcome |-> "pending", started |-> FALSE] \in Row
        /\ \A o \in {"success", "failed"} : [row[j] EXCEPT !.outcome = o] \in Row
        /\ [row[j] EXCEPT !.started = TRUE] \in Row
    BY <1>1 DEF Row, Outcome
  <1>3. QED
    BY <1>1, <1>2, ConstantTypes DEF Inserted, Deleted, Failed, Started, Finished

LEMMA MessageTypes ==
  ASSUME TypeOK, NEW j \in Jobs
  PROVE  /\ {Sent(j), Returned(j)} \subseteq [Jobs -> Message]
         /\ [message EXCEPT ![j] = [@ EXCEPT !.at = "acked", !.holder = NoHolder]]
               \in [Jobs -> Message]
  <1>1. message \in [Jobs -> Message] /\ message[j] \in Message /\ message[j].failures + 1 \in Nat
    BY DEF TypeOK, Message
  <1>2. /\ [message[j] EXCEPT !.at = "ready"] \in Message
        /\ [message[j] EXCEPT !.at = "acked", !.holder = NoHolder] \in Message
        /\ \A at \in {"ready", "dead"} :
              [at |-> at, holder |-> NoHolder, failures |-> message[j].failures + 1] \in Message
    BY <1>1, ConstantTypes DEF Message
  <1>3. QED
    BY <1>1, <1>2 DEF Sent, Returned

LEMMA GiveUpTypes ==
  ASSUME TypeOK, NEW c \in Consumers, GiveUp(c)
  PROVE  message' \in [Jobs -> Message] /\ consumer' \in [Consumers -> Consumer]
  <1>1. consumer[c].job \in Jobs
    BY DEF TypeOK, Consumer
  <1>2. QED
    BY <1>1, MessageTypes, ConstantTypes DEF GiveUp, TypeOK

LEMMA AdvanceTypes ==
  ASSUME TypeOK, NEW c \in Consumers, NEW at \in {"start", "run", "success", "failed", "ack"},
         Advance(c, at)
  PROVE  consumer' \in [Consumers -> Consumer] /\ consumer[c].job \in Jobs
  BY DEF Advance, TypeOK, Consumer

-------------------------------------------------------------------------------
(* Every action keeps the invariant.                                       *)

LEMMA CheckFindsNoneStep ==
  ASSUME IInv, NEW j \in Jobs, CheckFindsNone(j)
  PROVE  IInv'
  <1>1. TypeOK'
    BY DEF IInv, CheckFindsNone, Goto, TypeOK, Phase
  <1>2. ASSUME NEW k \in Jobs
        PROVE  CallerInv(k)' /\ MessageInv(k)'
    BY DEF IInv, CheckFindsNone, Goto, CallerInv, MessageInv
  <1>3. ASSUME NEW d \in Consumers
        PROVE  ConsumerInv(d)'
    BY DEF IInv, CheckFindsNone, ConsumerInv
  <1>4. DuplicateNamesAJob'
    BY DEF IInv, CheckFindsNone, Goto, DuplicateNamesAJob
  <1>5. QED
    BY <1>1, <1>2, <1>3, <1>4 DEF IInv

LEMMA CheckFindsStep ==
  ASSUME IInv, NEW j \in Jobs, CheckFinds(j)
  PROVE  IInv'
  <1>1. TypeOK'
    BY DEF IInv, CheckFinds, Existing, Goto, TypeOK, Phase
  <1>2. ASSUME NEW k \in Jobs
        PROVE  CallerInv(k)' /\ MessageInv(k)'
    BY DEF IInv, CheckFinds, Goto, CallerInv, MessageInv
  <1>3. ASSUME NEW d \in Consumers
        PROVE  ConsumerInv(d)'
    BY DEF IInv, CheckFinds, ConsumerInv
  <1>4. DuplicateNamesAJob'
    <2>1. PICK x \in Existing(j) : named' = [named EXCEPT ![j] = x]
      BY DEF CheckFinds
    <2>2. /\ x \in Jobs /\ KeyOf[x] = KeyOf[j] /\ row[x].outcome # "absent"
          /\ x # j /\ caller' = [caller EXCEPT ![j] = "duplicate"] /\ message' = message
      BY DEF IInv, CheckFinds, Existing, Goto, CallerInv
    <2>3. caller[x] \in {"inserted", "delete", "fail", "thrown"} \/ message[x].at # "unsent"
      BY <2>2 DEF IInv, TypeOK, Phase, CallerInv
    <2>4. ASSUME NEW k \in Jobs, caller'[k] = "duplicate", k # j
          PROVE  named'[k] = named[k] /\ named[k] # j
      BY <2>1, <2>2, <2>4 DEF IInv, DuplicateNamesAJob, CheckFinds, CallerInv
    <2>5. QED
      BY <2>1, <2>2, <2>3, <2>4 DEF IInv, TypeOK, DuplicateNamesAJob
  <1>5. QED
    BY <1>1, <1>2, <1>3, <1>4 DEF IInv

LEMMA InsertStep ==
  ASSUME IInv, NEW j \in Jobs, Insert(j)
  PROVE  IInv'
  <1>1. TypeOK'
    BY RowTypes DEF IInv, TypeOK, Insert, Goto, Phase
  <1>2. ASSUME NEW k \in Jobs
        PROVE  CallerInv(k)' /\ MessageInv(k)'
    BY DEF IInv, Insert, Inserted, Goto, TypeOK, CallerInv, MessageInv
  <1>3. ASSUME NEW d \in Consumers
        PROVE  ConsumerInv(d)'
    BY DEF IInv, Insert, Inserted, CallerInv, ConsumerInv
  <1>4. DuplicateNamesAJob'
    BY DEF IInv, Insert, Goto, DuplicateNamesAJob
  <1>5. QED
    BY <1>1, <1>2, <1>3, <1>4 DEF IInv

LEMMA SendStep ==
  ASSUME IInv, NEW j \in Jobs, Send(j)
  PROVE  IInv'
  <1>1. TypeOK'
    BY MessageTypes DEF IInv, TypeOK, Send, Goto, Phase
  <1>2. ASSUME NEW k \in Jobs
        PROVE  CallerInv(k)' /\ MessageInv(k)'
    BY DEF IInv, Send, Sent, Goto, TypeOK, CallerInv, MessageInv
  <1>3. ASSUME NEW d \in Consumers
        PROVE  ConsumerInv(d)'
    BY DEF IInv, Send, Sent, CallerInv, ConsumerInv
  <1>4. DuplicateNamesAJob'
    BY DEF IInv, Send, Sent, Goto, TypeOK, DuplicateNamesAJob
  <1>5. QED
    BY <1>1, <1>2, <1>3, <1>4 DEF IInv

LEMMA SendFailsStep ==
  ASSUME IInv, NEW j \in Jobs, SendFails(j)
  PROVE  IInv'
  <1>1. TypeOK'
    <2>1. message' \in [Jobs -> Message]
      <3>1. Sent(j) \in [Jobs -> Message]
        BY MessageTypes DEF IInv
      <3>2. QED
        BY <3>1 DEF IInv, TypeOK, SendFails
    <2>2. QED
      BY <2>1 DEF IInv, TypeOK, SendFails, Goto, Phase
  <1>2. ASSUME NEW k \in Jobs
        PROVE  CallerInv(k)' /\ MessageInv(k)'
    <2>1. CASE message' = message
      BY <2>1 DEF IInv, SendFails, Goto, CallerInv, MessageInv
    <2>2. CASE message' = Sent(j)
      BY <2>2 DEF IInv, SendFails, Sent, Goto, TypeOK, CallerInv, MessageInv
    <2>3. QED
      BY <2>1, <2>2 DEF SendFails
  <1>3. ASSUME NEW d \in Consumers
        PROVE  ConsumerInv(d)'
    <2>1. CASE message' = message
      BY <2>1 DEF IInv, SendFails, ConsumerInv
    <2>2. CASE message' = Sent(j)
      BY <2>2 DEF IInv, SendFails, Sent, CallerInv, ConsumerInv
    <2>3. QED
      BY <2>1, <2>2 DEF SendFails
  <1>4. DuplicateNamesAJob'
    <2>1. CASE message' = message
      BY <2>1 DEF IInv, SendFails, Goto, DuplicateNamesAJob
    <2>2. CASE message' = Sent(j)
      BY <2>2 DEF IInv, SendFails, Sent, Goto, DuplicateNamesAJob
    <2>3. QED
      BY <2>1, <2>2 DEF SendFails
  <1>5. QED
    BY <1>1, <1>2, <1>3, <1>4 DEF IInv

LEMMA DeleteStep ==
  ASSUME IInv, NEW j \in Jobs, Delete(j)
  PROVE  IInv'
  <1>1. TypeOK'
    BY RowTypes DEF IInv, TypeOK, Delete, Goto, Phase
  <1>2. ASSUME NEW k \in Jobs
        PROVE  CallerInv(k)' /\ MessageInv(k)'
    BY DEF IInv, Delete, Deleted, NoRow, Goto, CallerInv, MessageInv
  <1>3. ASSUME NEW d \in Consumers
        PROVE  ConsumerInv(d)'
    BY DEF IInv, Delete, Deleted, NoRow, ConsumerInv
  <1>4. DuplicateNamesAJob'
    BY DEF IInv, Delete, Goto, DuplicateNamesAJob
  <1>5. QED
    BY <1>1, <1>2, <1>3, <1>4 DEF IInv

LEMMA FailStep ==
  ASSUME IInv, NEW j \in Jobs, Fail(j)
  PROVE  IInv'
  <1>1. TypeOK'
    BY RowTypes DEF IInv, TypeOK, Fail, Goto, Phase
  <1>2. ASSUME NEW k \in Jobs
        PROVE  CallerInv(k)' /\ MessageInv(k)'
    BY DEF IInv, Fail, Failed, Goto, CallerInv, MessageInv
  <1>3. ASSUME NEW d \in Consumers
        PROVE  ConsumerInv(d)'
    BY DEF IInv, Fail, Failed, ConsumerInv
  <1>4. DuplicateNamesAJob'
    BY DEF IInv, Fail, Goto, DuplicateNamesAJob
  <1>5. QED
    BY <1>1, <1>2, <1>3, <1>4 DEF IInv

LEMMA StatementFailsStep ==
  ASSUME IInv, NEW j \in Jobs, StatementFails(j)
  PROVE  IInv'
  <1>1. TypeOK'
    <2>1. row' \in [Jobs -> Row]
      BY RowTypes DEF IInv, TypeOK, StatementFails
    <2>2. QED
      BY <2>1 DEF IInv, TypeOK, StatementFails, Goto, Phase
  <1>2. ASSUME NEW k \in Jobs
        PROVE  CallerInv(k)' /\ MessageInv(k)'
    <2>1. CASE row' = row /\ caller[j] \in {"new", "checked", "delete", "fail"}
      BY <2>1 DEF IInv, StatementFails, Goto, TypeOK, CallerInv, MessageInv
    <2>2. CASE caller[j] = "checked" /\ row' = Inserted(j)
      BY <2>2 DEF IInv, StatementFails, Inserted, Goto, TypeOK, CallerInv, MessageInv
    <2>3. CASE caller[j] = "delete" /\ row' = Deleted(j)
      BY <2>3
      DEF IInv, StatementFails, Deleted, NoRow, Goto, TypeOK, CallerInv, MessageInv
    <2>4. CASE caller[j] = "fail" /\ row' = Failed(j)
      BY <2>4 DEF IInv, StatementFails, Failed, Goto, TypeOK, CallerInv, MessageInv
    <2>5. QED
      BY <2>1, <2>2, <2>3, <2>4 DEF StatementFails
  <1>3. ASSUME NEW d \in Consumers
        PROVE  ConsumerInv(d)'
    <2>1. CASE row' = row /\ caller[j] \in {"new", "checked", "delete", "fail"}
      BY <2>1 DEF IInv, StatementFails, ConsumerInv
    <2>2. CASE caller[j] = "checked" /\ row' = Inserted(j)
      BY <2>2 DEF IInv, StatementFails, Inserted, CallerInv, ConsumerInv
    <2>3. CASE caller[j] = "delete" /\ row' = Deleted(j)
      BY <2>3 DEF IInv, StatementFails, Deleted, NoRow, ConsumerInv
    <2>4. CASE caller[j] = "fail" /\ row' = Failed(j)
      BY <2>4 DEF IInv, StatementFails, Failed, ConsumerInv
    <2>5. QED
      BY <2>1, <2>2, <2>3, <2>4 DEF StatementFails
  <1>4. DuplicateNamesAJob'
    <2>1. PICK p \in {"thrown", "fail"} : caller' = [caller EXCEPT ![j] = p]
      BY DEF StatementFails, Goto
    <2>2. UNCHANGED <<named, message>>
      BY DEF StatementFails
    <2>3. QED
      BY <2>1, <2>2 DEF IInv, DuplicateNamesAJob
  <1>5. QED
    BY <1>1, <1>2, <1>3, <1>4 DEF IInv

LEMMA CallerEndsStep ==
  ASSUME IInv, NEW j \in Jobs, CallerEnds(j)
  PROVE  IInv'
  <1>1. TypeOK'
    BY DEF IInv, CallerEnds, Goto, TypeOK, Phase
  <1>2. ASSUME NEW k \in Jobs
        PROVE  CallerInv(k)' /\ MessageInv(k)'
    BY DEF IInv, CallerEnds, Goto, CallerInv, MessageInv
  <1>3. ASSUME NEW d \in Consumers
        PROVE  ConsumerInv(d)'
    BY DEF IInv, CallerEnds, ConsumerInv
  <1>4. DuplicateNamesAJob'
    BY DEF IInv, CallerEnds, Goto, DuplicateNamesAJob
  <1>5. QED
    BY <1>1, <1>2, <1>3, <1>4 DEF IInv

LEMMA LapseStep ==
  ASSUME IInv, NEW j \in Jobs, Lapse(j)
  PROVE  IInv'
  <1>1. TypeOK'
    BY MessageTypes DEF IInv, TypeOK, Lapse
  <1>2. ASSUME NEW k \in Jobs
        PROVE  CallerInv(k)' /\ MessageInv(k)'
    BY DEF IInv, Lapse, Returned, TypeOK, Message, CallerInv, MessageInv
  <1>3. ASSUME NEW d \in Consumers
        PROVE  ConsumerInv(d)'
    BY DEF IInv, Lapse, Returned, TypeOK, Message, ConsumerInv
  <1>4. DuplicateNamesAJob'
    BY DEF IInv, Lapse, Returned, DuplicateNamesAJob
  <1>5. QED
    BY <1>1, <1>2, <1>3, <1>4 DEF IInv

LEMMA StartStep ==
  ASSUME IInv, NEW c \in Consumers, Start(c)
  PROVE  IInv'
  <1>1. TypeOK'
    BY AdvanceTypes, RowTypes DEF IInv, TypeOK, Start
  <1>2. ASSUME NEW k \in Jobs
        PROVE  CallerInv(k)' /\ MessageInv(k)'
    BY DEF IInv, Start, Started, CallerInv, MessageInv
  <1>3. ASSUME NEW d \in Consumers
        PROVE  ConsumerInv(d)'
    BY DEF IInv, Start, Started, Advance, ConsumerInv
  <1>4. DuplicateNamesAJob'
    BY DEF IInv, Start, DuplicateNamesAJob
  <1>5. QED
    BY <1>1, <1>2, <1>3, <1>4 DEF IInv

LEMMA RunEndsStep ==
  ASSUME IInv, NEW c \in Consumers, RunEnds(c)
  PROVE  IInv'
  <1>1. TypeOK'
    BY AdvanceTypes DEF IInv, TypeOK, RunEnds
  <1>2. ASSUME NEW k \in Jobs
        PROVE  CallerInv(k)' /\ MessageInv(k)'
    BY DEF IInv, RunEnds, CallerInv, MessageInv
  <1>3. ASSUME NEW d \in Consumers
        PROVE  ConsumerInv(d)'
    BY DEF IInv, RunEnds, Advance, ConsumerInv
  <1>4. DuplicateNamesAJob'
    BY DEF IInv, RunEnds, DuplicateNamesAJob
  <1>5. QED
    BY <1>1, <1>2, <1>3, <1>4 DEF IInv

LEMMA UpdateRefusedStep ==
  ASSUME IInv, NEW c \in Consumers, UpdateRefused(c)
  PROVE  IInv'
  <1>1. TypeOK'
    BY AdvanceTypes DEF IInv, TypeOK, UpdateRefused
  <1>2. ASSUME NEW k \in Jobs
        PROVE  CallerInv(k)' /\ MessageInv(k)'
    BY DEF IInv, UpdateRefused, CallerInv, MessageInv
  <1>3. ASSUME NEW d \in Consumers
        PROVE  ConsumerInv(d)'
    BY DEF IInv, UpdateRefused, Advance, ConsumerInv
  <1>4. DuplicateNamesAJob'
    BY DEF IInv, UpdateRefused, DuplicateNamesAJob
  <1>5. QED
    BY <1>1, <1>2, <1>3, <1>4 DEF IInv

LEMMA RunFailsStep ==
  ASSUME IInv, NEW c \in Consumers, RunFails(c)
  PROVE  IInv'
  <1>1. TypeOK'
    BY GiveUpTypes DEF IInv, TypeOK, RunFails
  <1>2. ASSUME NEW k \in Jobs
        PROVE  CallerInv(k)' /\ MessageInv(k)'
    BY DEF IInv, RunFails, GiveUp, Returned, Holds, TypeOK, Message, CallerInv, MessageInv
  <1>3. ASSUME NEW d \in Consumers
        PROVE  ConsumerInv(d)'
    BY DEF IInv, RunFails, GiveUp, Returned, TypeOK, Message, ConsumerInv, Idle
  <1>4. DuplicateNamesAJob'
    BY DEF IInv, RunFails, GiveUp, Returned, DuplicateNamesAJob
  <1>5. QED
    BY <1>1, <1>2, <1>3, <1>4 DEF IInv

LEMMA FinishStep ==
  ASSUME IInv, NEW c \in Consumers, Finish(c)
  PROVE  IInv'
  <1>1. TypeOK'
    BY AdvanceTypes, RowTypes DEF IInv, TypeOK, Finish
  <1>2. ASSUME NEW k \in Jobs
        PROVE  CallerInv(k)' /\ MessageInv(k)'
    BY DEF IInv, Finish, Finished, CallerInv, MessageInv, ConsumerInv
  <1>3. ASSUME NEW d \in Consumers
        PROVE  ConsumerInv(d)'
    BY DEF IInv, Finish, Finished, Advance, TypeOK, Consumer, ConsumerInv
  <1>4. DuplicateNamesAJob'
    BY DEF IInv, Finish, DuplicateNamesAJob
  <1>5. QED
    BY <1>1, <1>2, <1>3, <1>4 DEF IInv

LEMMA UpdateFailsStep ==
  ASSUME IInv, NEW c \in Consumers, UpdateFails(c)
  PROVE  IInv'
  <1>1. TypeOK'
    <2>1. consumer[c].job \in Jobs
      BY DEF IInv, TypeOK, Consumer
    <2>2. row' \in [Jobs -> Row]
      BY <2>1, RowTypes DEF IInv, TypeOK, UpdateFails
    <2>3. QED
      BY <2>2, GiveUpTypes DEF IInv, TypeOK, UpdateFails
  <1>2. ASSUME NEW k \in Jobs
        PROVE  CallerInv(k)' /\ MessageInv(k)'
    <2>1. CASE row' = row
      BY <2>1
      DEF IInv, UpdateFails, GiveUp, Returned, Holds, TypeOK, Message, CallerInv,
          MessageInv
    <2>2. CASE consumer[c].at = "start" /\ row' = Started(consumer[c].job)
      BY <2>2
      DEF IInv, UpdateFails, Started, GiveUp, Returned, Holds, TypeOK, Message, CallerInv,
          MessageInv
    <2>3. CASE consumer[c].at = "success" /\ row' = Finished(consumer[c].job, "success")
      BY <2>3
      DEF IInv, UpdateFails, Finished, GiveUp, Returned, TypeOK, Message, CallerInv,
          MessageInv, ConsumerInv
    <2>4. CASE consumer[c].at = "failed" /\ row' = Finished(consumer[c].job, "failed")
      BY <2>4
      DEF IInv, UpdateFails, Finished, GiveUp, Returned, TypeOK, CallerInv, MessageInv,
          ConsumerInv
    <2>5. QED
      BY <2>1, <2>2, <2>3, <2>4 DEF UpdateFails
  <1>3. ASSUME NEW d \in Consumers
        PROVE  ConsumerInv(d)'
    <2>1. CASE row' = row
      BY <2>1 DEF IInv, UpdateFails, GiveUp, Returned, TypeOK, Message, ConsumerInv, Idle
    <2>2. CASE consumer[c].at = "start" /\ row' = Started(consumer[c].job)
      BY <2>2
      DEF IInv, UpdateFails, Started, GiveUp, Returned, TypeOK, Message, ConsumerInv, Idle
    <2>3. CASE consumer[c].at = "success" /\ row' = Finished(consumer[c].job, "success")
      BY <2>3
      DEF IInv, UpdateFails, Finished, GiveUp, Returned, TypeOK, Row, Message,
          ConsumerInv, Idle
    <2>4. CASE consumer[c].at = "failed" /\ row' = Finished(consumer[c].job, "failed")
      BY <2>4
      DEF IInv, UpdateFails, Finished, GiveUp, Returned, TypeOK, Message, ConsumerInv,
          Idle
    <2>5. QED
      BY <2>1, <2>2, <2>3, <2>4 DEF UpdateFails
  <1>4. DuplicateNamesAJob'
    <2>1. CASE row' = row
      BY <2>1 DEF IInv, UpdateFails, GiveUp, Returned, DuplicateNamesAJob
    <2>2. CASE consumer[c].at = "start" /\ row' = Started(consumer[c].job)
      BY <2>2 DEF IInv, UpdateFails, GiveUp, Returned, DuplicateNamesAJob
    <2>3. CASE consumer[c].at = "success" /\ row' = Finished(consumer[c].job, "success")
      BY <2>3 DEF IInv, UpdateFails, GiveUp, Returned, DuplicateNamesAJob
    <2>4. CASE consumer[c].at = "failed" /\ row' = Finished(consumer[c].job, "failed")
      BY <2>4 DEF IInv, UpdateFails, GiveUp, Returned, DuplicateNamesAJob
    <2>5. QED
      BY <2>1, <2>2, <2>3, <2>4 DEF UpdateFails
  <1>5. QED
    BY <1>1, <1>2, <1>3, <1>4 DEF IInv

LEMMA AckStep ==
  ASSUME IInv, NEW c \in Consumers, Ack(c)
  PROVE  IInv'
  <1>1. TypeOK'
    <2>1. consumer[c].job \in Jobs
      BY DEF IInv, TypeOK, Consumer
    <2>2. QED
      BY <2>1, MessageTypes, ConstantTypes DEF IInv, TypeOK, Ack
  <1>2. ASSUME NEW k \in Jobs
        PROVE  CallerInv(k)' /\ MessageInv(k)'
    BY DEF IInv, Ack, CallerInv, MessageInv, ConsumerInv
  <1>3. ASSUME NEW d \in Consumers
        PROVE  ConsumerInv(d)'
    BY DEF IInv, Ack, TypeOK, ConsumerInv, Idle
  <1>4. DuplicateNamesAJob'
    BY DEF IInv, Ack, DuplicateNamesAJob
  <1>5. QED
    BY <1>1, <1>2, <1>3, <1>4 DEF IInv

LEMMA ConsumerEndsStep ==
  ASSUME IInv, NEW c \in Consumers, ConsumerEnds(c)
  PROVE  IInv'
  <1>1. TypeOK'
    BY GiveUpTypes DEF IInv, TypeOK, ConsumerEnds
  <1>2. ASSUME NEW k \in Jobs
        PROVE  CallerInv(k)' /\ MessageInv(k)'
    BY DEF IInv, ConsumerEnds, GiveUp, Returned, Holds, TypeOK, Message, CallerInv,
       MessageInv
  <1>3. ASSUME NEW d \in Consumers
        PROVE  ConsumerInv(d)'
    BY DEF IInv, ConsumerEnds, GiveUp, Returned, TypeOK, Message, ConsumerInv, Idle
  <1>4. DuplicateNamesAJob'
    BY DEF IInv, ConsumerEnds, GiveUp, Returned, DuplicateNamesAJob
  <1>5. QED
    BY <1>1, <1>2, <1>3, <1>4 DEF IInv

LEMMA DeliverStep ==
  ASSUME IInv, NEW j \in Jobs, NEW c \in Consumers, Deliver(j, c)
  PROVE  IInv'
  <1>1. TypeOK'
    <2>1. message \in [Jobs -> Message] /\ message[j] \in Message
      BY DEF IInv, TypeOK
    <2>2. [message[j] EXCEPT !.at = "leased", !.holder = c] \in Message
      BY <2>1 DEF Message
    <2>3. message' \in [Jobs -> Message]
      BY <2>1, <2>2 DEF Deliver
    <2>4. [at |-> "start", job |-> j] \in Consumer
      BY DEF Consumer
    <2>5. consumer' \in [Consumers -> Consumer]
      BY <2>4 DEF Deliver, IInv, TypeOK
    <2>6. QED
      BY <2>3, <2>5 DEF Deliver, IInv, TypeOK
  <1>2. ASSUME NEW k \in Jobs
        PROVE  CallerInv(k)' /\ MessageInv(k)'
    BY DEF IInv, Deliver, CallerInv, MessageInv
  <1>3. ASSUME NEW d \in Consumers
        PROVE  ConsumerInv(d)'
    BY DEF IInv, Deliver, TypeOK, MessageInv, ConsumerInv
  <1>4. DuplicateNamesAJob'
    BY DEF IInv, Deliver, DuplicateNamesAJob
  <1>5. QED
    BY <1>1, <1>2, <1>3, <1>4 DEF IInv

-------------------------------------------------------------------------------
LEMMA Initially == Init => IInv
  <1>1. SUFFICES ASSUME Init PROVE IInv
    OBVIOUS
  <1>2. TypeOK
    BY <1>1, ConstantTypes DEF Init, TypeOK, Phase
  <1>3. (\A j \in Jobs : CallerInv(j) /\ MessageInv(j)) /\ DuplicateNamesAJob
    BY <1>1 DEF Init, CallerInv, MessageInv, DuplicateNamesAJob, NoRow, Unsent
  <1>4. \A c \in Consumers : ConsumerInv(c)
    BY <1>1 DEF Init, ConsumerInv, Idle
  <1>5. QED
    BY <1>2, <1>3, <1>4 DEF IInv

LEMMA EnqueueStep ==
  ASSUME IInv, NEW j \in Jobs, Enqueue(j)
  PROVE  IInv'
  BY CheckFindsNoneStep, CheckFindsStep, InsertStep, SendStep, SendFailsStep, DeleteStep,
     FailStep, StatementFailsStep, CallerEndsStep DEF Enqueue

LEMMA ConsumeStep ==
  ASSUME IInv, NEW c \in Consumers, Consume(c)
  PROVE  IInv'
  BY StartStep, RunEndsStep, RunFailsStep, FinishStep, UpdateFailsStep, UpdateRefusedStep,
     AckStep, ConsumerEndsStep DEF Consume

LEMMA Preserved == IInv /\ [Next]_vars => IInv'
  <1>1. SUFFICES ASSUME IInv, [Next]_vars PROVE IInv'
    OBVIOUS
  <1>2. CASE \E j \in Jobs : Enqueue(j) \/ Lapse(j)
    BY <1>1, <1>2, EnqueueStep, LapseStep
  <1>3. CASE \E j \in Jobs, c \in Consumers : Deliver(j, c)
    BY <1>1, <1>3, DeliverStep
  <1>4. CASE \E c \in Consumers : Consume(c)
    BY <1>1, <1>4, ConsumeStep
  <1>5. CASE UNCHANGED vars
    BY <1>1, <1>5
    DEF vars, IInv, TypeOK, CallerInv, MessageInv, ConsumerInv, DuplicateNamesAJob
  <1>6. QED
    BY <1>1, <1>2, <1>3, <1>4, <1>5 DEF Next

LEMMA Inductive == Spec => []IInv
  BY Initially, Preserved, PTL DEF Spec

-------------------------------------------------------------------------------
\* Rows, calls, messages and consumers keep their types.
THEOREM TypeCorrect == Spec => []TypeOK
  <1>1. IInv => TypeOK
    BY DEF IInv
  <1>2. QED
    BY <1>1, Inductive, PTL

\* A job answered "enqueued" is settled, or its message is still in the queue,
\* with a consumer or in the dead letter queue.
THEOREM NothingLost == Spec => []EnqueuedIsNotLost
  <1>1. ASSUME IInv PROVE EnqueuedIsNotLost
    <2>1. ASSUME NEW j \in Jobs, caller[j] = "enqueued"
          PROVE  \/ Settled(j)
                 \/ row[j].outcome = "pending" /\ message[j].at \in {"ready", "leased", "dead"}
      <3>1. row[j].outcome \in Outcome \ {"absent"}
        BY <1>1, <2>1 DEF IInv, TypeOK, Row, CallerInv
      <3>2. message[j].at \in {"ready", "leased", "acked", "dead"}
        BY <1>1, <2>1 DEF IInv, TypeOK, Message, CallerInv
      <3>3. message[j].at = "acked" => row[j].outcome # "pending"
        BY <1>1 DEF IInv, MessageInv
      <3>4. QED
        BY <3>1, <3>2, <3>3 DEF Settled, Outcome
    <2>2. QED
      BY <2>1 DEF EnqueuedIsNotLost
  <1>2. QED
    BY <1>1, Inductive, PTL

\* A call answers "duplicate" with a job that was sent, or whose own call has
\* not answered or failed.
THEOREM DuplicatesAreBacked == Spec => []DuplicateNamesAJob
  <1>1. IInv => DuplicateNamesAJob
    BY DEF IInv
  <1>2. QED
    BY <1>1, Inductive, PTL

-------------------------------------------------------------------------------
(* What a step does to the row of a job that has succeeded.                *)

LEMMA EnqueueKeeps ==
  ASSUME IInv, NEW j \in Jobs, Enqueue(j), NEW k \in Jobs, row[k].outcome = "success"
  PROVE  row'[k].outcome = "success"
  <1>1. caller[j] = "checked" => row[j].outcome = "absent"
    BY DEF IInv, CallerInv
  <1>2. row \in [Jobs -> Row]
    BY DEF IInv, TypeOK
  <1>3. row' \in {row, Deleted(j), Failed(j)} \/ (caller[j] = "checked" /\ row' = Inserted(j))
    BY DEF Enqueue, CheckFindsNone, CheckFinds, Insert, Send, SendFails, Delete, Fail,
       StatementFails, CallerEnds
  <1>4. QED
    BY <1>1, <1>2, <1>3 DEF Deleted, Failed, Inserted

LEMMA ConsumeKeeps ==
  ASSUME IInv, NEW c \in Consumers, Consume(c), NEW k \in Jobs, row[k].outcome = "success"
  PROVE  \/ row'[k].outcome = "success"
         \/ row'[k].outcome = "failed" /\ message[k].failures > 0
  <1>1. row \in [Jobs -> Row] /\ message[k].failures \in Nat
    BY DEF IInv, TypeOK, Message
  <1>2. consumer[c].at \in {"success", "failed"} /\ consumer[c].job = k
        => message[k].failures # 0
    BY DEF IInv, ConsumerInv
  <1>3. \/ row' \in {row, Started(consumer[c].job)}
        \/ /\ consumer[c].at \in {"success", "failed"}
           /\ row' = Finished(consumer[c].job, consumer[c].at)
    BY DEF Consume, Start, RunEnds, RunFails, Finish, UpdateFails, UpdateRefused, Ack,
       ConsumerEnds
  <1>4. CASE row' \in {row, Started(consumer[c].job)}
    BY <1>1, <1>4 DEF Started, Row
  <1>5. CASE /\ consumer[c].at \in {"success", "failed"}
             /\ row' = Finished(consumer[c].job, consumer[c].at)
    BY <1>1, <1>2, <1>5 DEF Finished
  <1>6. QED
    BY <1>3, <1>4, <1>5

\* A recorded success is never deleted, and becomes a failure only when the
\* message was delivered more than once.
THEOREM SuccessKept == Spec => SuccessIsKept
  <1>1. ASSUME IInv, [Next]_vars
        PROVE  [\A j \in Jobs : row[j].outcome = "success" =>
                    \/ row'[j].outcome = "success"
                    \/ row'[j].outcome = "failed" /\ message[j].failures > 0]_vars
    <2>1. ASSUME NEW k \in Jobs, row[k].outcome = "success"
          PROVE  \/ row'[k].outcome = "success"
                 \/ row'[k].outcome = "failed" /\ message[k].failures > 0
      <3>1. CASE \E j \in Jobs : Enqueue(j)
        BY <1>1, <2>1, <3>1, EnqueueKeeps
      <3>2. CASE \E c \in Consumers : Consume(c)
        BY <1>1, <2>1, <3>2, ConsumeKeeps
      <3>3. CASE row' = row
        BY <2>1, <3>3
      <3>4. QED
        BY <1>1, <3>1, <3>2, <3>3 DEF Next, vars, Lapse, Deliver
    <2>2. QED
      BY <2>1
  <1>2. QED
    BY <1>1, Inductive, PTL DEF Spec, SuccessIsKept

-------------------------------------------------------------------------------
(* Why every message ends: the safety half of EveryMessageEnds.            *)

\* The deliveries of a message so far.
Attempts(j) ==
    message[j].failures + (IF message[j].at \in {"leased", "acked"} THEN 1 ELSE 0)

\* The statements that a consumer has left at most.
StepsLeft(c) ==
    CASE consumer[c].at = "start"   -> 5
      [] consumer[c].at = "run"     -> 4
      [] consumer[c].at = "success" -> 3
      [] consumer[c].at = "failed"  -> 2
      [] consumer[c].at = "ack"     -> 1
      [] OTHER                      -> 0

RetryInv ==
    \A j \in Jobs :
        /\ message[j].at = "unsent" => message[j].failures = 0
        /\ message[j].at \in {"ready", "leased", "acked"} => message[j].failures <= MaxRetries
        /\ message[j].at = "dead" => message[j].failures = MaxRetries + 1

\* A delivery uses up an attempt and none is ever given back, a message that has
\* ended does not come back, and a consumer only goes on.
QueueRunsDown ==
    /\ \A j \in Jobs :
        /\ Attempts(j)' >= Attempts(j)
        /\ \A c \in Consumers : Deliver(j, c) => Attempts(j)' = Attempts(j) + 1
        /\ message[j].at \in {"acked", "dead"} => message'[j] = message[j]
    /\ \A c \in Consumers : Consume(c) => StepsLeft(c)' < StepsLeft(c)

\* What a step may do to a message.
MessageMove(j) ==
    \/ message'[j] = message[j]
    \/ message[j].at = "unsent" /\ message'[j] = [message[j] EXCEPT !.at = "ready"]
    \/ \E c \in Consumers :
        /\ Deliver(j, c)
        /\ message'[j] = [message[j] EXCEPT !.at = "leased", !.holder = c]
    \/ /\ message[j].at = "leased"
       /\ \/ message'[j] = [at |-> IF message[j].failures < MaxRetries THEN "ready" ELSE "dead",
                            holder |-> NoHolder, failures |-> message[j].failures + 1]
          \/ message'[j] = [message[j] EXCEPT !.at = "acked", !.holder = NoHolder]

LEMMA MessageMoves ==
  ASSUME IInv, [Next]_vars, NEW j \in Jobs
  PROVE  MessageMove(j)
  <1>1. message \in [Jobs -> Message]
    BY DEF IInv, TypeOK
  <1>2. ASSUME NEW k \in Jobs, Enqueue(k)
        PROVE  MessageMove(j)
    <2>1. \/ message' = message
          \/ caller[k] = "inserted" /\ message' = Sent(k)
      BY <1>2 DEF Enqueue, CheckFindsNone, CheckFinds, Insert, Send, SendFails, Delete,
                  Fail, StatementFails, CallerEnds
    <2>2. caller[k] = "inserted" => message[k].at = "unsent"
      BY DEF IInv, CallerInv
    <2>3. QED
      BY <1>1, <2>1, <2>2 DEF Sent, MessageMove
  <1>3. ASSUME NEW k \in Jobs, message[k].at = "leased", message' = Returned(k)
        PROVE  MessageMove(j)
    BY <1>1, <1>3 DEF Returned, MessageMove
  <1>4. ASSUME NEW k \in Jobs, NEW c \in Consumers, Deliver(k, c)
        PROVE  MessageMove(j)
    BY <1>1, <1>4 DEF Deliver, MessageMove
  <1>5. ASSUME NEW c \in Consumers, Consume(c)
        PROVE  MessageMove(j)
    <2>1. consumer[c].job \in Jobs
      BY DEF IInv, TypeOK, Consumer
    <2>2. \/ message' = message
          \/ message[consumer[c].job].at = "leased" /\ message' = Returned(consumer[c].job)
          \/ /\ message[consumer[c].job].at = "leased"
             /\ message' = [message EXCEPT ![consumer[c].job] =
                              [@ EXCEPT !.at = "acked", !.holder = NoHolder]]
      BY <1>5 DEF Consume, Start, RunEnds, RunFails, Finish, UpdateFails, UpdateRefused,
                  Ack, ConsumerEnds, GiveUp, Holds
    <2>3. CASE message' = message
      BY <2>3 DEF MessageMove
    <2>4. CASE message[consumer[c].job].at = "leased" /\ message' = Returned(consumer[c].job)
      BY <1>3, <2>1, <2>4
    <2>5. CASE /\ message[consumer[c].job].at = "leased"
               /\ message' = [message EXCEPT ![consumer[c].job] =
                                [@ EXCEPT !.at = "acked", !.holder = NoHolder]]
      BY <1>1, <2>1, <2>5 DEF MessageMove
    <2>6. QED
      BY <2>2, <2>3, <2>4, <2>5
  <1>6. CASE UNCHANGED vars
    BY <1>6 DEF vars, MessageMove
  <1>7. ASSUME NEW k \in Jobs, Lapse(k)
        PROVE  MessageMove(j)
    BY <1>3, <1>7 DEF Lapse
  <1>8. QED
    BY <1>2, <1>4, <1>5, <1>6, <1>7 DEF Next

LEMMA ConsumerGoesOn ==
  ASSUME IInv, NEW c \in Consumers, Consume(c)
  PROVE  StepsLeft(c)' < StepsLeft(c)
  <1>1. consumer \in [Consumers -> Consumer]
    BY DEF IInv, TypeOK
  <1>2. \/ consumer[c].at # "idle" /\ consumer'[c] = Idle
        \/ consumer[c].at = "start" /\ consumer'[c].at \in {"run", "failed"}
        \/ consumer[c].at = "run" /\ consumer'[c].at \in {"success", "failed"}
        \/ consumer[c].at = "success" /\ consumer'[c].at \in {"failed", "ack"}
        \/ consumer[c].at = "failed" /\ consumer'[c].at = "ack"
    <2>1. CASE \/ RunFails(c) \/ UpdateFails(c) \/ Ack(c) \/ ConsumerEnds(c)
      BY <1>1, <2>1 DEF RunFails, UpdateFails, Ack, ConsumerEnds, GiveUp
    <2>2. \A at : Advance(c, at) => consumer'[c].at = at
      BY <1>1 DEF Advance, Consumer
    <2>3. CASE Start(c) \/ RunEnds(c) \/ Finish(c) \/ UpdateRefused(c)
      BY <2>2, <2>3 DEF Start, RunEnds, Finish, UpdateRefused
    <2>4. QED
      BY <2>1, <2>3 DEF Consume
  <1>3. consumer[c].at \in {"idle", "start", "run", "success", "failed", "ack"}
    BY <1>1 DEF Consumer
  <1>4. QED
    BY <1>2, <1>3 DEF StepsLeft, Idle

LEMMA RetriesRunDown ==
  ASSUME IInv, RetryInv, [Next]_vars
  PROVE  RetryInv' /\ QueueRunsDown
  <1>1. ASSUME NEW j \in Jobs
        PROVE  /\ Attempts(j)' >= Attempts(j)
               /\ \A c \in Consumers : Deliver(j, c) => Attempts(j)' = Attempts(j) + 1
               /\ message[j].at \in {"acked", "dead"} => message'[j] = message[j]
               /\ message'[j].at = "unsent" => message'[j].failures = 0
               /\ message'[j].at \in {"ready", "leased", "acked"} =>
                     message'[j].failures <= MaxRetries
               /\ message'[j].at = "dead" => message'[j].failures = MaxRetries + 1
    <2>1. MessageMove(j)
      BY MessageMoves
    <2>2. /\ message[j] \in Message /\ message \in [Jobs -> Message]
          /\ message[j].failures \in Nat /\ MaxRetries \in Nat
      BY QueueAssumption DEF IInv, TypeOK, Message
    <2>3. ASSUME NEW c \in Consumers, Deliver(j, c)
          PROVE  /\ message[j].at = "ready"
                 /\ message'[j] = [message[j] EXCEPT !.at = "leased", !.holder = c]
      BY <2>2, <2>3 DEF Deliver
    <2>4. CASE message'[j] = message[j]
      <3>1. \A c \in Consumers : ~Deliver(j, c)
        BY <2>2, <2>3, <2>4 DEF Message
      <3>2. QED
        BY <2>2, <2>4, <3>1 DEF RetryInv, Attempts
    <2>5. CASE message'[j] # message[j]
      <3>1. CASE /\ message[j].at = "unsent"
                 /\ message'[j] = [message[j] EXCEPT !.at = "ready"]
        BY <2>2, <2>3, <3>1 DEF RetryInv, Attempts, Message
      <3>2. CASE \E c \in Consumers :
                    /\ Deliver(j, c)
                    /\ message'[j] = [message[j] EXCEPT !.at = "leased", !.holder = c]
        <4>1. /\ message[j].at = "ready" /\ message'[j].at = "leased"
              /\ message'[j].failures = message[j].failures
          BY <2>2, <2>3, <3>2 DEF Message
        <4>2. QED
          BY <2>2, <4>1 DEF RetryInv, Attempts
      <3>3. CASE message[j].at = "leased"
        <4>0. \A c \in Consumers : ~Deliver(j, c)
          BY <2>3, <3>3
        <4>1. \/ /\ message'[j].failures = message[j].failures + 1
                 /\ message'[j].at = IF message[j].failures < MaxRetries
                                     THEN "ready" ELSE "dead"
              \/ /\ message'[j].failures = message[j].failures
                 /\ message'[j].at = "acked"
          <5>1. CASE message'[j] =
                      [at |-> IF message[j].failures < MaxRetries THEN "ready" ELSE "dead",
                       holder |-> NoHolder, failures |-> message[j].failures + 1]
            BY <5>1
          <5>2. CASE message'[j] = [message[j] EXCEPT !.at = "acked", !.holder = NoHolder]
            BY <2>2, <5>2 DEF Message
          <5>3. \/ message'[j] =
                     [at |-> IF message[j].failures < MaxRetries THEN "ready" ELSE "dead",
                      holder |-> NoHolder, failures |-> message[j].failures + 1]
                \/ message'[j] = [message[j] EXCEPT !.at = "acked", !.holder = NoHolder]
            BY <2>1, <2>5, <3>3, <4>0, Zenon DEF MessageMove
          <5>4. QED
            BY <5>1, <5>2, <5>3
        <4>2. QED
          BY <2>2, <3>3, <4>0, <4>1 DEF RetryInv, Attempts
      <3>4. QED
        BY <2>1, <2>5, <3>1, <3>2, <3>3 DEF MessageMove
    <2>6. QED
      BY <2>4, <2>5
  <1>2. QED
    BY <1>1, ConsumerGoesOn DEF RetryInv, QueueRunsDown

\* A message is delivered at most once for each retry and once more, ends for
\* good, and each of its deliveries takes at most five statements, whatever fails
\* (queue.ts: consumeBatch).
THEOREM DeliveriesRunOut ==
    Spec => /\ []\A j \in Jobs : Attempts(j) <= MaxRetries + 1
            /\ [][QueueRunsDown]_vars
  <1>1. Init => RetryInv
    <2>1. Unsent.at = "unsent" /\ Unsent.failures = 0
      BY DEF Unsent
    <2>2. Init => \A j \in Jobs : message[j] = Unsent
      BY DEF Init
    <2>3. QED
      BY <2>1, <2>2 DEF RetryInv
  <1>2. IInv /\ RetryInv /\ [Next]_vars => RetryInv' /\ [QueueRunsDown]_vars
    BY RetriesRunDown
  <1>3. IInv /\ RetryInv => \A j \in Jobs : Attempts(j) <= MaxRetries + 1
    <2> SUFFICES ASSUME IInv, RetryInv, NEW j \in Jobs
                 PROVE  Attempts(j) <= MaxRetries + 1
      OBVIOUS
    <2>1. /\ message[j] \in Message /\ message[j].failures \in Nat /\ MaxRetries \in Nat
          /\ message[j].at \in {"unsent", "ready", "leased", "acked", "dead"}
      BY QueueAssumption DEF IInv, TypeOK, Message
    <2>2. QED
      BY <2>1 DEF RetryInv, Attempts
  <1>4. QED
    BY <1>1, <1>2, <1>3, Inductive, PTL DEF Spec
===============================================================================
