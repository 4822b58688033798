------------------------- MODULE HerdrTelemetryProofs -------------------------
(***************************************************************************)
(* Proofs about HerdrTelemetry, for every set of panes and statuses, every *)
(* size of the buffer and every number of beats.                           *)
(***************************************************************************)
EXTENDS HerdrTelemetry, SequenceTheorems, FiniteSetTheorems, TLAPS

Elems(s) == {s[n] : n \in DOMAIN s}

Ascending(s) == \A m, n \in DOMAIN s : m < n => s[m] < s[n]

\* The buffer is in the order of the beats, and the sender is at its head or
\* behind it.
OrderInv ==
  /\ Ascending(buffer)
  /\ \A e \in Elems(buffer) : sender.beat <= e
  /\ sender.phase \in {"posting", "backoff"} => buffer # <<>>
  /\ sender.phase \in {"posting", "backoff", "draining"} => sender.beat # 0
  /\ sender.phase = "draining" => \A e \in Elems(buffer) : sender.beat < e

Lost == (1 .. stats.received) \ (lab_beats \cup Elems(buffer) \cup Underway)

\* The beat under way has been dropped from the buffer: the end of its post
\* will take another one.
Overtaken ==
  sender.phase \in {"posting", "backoff"} /\ sender.beat \notin Elems(buffer)

Credit == IF Overtaken THEN 1 ELSE 0

LossInv == Cardinality(Lost) + Credit <= stats.dropped + stats.failed

IInv == TypeOK /\ OrderInv /\ EveryBeatCounted /\ LossInv

-----------------------------------------------------------------------------
(* Sequences.                                                              *)

LEMMA AppendElems ==
  ASSUME NEW S, NEW s \in Seq(S), NEW e \in S
  PROVE  Elems(Append(s, e)) = Elems(s) \cup {e}
  <1>1. /\ Append(s, e) \in Seq(S)
        /\ Len(Append(s, e)) = Len(s) + 1
        /\ \A n \in 1 .. Len(s) : Append(s, e)[n] = s[n]
        /\ Append(s, e)[Len(s) + 1] = e
    BY AppendProperties
  <1>2. /\ Len(s) \in Nat
        /\ DOMAIN s = 1 .. Len(s)
        /\ DOMAIN Append(s, e) = 1 .. Len(s) + 1
    BY <1>1, LenProperties
  <1> DEFINE t == Append(s, e)
             k == Len(s)
  <1> HIDE DEF t, k
  <1>3. ASSUME NEW n \in 1 .. k + 1
        PROVE  t[n] \in Elems(s) \cup {e}
    <2>1. CASE n = k + 1
      BY <2>1, <1>1 DEF t, k
    <2>2. CASE n # k + 1
      <3>1. n \in 1 .. k
        BY <2>2, <1>2 DEF k
      <3>2. QED
        BY <3>1, <1>1, <1>2 DEF t, k, Elems
    <2>3. QED
      BY <2>1, <2>2
  <1>4. ASSUME NEW n \in 1 .. k
        PROVE  s[n] \in Elems(t)
    <2>1. n \in 1 .. k + 1
      BY <1>2 DEF k
    <2>2. QED
      BY <2>1, <1>1, <1>2 DEF t, k, Elems
  <1>5. e \in Elems(t)
    <2>1. k + 1 \in 1 .. k + 1
      BY <1>2 DEF k
    <2>2. QED
      BY <2>1, <1>1, <1>2 DEF t, k, Elems
  <1>6. QED
    BY <1>2, <1>3, <1>4, <1>5 DEF t, k, Elems

LEMMA TailElems ==
  ASSUME NEW S, NEW s \in Seq(S), s # <<>>
  PROVE  /\ Head(s) \in S
         /\ Tail(s) \in Seq(S)
         /\ Len(s) \in Nat \ {0}
         /\ Len(Tail(s)) = Len(s) - 1
         /\ Elems(s) = {Head(s)} \cup Elems(Tail(s))
         /\ \A n \in 1 .. Len(s) - 1 : Tail(s)[n] = s[n + 1]
         /\ Head(s) = s[1]
  <1>1. /\ Head(s) \in S
        /\ Tail(s) \in Seq(S)
        /\ Len(Tail(s)) = Len(s) - 1
        /\ \A n \in 1 .. Len(Tail(s)) : Tail(s)[n] = s[n + 1]
        /\ Len(s) \in Nat \ {0}
    BY HeadTailProperties, EmptySeq
  <1>2. Head(s) = s[1]
    OBVIOUS
  <1>3. DOMAIN s = 1 .. Len(s) /\ DOMAIN Tail(s) = 1 .. Len(s) - 1
    BY <1>1, LenProperties
  <1> DEFINE t == Tail(s)
             k == Len(s)
  <1> HIDE DEF t, k
  <1>4. ASSUME NEW n \in 1 .. k
        PROVE  s[n] \in {s[1]} \cup Elems(t)
    <2>1. CASE n # 1
      <3>1. n - 1 \in 1 .. k - 1 /\ (n - 1) + 1 = n
        BY <2>1, <1>1 DEF k
      <3>2. t[n - 1] = s[n]
        BY <3>1, <1>1 DEF t, k
      <3>3. QED
        BY <3>1, <3>2, <1>3 DEF t, k, Elems
    <2>2. QED
      BY <2>1
  <1>5. ASSUME NEW n \in 1 .. k - 1
        PROVE  t[n] \in Elems(s)
    <2>1. n + 1 \in 1 .. k
      BY <1>1 DEF k
    <2>2. QED
      BY <2>1, <1>1, <1>3 DEF t, k, Elems
  <1>6. s[1] \in Elems(s)
    BY <1>1, <1>3 DEF Elems
  <1>7. Elems(s) = {s[1]} \cup Elems(t)
    BY <1>3, <1>4, <1>5, <1>6 DEF Elems, t, k
  <1>8. QED
    BY <1>1, <1>2, <1>7 DEF t, k

LEMMA AscendingTail ==
  ASSUME NEW s \in Seq(Nat), s # <<>>, Ascending(s)
  PROVE  /\ Ascending(Tail(s))
         /\ \A e \in Elems(Tail(s)) : Head(s) < e
         /\ \A e \in Elems(s) : Head(s) <= e
  <1>1. /\ Head(s) \in Nat
        /\ Tail(s) \in Seq(Nat)
        /\ Len(s) \in Nat \ {0}
        /\ Len(Tail(s)) = Len(s) - 1
        /\ Elems(s) = {Head(s)} \cup Elems(Tail(s))
        /\ \A n \in 1 .. Len(s) - 1 : Tail(s)[n] = s[n + 1]
        /\ Head(s) = s[1]
    BY TailElems
  <1>2. DOMAIN s = 1 .. Len(s) /\ DOMAIN Tail(s) = 1 .. Len(s) - 1
    BY <1>1, LenProperties
  <1>3. ASSUME NEW n \in 1 .. Len(s) - 1
        PROVE  n + 1 \in 1 .. Len(s) /\ 1 \in 1 .. Len(s) /\ 1 < n + 1
    BY <1>1
  <1>4. \A n \in 1 .. Len(s) - 1 : Head(s) < Tail(s)[n]
    BY <1>1, <1>2, <1>3 DEF Ascending
  <1>5. \A e \in Elems(Tail(s)) : e \in Nat
    BY <1>1, ElementOfSeq, LenProperties DEF Elems
  <1>6. ASSUME NEW m \in 1 .. Len(s) - 1, NEW n \in 1 .. Len(s) - 1, m < n
        PROVE  Tail(s)[m] < Tail(s)[n]
    <2>1. m + 1 \in 1 .. Len(s) /\ n + 1 \in 1 .. Len(s) /\ m + 1 < n + 1
      BY <1>1, <1>6
    <2>2. s[m + 1] < s[n + 1]
      BY <2>1, <1>2 DEF Ascending
    <2>3. QED
      BY <2>2, <1>1
  <1>7. Ascending(Tail(s))
    BY <1>2, <1>6 DEF Ascending
  <1>8. \A e \in Elems(Tail(s)) : Head(s) < e
    BY <1>2, <1>4 DEF Elems
  <1>9. \A e \in Elems(s) : Head(s) <= e
    BY <1>1, <1>5, <1>8
  <1>10. QED
    BY <1>7, <1>8, <1>9

LEMMA AscendingAppend ==
  ASSUME NEW s \in Seq(Nat), Ascending(s), NEW e \in Nat,
         \A d \in Elems(s) : d < e
  PROVE  Ascending(Append(s, e))
  <1>1. /\ Append(s, e) \in Seq(Nat)
        /\ Len(Append(s, e)) = Len(s) + 1
        /\ \A n \in 1 .. Len(s) : Append(s, e)[n] = s[n]
        /\ Append(s, e)[Len(s) + 1] = e
    BY AppendProperties
  <1>2. /\ Len(s) \in Nat
        /\ DOMAIN s = 1 .. Len(s)
        /\ DOMAIN Append(s, e) = 1 .. Len(s) + 1
    BY <1>1, LenProperties
  <1>3. \A n \in 1 .. Len(s) : s[n] < e
    BY <1>2 DEF Elems
  <1>4. ASSUME NEW m \in 1 .. Len(s) + 1, NEW n \in 1 .. Len(s) + 1, m < n
        PROVE  Append(s, e)[m] < Append(s, e)[n]
    <2>1. m \in 1 .. Len(s)
      BY <1>2, <1>4
    <2>2. CASE n = Len(s) + 1
      BY <2>1, <2>2, <1>1, <1>3
    <2>3. CASE n # Len(s) + 1
      <3>1. n \in 1 .. Len(s)
        BY <1>2, <2>3
      <3>2. s[m] < s[n]
        BY <2>1, <3>1, <1>2, <1>4 DEF Ascending
      <3>3. QED
        BY <2>1, <3>1, <3>2, <1>1
    <2>4. QED
      BY <2>2, <2>3
  <1>5. QED
    BY <1>2, <1>4 DEF Ascending

LEMMA EmptyElems == Elems(<<>>) = {} /\ Ascending(<<>>) /\ Len(<<>>) = 0
  BY DEF Elems, Ascending

LEMMA ElemsIn ==
  ASSUME NEW S, NEW s \in Seq(S)
  PROVE  Elems(s) \subseteq S
  BY ElementOfSeq, LenProperties DEF Elems

-----------------------------------------------------------------------------
(* The sender.                                                             *)

Drains == sender.phase = "draining"

\* The beat that is drained has left the buffer.
InDrain == IF Drains THEN 1 ELSE 0

\* What IInv says of the sender and the buffer.
LEMMA Facts ==
  ASSUME IInv
  PROVE  /\ stats \in [received : 0 .. MaxBeats, sent : Nat, dropped : Nat,
                       failed : Nat]
         /\ stats.received \in Nat
         /\ stats.received <= MaxBeats
         /\ buffer \in Seq(1 .. stats.received)
         /\ buffer \in Seq(Nat)
         /\ Len(buffer) \in Nat
         /\ Len(buffer) <= MaxBuffered
         /\ Elems(buffer) \subseteq 1 .. stats.received
         /\ Ascending(buffer)
         /\ \A e \in Elems(buffer) : sender.beat <= e
         /\ sender \in [phase : Waits, beat : 0 .. stats.received]
         /\ lab_beats \subseteq 1 .. stats.received
         /\ IsFiniteSet(Lost)
         /\ Cardinality(Lost) \in Nat
         /\ Lost \subseteq 1 .. stats.received
  <1>1. /\ stats \in [received : 0 .. MaxBeats, sent : Nat, dropped : Nat,
                      failed : Nat]
        /\ buffer \in Seq(1 .. stats.received)
        /\ Len(buffer) <= MaxBuffered
        /\ sender \in [phase : Waits, beat : 0 .. stats.received]
        /\ lab_beats \subseteq 1 .. stats.received
    BY DEF IInv, TypeOK
  <1>2. stats.received \in Nat /\ stats.received <= MaxBeats
    BY <1>1, TelemetryAssumption
  <1>3. buffer \in Seq(Nat)
    <2>1. 1 .. stats.received \subseteq Nat
      OBVIOUS
    <2>2. QED
      BY <1>1, <2>1, SeqMonotonic
  <1>4. Len(buffer) \in Nat /\ Elems(buffer) \subseteq 1 .. stats.received
    BY <1>1, LenProperties, ElemsIn
  <1>5. IsFiniteSet(Lost) /\ Cardinality(Lost) \in Nat
    <2>1. IsFiniteSet(1 .. stats.received)
      BY <1>2, FS_Interval
    <2>2. Lost \subseteq 1 .. stats.received
      BY DEF Lost
    <2>3. QED
      BY <2>1, <2>2, FS_Subset, FS_CardinalityType
  <1>6. QED
    BY <1>1, <1>2, <1>3, <1>4, <1>5 DEF IInv, OrderInv, Lost

\* The loop that goes on with what is left.
LEMMA Continued ==
  ASSUME NEW left \in Seq(1 .. stats.received), stats.received \in Nat,
         Ascending(left), sender \in [phase : Waits, beat : 0 .. stats.received],
         \A e \in Elems(left) : sender.beat <= e,
         Continue(left)
  PROVE  /\ buffer' \in Seq(1 .. stats.received)
         /\ Len(buffer') <= Len(left)
         /\ Len(left) = Len(buffer') + InDrain'
         /\ Ascending(buffer')
         /\ sender' \in [phase : Waits, beat : 0 .. stats.received]
         /\ sender'.phase \in {"wait", "posting", "draining", "stopped"}
         /\ sender.beat <= sender'.beat
         /\ \A e \in Elems(buffer') : sender'.beat <= e
         /\ sender'.phase = "posting" =>
              /\ buffer' # <<>>
              /\ sender'.beat \in Elems(buffer')
              /\ sender'.beat # 0
         /\ sender'.phase = "draining" =>
              /\ sender'.beat # 0
              /\ \A e \in Elems(buffer') : sender'.beat < e
         /\ Elems(left) = Elems(buffer') \cup (IF Drains' THEN {sender'.beat} ELSE {})
  <1>1. left \in Seq(Nat)
    <2>1. 1 .. stats.received \subseteq Nat
      OBVIOUS
    <2>2. QED
      BY <2>1, SeqMonotonic
  <1>2. Len(left) \in Nat
    BY LenProperties
  <1>3. CASE left = <<>>
    <2>1. /\ buffer' = <<>>
          /\ sender'.phase \in {"wait", "stopped"}
          /\ sender'.beat = sender.beat
          /\ sender' \in [phase : Waits, beat : 0 .. stats.received]
      BY <1>3 DEF Continue, Waits
    <2>2. QED
      BY <1>3, <2>1, EmptyElems DEF Drains, InDrain
  <1>4. CASE left # <<>>
    <2>1. /\ Head(left) \in 1 .. stats.received
          /\ Tail(left) \in Seq(1 .. stats.received)
          /\ Len(Tail(left)) = Len(left) - 1
          /\ Elems(left) = {Head(left)} \cup Elems(Tail(left))
      BY <1>4, TailElems
    <2>2. /\ Ascending(Tail(left))
          /\ \A e \in Elems(Tail(left)) : Head(left) < e
          /\ \A e \in Elems(left) : Head(left) <= e
      BY <1>1, <1>4, AscendingTail
    <2>3. sender.beat <= Head(left) /\ Head(left) # 0
      BY <2>1
    <2>4. CASE ~aborted
      <3>1. buffer' = left /\ sender' = [phase |-> "posting", beat |-> Head(left)]
        BY <1>4, <2>4 DEF Continue
      <3>2. QED
        BY <1>2, <1>4, <2>1, <2>2, <2>3, <3>1 DEF Drains, InDrain, Waits
    <2>5. CASE aborted
      <3>1. /\ buffer' = Tail(left)
            /\ sender' = [phase |-> "draining", beat |-> Head(left)]
        BY <1>4, <2>5 DEF Continue
      <3>2. QED
        BY <1>2, <2>1, <2>2, <2>3, <3>1 DEF Drains, InDrain, Waits
    <2>6. QED
      BY <2>4, <2>5
  <1>5. QED
    BY <1>3, <1>4

\* One more beat lost, or two.
LEMMA OneMore ==
  ASSUME NEW S, NEW T, NEW e, IsFiniteSet(S), T \subseteq S \cup {e}
  PROVE  /\ IsFiniteSet(T)
         /\ Cardinality(T) \in Nat
         /\ Cardinality(S) \in Nat
         /\ Cardinality(T) <= Cardinality(S) + 1
  <1>1. /\ IsFiniteSet(S \cup {e})
        /\ Cardinality(S \cup {e}) = IF e \in S THEN Cardinality(S)
                                     ELSE Cardinality(S) + 1
    BY FS_AddElement
  <1>2. IsFiniteSet(T) /\ Cardinality(T) <= Cardinality(S \cup {e})
    BY <1>1, FS_Subset
  <1>3. Cardinality(S) \in Nat /\ Cardinality(T) \in Nat
    BY <1>2, FS_CardinalityType
  <1>4. QED
    BY <1>1, <1>2, <1>3

LEMMA NoMore ==
  ASSUME NEW S, NEW T, IsFiniteSet(S), T \subseteq S
  PROVE  /\ Cardinality(T) \in Nat
         /\ Cardinality(S) \in Nat
         /\ Cardinality(T) <= Cardinality(S)
  BY FS_Subset, FS_CardinalityType

-----------------------------------------------------------------------------
(* What the steps of the sender preserve.                                  *)

\* The part of the type invariant about the sender.
SendTypes ==
  /\ stats \in [received : 0 .. MaxBeats, sent : Nat, dropped : Nat, failed : Nat]
  /\ buffer \in Seq(1 .. stats.received)
  /\ Len(buffer) <= MaxBuffered
  /\ sender \in [phase : Waits, beat : 0 .. stats.received]
  /\ lab_beats \subseteq 1 .. stats.received

SendInv == SendTypes /\ OrderInv /\ EveryBeatCounted /\ LossInv

\* The sender goes on with all the buffer, or without its head.
LEMMA AfterContinue ==
  ASSUME IInv, NEW left \in Seq(1 .. stats.received), Ascending(left),
         Elems(left) \subseteq Elems(buffer), Len(left) <= MaxBuffered,
         Continue(left), stats'.received = stats.received
  PROVE  /\ buffer' \in Seq(1 .. stats.received)
         /\ Len(buffer') \in Nat
         /\ Len(buffer') <= MaxBuffered
         /\ Len(left) = Len(buffer') + InDrain'
         /\ sender' \in [phase : Waits, beat : 0 .. stats.received]
         /\ OrderInv'
         /\ sender'.beat >= sender.beat
         /\ Credit' = 0
         /\ Lost' \subseteq (1 .. stats.received) \ (lab_beats' \cup Elems(left))
  <1>1. /\ left \in Seq(1 .. stats.received)
        /\ Ascending(left)
        /\ Elems(left) \subseteq Elems(buffer)
        /\ Len(left) <= MaxBuffered
    OBVIOUS
  <1>2. /\ buffer' \in Seq(1 .. stats.received)
        /\ Len(buffer') <= Len(left)
        /\ Len(left) = Len(buffer') + InDrain'
        /\ Ascending(buffer')
        /\ sender' \in [phase : Waits, beat : 0 .. stats.received]
        /\ sender'.phase \in {"wait", "posting", "draining", "stopped"}
        /\ sender.beat <= sender'.beat
        /\ \A e \in Elems(buffer') : sender'.beat <= e
        /\ sender'.phase = "posting" =>
             /\ buffer' # <<>>
             /\ sender'.beat \in Elems(buffer')
             /\ sender'.beat # 0
        /\ sender'.phase = "draining" =>
             /\ sender'.beat # 0
             /\ \A e \in Elems(buffer') : sender'.beat < e
        /\ Elems(left) = Elems(buffer') \cup (IF Drains' THEN {sender'.beat} ELSE {})
    BY <1>1, Facts, Continued
  <1>3. Len(left) \in Nat /\ Len(buffer') \in Nat
    BY <1>1, <1>2, LenProperties
  <1>4. Len(buffer') <= MaxBuffered
    BY <1>1, <1>2, <1>3, TelemetryAssumption
  <1>5. Elems(buffer)' = Elems(buffer')
    BY DEF Elems
  <1>6. OrderInv'
    BY <1>2, <1>5 DEF OrderInv, Ascending
  <1>7. Credit' = 0
    BY <1>2, <1>5 DEF Credit, Overtaken
  <1>8. Lost' \subseteq (1 .. stats.received) \ (lab_beats' \cup Elems(left))
    <2>1. Elems(left) \subseteq Elems(buffer') \cup Underway'
      BY <1>2 DEF Drains, Underway
    <2>2. QED
      BY <1>5, <2>1 DEF Lost
  <1>9. sender'.beat >= sender.beat
    BY <1>2, Facts
  <1>10. QED
    BY <1>2, <1>3, <1>4, <1>6, <1>7, <1>8, <1>9

\* The same of the two ways the loop goes on.
LEMMA ContinuedWithAll ==
  ASSUME IInv, Continue(buffer), stats'.received = stats.received
  PROVE  /\ buffer' \in Seq(1 .. stats.received)
         /\ Len(buffer') \in Nat
         /\ Len(buffer') <= MaxBuffered
         /\ Len(buffer) = Len(buffer') + InDrain'
         /\ sender' \in [phase : Waits, beat : 0 .. stats.received]
         /\ OrderInv'
         /\ sender'.beat >= sender.beat
         /\ Credit' = 0
         /\ Lost' \subseteq (1 .. stats.received) \ (lab_beats' \cup Elems(buffer))
  <1>1. PICK left : left = buffer /\ Continue(left)
    OBVIOUS
  <1>2. /\ left \in Seq(1 .. stats.received)
        /\ Ascending(left)
        /\ Elems(left) \subseteq Elems(buffer)
        /\ Len(left) <= MaxBuffered
    BY <1>1, Facts
  <1>3. /\ buffer' \in Seq(1 .. stats.received)
        /\ Len(buffer') \in Nat
        /\ Len(buffer') <= MaxBuffered
        /\ Len(left) = Len(buffer') + InDrain'
        /\ sender' \in [phase : Waits, beat : 0 .. stats.received]
        /\ OrderInv'
        /\ sender'.beat >= sender.beat
        /\ Credit' = 0
        /\ Lost' \subseteq (1 .. stats.received) \ (lab_beats' \cup Elems(left))
    BY <1>1, <1>2, AfterContinue
  <1>4. QED
    BY <1>1, <1>3

\* A post that ends takes the head of the buffer.
LEMMA ContinuedWithTail ==
  ASSUME IInv, buffer # <<>>, Continue(Tail(buffer)), stats'.received = stats.received
  PROVE  /\ buffer' \in Seq(1 .. stats.received)
         /\ Len(buffer') \in Nat
         /\ Len(buffer') <= MaxBuffered
         /\ Len(Tail(buffer)) = Len(buffer') + InDrain'
         /\ sender' \in [phase : Waits, beat : 0 .. stats.received]
         /\ OrderInv'
         /\ sender'.beat >= sender.beat
         /\ Credit' = 0
         /\ Lost' \subseteq (1 .. stats.received) \ (lab_beats' \cup Elems(Tail(buffer)))
  <1>1. PICK left : left = Tail(buffer)
    OBVIOUS
  <1>2. Continue(left)
    BY <1>1 DEF Continue
  <1>2a. /\ left \in Seq(1 .. stats.received)
         /\ Ascending(left)
         /\ Elems(left) \subseteq Elems(buffer)
         /\ Len(left) <= MaxBuffered
    <2>1. /\ Tail(buffer) \in Seq(1 .. stats.received)
          /\ Len(Tail(buffer)) = Len(buffer) - 1
          /\ Elems(Tail(buffer)) \subseteq Elems(buffer)
      BY Facts, TailElems
    <2>2. Ascending(Tail(buffer))
      BY Facts, AscendingTail
    <2>3. QED
      BY <1>1, <2>1, <2>2, Facts, TelemetryAssumption
  <1>3. /\ buffer' \in Seq(1 .. stats.received)
        /\ Len(buffer') \in Nat
        /\ Len(buffer') <= MaxBuffered
        /\ Len(left) = Len(buffer') + InDrain'
        /\ sender' \in [phase : Waits, beat : 0 .. stats.received]
        /\ OrderInv'
        /\ sender'.beat >= sender.beat
        /\ Credit' = 0
        /\ Lost' \subseteq (1 .. stats.received) \ (lab_beats' \cup Elems(left))
    BY <1>2, <1>2a, AfterContinue
  <1>4. QED
    BY <1>1, <1>3

LEMMA LostFacts ==
  ASSUME IInv
  PROVE  IsFiniteSet(Lost)
  BY Facts

LEMMA Numbers ==
  ASSUME IInv
  PROVE  /\ stats.received \in Nat /\ stats.sent \in Nat
         /\ stats.dropped \in Nat /\ stats.failed \in Nat
         /\ Len(buffer) \in Nat /\ Cardinality(Lost) \in Nat
         /\ Credit \in Nat
         /\ Cardinality(Lost) + Credit <= stats.dropped + stats.failed
  BY Facts DEF IInv, LossInv, Credit

LEMMA InDrainType == InDrain \in Nat /\ InDrain' \in Nat
  BY DEF InDrain

\* The count after a step of the sender: what has left the buffer is sent or
\* failed, or is drained.
LEMMA Recounted ==
  ASSUME IInv, Len(buffer') \in Nat, stats'.sent \in Nat, stats'.failed \in Nat,
         stats'.received = stats.received, stats'.dropped = stats.dropped,
         NEW gone \in Nat,
         stats'.sent + stats'.failed = stats.sent + stats.failed + gone,
         Len(buffer) + InDrain = Len(buffer') + InDrain' + gone
  PROVE  EveryBeatCounted'
  <1>1. stats.received = stats.sent + stats.dropped + stats.failed + Len(buffer)
                         + InDrain
    BY DEF IInv, EveryBeatCounted, Drains, InDrain
  <1>2. InDrain \in Nat /\ InDrain' \in Nat
    BY DEF InDrain
  <1> DEFINE r == stats.received
             s == stats.sent
             d == stats.dropped
             f == stats.failed
             k == Len(buffer)
             x == InDrain
             s2 == stats'.sent
             f2 == stats'.failed
             l == Len(buffer')
             y == InDrain'
  <1>3. /\ s \in Nat /\ d \in Nat /\ f \in Nat /\ k \in Nat /\ x \in Nat
        /\ s2 \in Nat /\ f2 \in Nat /\ l \in Nat /\ y \in Nat
        /\ r = s + d + f + k + x
        /\ s2 + f2 = s + f + gone
        /\ k + x = l + y + gone
    BY <1>1, <1>2, Numbers
  <1> HIDE DEF r, s, d, f, k, x, s2, f2, l, y
  <1>4. r = s2 + d + f2 + l + y
    BY <1>3
  <1>5. stats'.received = r /\ stats'.dropped = d
    BY DEF r, d
  <1>6. QED
    BY <1>4, <1>5 DEF EveryBeatCounted, Drains, InDrain, s2, f2, l, y

LEMMA Typed ==
  ASSUME IInv,
         stats' \in [received : 0 .. MaxBeats, sent : Nat, dropped : Nat,
                     failed : Nat],
         stats'.received = stats.received,
         buffer' \in Seq(1 .. stats.received),
         Len(buffer') <= MaxBuffered,
         sender' \in [phase : Waits, beat : 0 .. stats.received],
         lab_beats' \subseteq 1 .. stats.received
  PROVE  SendTypes'
  BY DEF SendTypes

LEMMA SenderWakesKeeps ==
  ASSUME IInv, SenderWakes
  PROVE  SendInv' /\ sender'.beat >= sender.beat
  <1>1. /\ Continue(buffer)
        /\ UNCHANGED <<stats, lab_beats>>
        /\ sender.phase = "woken"
    BY DEF SenderWakes
  <1>2. /\ SendTypes' /\ OrderInv' /\ sender'.beat >= sender.beat /\ Credit' = 0
        /\ Len(buffer) = Len(buffer') + InDrain'
        /\ Len(buffer') \in Nat
        /\ Lost' \subseteq (1 .. stats.received) \ (lab_beats' \cup Elems(buffer))
    <2>1. /\ stats'.received = stats.received
          /\ stats' \in [received : 0 .. MaxBeats, sent : Nat, dropped : Nat,
                         failed : Nat]
          /\ lab_beats' \subseteq 1 .. stats.received
      BY <1>1, Facts
    <2>2. /\ buffer' \in Seq(1 .. stats.received)
          /\ Len(buffer') \in Nat
          /\ Len(buffer') <= MaxBuffered
          /\ Len(buffer) = Len(buffer') + InDrain'
          /\ sender' \in [phase : Waits, beat : 0 .. stats.received]
          /\ OrderInv'
          /\ sender'.beat >= sender.beat
          /\ Credit' = 0
          /\ Lost' \subseteq (1 .. stats.received) \ (lab_beats' \cup Elems(buffer))
      BY <1>1, <2>1, ContinuedWithAll
    <2>3. SendTypes'
      BY <2>1, <2>2, Typed
    <2>4. QED
      BY <2>2, <2>3
  <1>3. Underway = {} /\ InDrain = 0 /\ Credit = 0
    BY <1>1 DEF Underway, Drains, InDrain, Credit, Overtaken
  <1>4. Lost' \subseteq Lost
    BY <1>1, <1>2, <1>3 DEF Lost
  <1>5. Cardinality(Lost') <= Cardinality(Lost) /\ Cardinality(Lost') \in Nat
    BY <1>4, LostFacts, NoMore
  <1>6. LossInv'
    BY <1>1, <1>2, <1>3, <1>5, Numbers DEF LossInv
  <1>7. EveryBeatCounted'
    <2>1. stats'.sent + stats'.failed = stats.sent + stats.failed + 0
      BY <1>1, Numbers
    <2>2. Len(buffer) + InDrain = Len(buffer') + InDrain' + 0
      BY <1>2, <1>3, Numbers, InDrainType
    <2>3. QED
      BY <1>1, <1>2, <2>1, <2>2, Numbers, Recounted
  <1>8. QED
    BY <1>2, <1>6, <1>7 DEF SendInv

LEMMA BackoffEndsKeeps ==
  ASSUME IInv, BackoffEnds
  PROVE  SendInv' /\ sender'.beat >= sender.beat
  <1>1. /\ Continue(buffer)
        /\ UNCHANGED <<stats, lab_beats>>
        /\ sender.phase = "backoff"
    BY DEF BackoffEnds
  <1>2. /\ SendTypes' /\ OrderInv' /\ sender'.beat >= sender.beat /\ Credit' = 0
        /\ Len(buffer) = Len(buffer') + InDrain'
        /\ Len(buffer') \in Nat
        /\ Lost' \subseteq (1 .. stats.received) \ (lab_beats' \cup Elems(buffer))
    <2>1. /\ stats'.received = stats.received
          /\ stats' \in [received : 0 .. MaxBeats, sent : Nat, dropped : Nat,
                         failed : Nat]
          /\ lab_beats' \subseteq 1 .. stats.received
      BY <1>1, Facts
    <2>2. /\ buffer' \in Seq(1 .. stats.received)
          /\ Len(buffer') \in Nat
          /\ Len(buffer') <= MaxBuffered
          /\ Len(buffer) = Len(buffer') + InDrain'
          /\ sender' \in [phase : Waits, beat : 0 .. stats.received]
          /\ OrderInv'
          /\ sender'.beat >= sender.beat
          /\ Credit' = 0
          /\ Lost' \subseteq (1 .. stats.received) \ (lab_beats' \cup Elems(buffer))
      BY <1>1, <2>1, ContinuedWithAll
    <2>3. SendTypes'
      BY <2>1, <2>2, Typed
    <2>4. QED
      BY <2>2, <2>3
  <1>3. Underway = {sender.beat} /\ InDrain = 0
    BY <1>1 DEF Underway, Drains, InDrain
  <1>4. Cardinality(Lost') <= Cardinality(Lost) + Credit /\ Cardinality(Lost') \in Nat
    <2>1. CASE Overtaken
      <3>1. Lost' \subseteq Lost \cup {sender.beat}
        BY <1>1, <1>2, <1>3 DEF Lost
      <3>2. QED
        BY <2>1, <3>1, LostFacts, OneMore DEF Credit
    <2>2. CASE ~Overtaken
      <3>1. sender.beat \in Elems(buffer)
        BY <1>1, <2>2 DEF Overtaken
      <3>2. Lost' \subseteq Lost
        BY <1>1, <1>2, <1>3, <3>1 DEF Lost
      <3>3. QED
        BY <2>2, <3>2, LostFacts, NoMore DEF Credit
    <2>3. QED
      BY <2>1, <2>2
  <1>5. LossInv'
    BY <1>1, <1>2, <1>4, Numbers DEF LossInv, Credit
  <1>6. EveryBeatCounted'
    <2>1. stats'.sent + stats'.failed = stats.sent + stats.failed + 0
      BY <1>1, Numbers
    <2>2. Len(buffer) + InDrain = Len(buffer') + InDrain' + 0
      BY <1>2, <1>3, Numbers, InDrainType
    <2>3. QED
      BY <1>1, <1>2, <2>1, <2>2, Numbers, Recounted
  <1>7. QED
    BY <1>2, <1>5, <1>6 DEF SendInv

\* A drained beat is sent, or counted as failed.
LEMMA DrainKeeps ==
  ASSUME IInv, DrainSucceeds \/ DrainFails
  PROVE  SendInv' /\ sender'.beat >= sender.beat
  <1>1. /\ Continue(buffer)
        /\ sender.phase = "draining"
        /\ stats'.received = stats.received
        /\ stats'.dropped = stats.dropped
        /\ \/ /\ lab_beats' = lab_beats \cup {sender.beat}
              /\ stats'.sent = stats.sent + 1 /\ stats'.failed = stats.failed
           \/ /\ lab_beats' \in {lab_beats, lab_beats \cup {sender.beat}}
              /\ stats'.sent = stats.sent /\ stats'.failed = stats.failed + 1
        /\ stats' \in [received : 0 .. MaxBeats, sent : Nat, dropped : Nat,
                       failed : Nat]
    BY Facts DEF DrainSucceeds, DrainFails, Uncertain
  <1>2. sender.beat \in 1 .. stats.received
    BY <1>1, Facts DEF IInv, OrderInv
  <1>3. /\ SendTypes' /\ OrderInv' /\ sender'.beat >= sender.beat /\ Credit' = 0
        /\ Len(buffer) = Len(buffer') + InDrain'
        /\ Len(buffer') \in Nat
        /\ Lost' \subseteq (1 .. stats.received) \ (lab_beats' \cup Elems(buffer))
    <2>1. lab_beats' \subseteq 1 .. stats.received
      BY <1>1, <1>2, Facts
    <2>2. /\ buffer' \in Seq(1 .. stats.received)
          /\ Len(buffer') \in Nat
          /\ Len(buffer') <= MaxBuffered
          /\ Len(buffer) = Len(buffer') + InDrain'
          /\ sender' \in [phase : Waits, beat : 0 .. stats.received]
          /\ OrderInv'
          /\ sender'.beat >= sender.beat
          /\ Credit' = 0
          /\ Lost' \subseteq (1 .. stats.received) \ (lab_beats' \cup Elems(buffer))
      BY <1>1, <1>2, ContinuedWithAll
    <2>3. SendTypes'
      BY <1>1, <2>1, <2>2, Typed
    <2>4. QED
      BY <2>2, <2>3
  <1>4. Underway = {sender.beat} /\ InDrain = 1 /\ Credit = 0
    BY <1>1 DEF Underway, Drains, InDrain, Credit, Overtaken
  <1>5. LossInv'
    <2>1. CASE sender.beat \in lab_beats' /\ stats'.failed = stats.failed
      <3>1. Lost' \subseteq Lost
        BY <1>1, <1>3, <1>4, <2>1 DEF Lost
      <3>2. Cardinality(Lost') <= Cardinality(Lost) /\ Cardinality(Lost') \in Nat
        BY <3>1, LostFacts, NoMore
      <3>3. QED
        BY <1>1, <1>3, <1>4, <2>1, <3>2, Numbers DEF LossInv
    <2>2. CASE stats'.failed = stats.failed + 1
      <3>1. Lost' \subseteq Lost \cup {sender.beat}
        BY <1>1, <1>3, <1>4 DEF Lost
      <3>2. Cardinality(Lost') <= Cardinality(Lost) + 1 /\ Cardinality(Lost') \in Nat
        BY <3>1, LostFacts, OneMore
      <3>3. QED
        BY <1>1, <1>3, <1>4, <2>2, <3>2, Numbers DEF LossInv
    <2>3. QED
      BY <1>1, <2>1, <2>2
  <1>6. EveryBeatCounted'
    <2>1. stats'.sent \in Nat /\ stats'.failed \in Nat
      BY <1>1
    <2> DEFINE s == stats.sent
               f == stats.failed
               s2 == stats'.sent
               f2 == stats'.failed
    <2>0. /\ s \in Nat /\ f \in Nat /\ s2 \in Nat /\ f2 \in Nat
          /\ \/ s2 = s + 1 /\ f2 = f
             \/ s2 = s /\ f2 = f + 1
      BY <1>1, <2>1, Numbers
    <2> HIDE DEF s, f, s2, f2
    <2>2. s2 + f2 = s + f + 1
      BY <2>0
    <2>3. stats'.sent + stats'.failed = stats.sent + stats.failed + 1
      BY <2>2 DEF s, f, s2, f2
    <2>4. Len(buffer) + InDrain = Len(buffer') + InDrain' + 1
      BY <1>3, <1>4, Numbers, InDrainType
    <2>5. QED
      BY <1>1, <1>3, <2>1, <2>3, <2>4, Recounted
  <1>7. QED
    BY <1>3, <1>5, <1>6 DEF SendInv

\* A post that is answered takes the head of the buffer with it.
LEMMA PostAnsweredKeeps ==
  ASSUME IInv, PostSucceeds \/ PostRefused
  PROVE  SendInv' /\ sender'.beat >= sender.beat
  <1>1. /\ Continue(Tail(buffer))
        /\ sender.phase = "posting"
        /\ stats'.received = stats.received
        /\ stats'.dropped = stats.dropped
        /\ \/ /\ lab_beats' = lab_beats \cup {sender.beat}
              /\ stats'.sent = stats.sent + 1 /\ stats'.failed = stats.failed
           \/ /\ lab_beats' = lab_beats
              /\ stats'.sent = stats.sent /\ stats'.failed = stats.failed + 1
        /\ stats' \in [received : 0 .. MaxBeats, sent : Nat, dropped : Nat,
                       failed : Nat]
    BY Facts DEF PostSucceeds, PostRefused
  <1>2. sender.beat \in 1 .. stats.received /\ buffer # <<>>
    BY <1>1, Facts DEF IInv, OrderInv
  <1> DEFINE H == Head(buffer)
  <1>3. /\ H \in 1 .. stats.received
        /\ Len(Tail(buffer)) = Len(buffer) - 1
        /\ Elems(buffer) = {H} \cup Elems(Tail(buffer))
        /\ \A e \in Elems(buffer) : H <= e
    BY <1>2, Facts, TailElems, AscendingTail
  <1>4. /\ SendTypes' /\ OrderInv' /\ sender'.beat >= sender.beat /\ Credit' = 0
        /\ Len(Tail(buffer)) = Len(buffer') + InDrain'
        /\ Len(buffer') \in Nat
        /\ Lost' \subseteq
             (1 .. stats.received) \ (lab_beats' \cup Elems(Tail(buffer)))
    <2>1. lab_beats' \subseteq 1 .. stats.received
      BY <1>1, <1>2, Facts
    <2>2. /\ buffer' \in Seq(1 .. stats.received)
          /\ Len(buffer') \in Nat
          /\ Len(buffer') <= MaxBuffered
          /\ Len(Tail(buffer)) = Len(buffer') + InDrain'
          /\ sender' \in [phase : Waits, beat : 0 .. stats.received]
          /\ OrderInv'
          /\ sender'.beat >= sender.beat
          /\ Credit' = 0
          /\ Lost' \subseteq (1 .. stats.received) \ (lab_beats' \cup Elems(Tail(buffer)))
      BY <1>1, <1>2, ContinuedWithTail
    <2>3. SendTypes'
      BY <1>1, <2>1, <2>2, Typed
    <2>4. QED
      BY <2>2, <2>3
  <1>5. Underway = {sender.beat} /\ InDrain = 0
    BY <1>1 DEF Underway, Drains, InDrain
  <1>6. ~Overtaken => sender.beat = H
    <2>1. SUFFICES ASSUME ~Overtaken PROVE sender.beat = H
      OBVIOUS
    <2>2. sender.beat \in Elems(buffer)
      BY <1>1, <2>1 DEF Overtaken
    <2>3. H <= sender.beat /\ sender.beat <= H
      BY <1>3, <2>2, Facts
    <2>4. QED
      BY <1>2, <1>3, <2>3
  <1> HIDE DEF H
  <1>7. LossInv'
    <2>1. CASE stats'.failed = stats.failed /\ sender.beat \in lab_beats'
      <3>1. CASE Overtaken
        <4>1. Lost' \subseteq Lost \cup {H}
          BY <1>1, <1>3, <1>4, <1>5, <2>1 DEF Lost
        <4>2. Cardinality(Lost') <= Cardinality(Lost) + 1 /\ Cardinality(Lost') \in Nat
          BY <4>1, LostFacts, OneMore
        <4>3. QED
          BY <1>1, <1>4, <2>1, <3>1, <4>2, Numbers DEF LossInv, Credit
      <3>2. CASE ~Overtaken
        <4>1. Lost' \subseteq Lost
          BY <1>1, <1>3, <1>4, <1>5, <1>6, <2>1, <3>2 DEF Lost
        <4>2. Cardinality(Lost') <= Cardinality(Lost) /\ Cardinality(Lost') \in Nat
          BY <4>1, LostFacts, NoMore
        <4>3. QED
          BY <1>1, <1>4, <2>1, <3>2, <4>2, Numbers DEF LossInv, Credit
      <3>3. QED
        BY <3>1, <3>2
    <2>2. CASE stats'.failed = stats.failed + 1 /\ lab_beats' = lab_beats
      <3>1. Lost' \subseteq (Lost \cup {H}) \cup {sender.beat}
        BY <1>3, <1>4, <1>5, <2>2 DEF Lost
      <3>2. CASE Overtaken
        <4>1. /\ IsFiniteSet(Lost \cup {H})
              /\ Cardinality(Lost \cup {H}) <= Cardinality(Lost) + 1
              /\ Cardinality(Lost \cup {H}) \in Nat
          BY LostFacts, OneMore
        <4>2. /\ Cardinality(Lost') <= Cardinality(Lost \cup {H}) + 1
              /\ Cardinality(Lost') \in Nat
          BY <3>1, <4>1, OneMore
        <4>3. QED
          BY SMTT(20), <1>1, <1>4, <2>2, <3>2, <4>1, <4>2, Numbers
             DEF LossInv, Credit
      <3>3. CASE ~Overtaken
        <4>1. Lost' \subseteq Lost \cup {H}
          BY <1>6, <3>1, <3>3
        <4>2. Cardinality(Lost') <= Cardinality(Lost) + 1 /\ Cardinality(Lost') \in Nat
          BY <4>1, LostFacts, OneMore
        <4>3. QED
          BY <1>1, <1>4, <2>2, <3>3, <4>2, Numbers DEF LossInv, Credit
      <3>4. QED
        BY <3>2, <3>3
    <2>3. QED
      BY <1>1, <2>1, <2>2
  <1>8. EveryBeatCounted'
    <2>1. stats'.sent \in Nat /\ stats'.failed \in Nat
      BY <1>1
    <2> DEFINE s == stats.sent
               f == stats.failed
               s2 == stats'.sent
               f2 == stats'.failed
    <2>0. /\ s \in Nat /\ f \in Nat /\ s2 \in Nat /\ f2 \in Nat
          /\ \/ s2 = s + 1 /\ f2 = f
             \/ s2 = s /\ f2 = f + 1
      BY <1>1, <2>1, Numbers
    <2> HIDE DEF s, f, s2, f2
    <2>2. s2 + f2 = s + f + 1
      BY <2>0
    <2>3. stats'.sent + stats'.failed = stats.sent + stats.failed + 1
      BY <2>2 DEF s, f, s2, f2
    <2>4. Len(Tail(buffer)) + 1 = Len(buffer)
      BY <1>3, Numbers
    <2>5. Len(buffer) + InDrain = Len(buffer') + InDrain' + 1
      <3>1. Len(buffer) + InDrain = Len(buffer)
        BY <1>5, Numbers
      <3>2. Len(buffer) = Len(buffer') + InDrain' + 1
        BY <1>4, <2>4
      <3>3. QED
        BY <3>1, <3>2
    <2>6. QED
      BY <1>1, <1>4, <2>1, <2>3, <2>5, Recounted
  <1>9. QED
    BY <1>4, <1>7, <1>8 DEF SendInv

\* A post that fails leaves the buffer as it is.
LEMMA PostFailsKeeps ==
  ASSUME IInv, PostFails
  PROVE  SendInv' /\ sender'.beat >= sender.beat
  <1>1. /\ sender.phase = "posting"
        /\ sender'.phase = "backoff"
        /\ sender'.beat = sender.beat
        /\ sender' \in [phase : Waits, beat : 0 .. stats.received]
        /\ lab_beats' \in {lab_beats, lab_beats \cup {sender.beat}}
        /\ UNCHANGED <<buffer, stats>>
    BY Facts DEF PostFails, Uncertain, Waits
  <1>2. sender.beat \in 1 .. stats.received
    BY <1>1, Facts DEF IInv, OrderInv
  <1>3. SendTypes'
    BY <1>1, <1>2, Facts, Typed
  <1>4. OrderInv'
    BY <1>1 DEF IInv, OrderInv
  <1>5. EveryBeatCounted'
    BY <1>1 DEF IInv, EveryBeatCounted
  <1>6. LossInv'
    <2>1. Underway' = Underway /\ Credit' = Credit
      BY <1>1 DEF Underway, Credit, Overtaken
    <2>2. Lost' \subseteq Lost
      BY <1>1, <2>1 DEF Lost
    <2>3. Cardinality(Lost') <= Cardinality(Lost) /\ Cardinality(Lost') \in Nat
      BY <2>2, LostFacts, NoMore
    <2>4. QED
      BY <1>1, <2>1, <2>3, Numbers DEF LossInv, Credit
  <1>7. QED
    BY <1>1, <1>2, <1>3, <1>4, <1>5, <1>6 DEF SendInv

LEMMA WokenIs ==
  ASSUME IInv
  PROVE  /\ Woken \in [phase : Waits, beat : 0 .. stats.received]
         /\ Woken.beat = sender.beat
         /\ Woken.phase = IF sender.phase = "wait" THEN "woken" ELSE sender.phase
  BY Facts DEF Woken, Waits

\* Nothing happens to the buffer; the sender may be woken.
LEMMA UndisturbedKeeps ==
  ASSUME IInv, sender' \in {sender, Woken}, UNCHANGED <<buffer, stats, lab_beats>>
  PROVE  SendInv' /\ sender'.beat >= sender.beat
  <1>1. /\ sender' \in [phase : Waits, beat : 0 .. stats.received]
        /\ sender'.beat = sender.beat
        /\ \/ sender'.phase = sender.phase
           \/ sender.phase = "wait" /\ sender'.phase = "woken"
    BY Facts, WokenIs
  <1>2. SendTypes'
    BY <1>1, Facts, Typed
  <1>3. OrderInv'
    BY <1>1 DEF IInv, OrderInv
  <1>4. EveryBeatCounted'
    BY <1>1 DEF IInv, EveryBeatCounted
  <1>5. LossInv'
    <2>1. Underway' = Underway /\ Credit' = Credit
      BY <1>1 DEF Underway, Credit, Overtaken
    <2>2. Lost' = Lost
      BY <2>1 DEF Lost
    <2>3. QED
      BY <2>1, <2>2 DEF IInv, LossInv
  <1>6. sender'.beat >= sender.beat
    BY <1>1, Facts
  <1>7. QED
    BY <1>2, <1>3, <1>4, <1>5, <1>6 DEF SendInv

\* A status change becomes a beat; a full buffer loses its head.
LEMMA IngestKeeps ==
  ASSUME IInv, NEW p \in Panes, NEW s \in Statuses, Ingest(p, s)
  PROVE  SendInv' /\ sender'.beat >= sender.beat
  <1> DEFINE full == Len(buffer) >= MaxBuffered
             beat == stats.received + 1
             kept == IF full THEN Tail(buffer) ELSE buffer
  <1>1. CASE UNCHANGED sending
    <2>1. sender' = sender /\ UNCHANGED <<buffer, stats, lab_beats>>
      BY <1>1 DEF sending
    <2>2. QED
      BY <2>1, UndisturbedKeeps
  <1>2. CASE ~UNCHANGED sending
    <2>1. /\ stats.received < MaxBeats
          /\ buffer' = Append(kept, beat)
          /\ stats' = [stats EXCEPT
                          !.received = beat,
                          !.dropped = IF full THEN stats.dropped + 1
                                      ELSE stats.dropped]
          /\ sender' = Woken
          /\ lab_beats' = lab_beats
      BY <1>2 DEF Ingest
    <2>2. /\ stats' \in [received : 0 .. MaxBeats, sent : Nat, dropped : Nat,
                          failed : Nat]
          /\ stats'.received = beat
          /\ stats'.sent = stats.sent
          /\ stats'.failed = stats.failed
          /\ stats'.dropped = IF full THEN stats.dropped + 1 ELSE stats.dropped
      <3>1. beat \in 0 .. MaxBeats
        BY SMTT(20), <2>1, Facts, TelemetryAssumption
      <3>2. stats.dropped + 1 \in Nat
        BY Facts
      <3> HIDE DEF beat
      <3>3. QED
        BY <2>1, <3>1, <3>2, Facts
    <2>3. full => buffer # <<>>
      BY EmptyElems, TelemetryAssumption
    <2>4. /\ kept \in Seq(1 .. stats.received)
          /\ kept \in Seq(Nat)
          /\ Ascending(kept)
          /\ Elems(kept) \subseteq Elems(buffer)
          /\ Elems(buffer) \subseteq
               Elems(kept) \cup (IF full THEN {Head(buffer)} ELSE {})
          /\ Len(kept) = IF full THEN Len(buffer) - 1 ELSE Len(buffer)
      <3>1. CASE full
        BY <2>3, <3>1, Facts, TailElems, AscendingTail
      <3>2. CASE ~full
        BY <3>2, Facts
      <3>3. QED
        BY <3>1, <3>2
    <2> HIDE DEF kept
    <2>5. /\ beat \in Nat
          /\ 1 .. stats.received \subseteq 1 .. beat
          /\ beat \in 1 .. beat
          /\ 0 .. stats.received \subseteq 0 .. beat
      BY Facts
    <2>6. Len(kept) \in Nat /\ Len(kept) + 1 <= MaxBuffered
      BY <2>3, <2>4, Facts, LenProperties, TelemetryAssumption
    <2>7. /\ buffer' \in Seq(1 .. beat)
          /\ Len(buffer') = Len(kept) + 1
          /\ Elems(buffer') = Elems(kept) \cup {beat}
          /\ buffer' # <<>>
      <3>1. kept \in Seq(1 .. beat)
        <4>1. 1 .. stats.received \subseteq 1 .. beat
          BY <2>5
        <4>2. Seq(1 .. stats.received) \subseteq Seq(1 .. beat)
          BY <4>1, SeqMonotonic
        <4>3. QED
          BY <2>4, <4>2
      <3>2. QED
        BY <2>1, <2>5, <2>6, <3>1, AppendElems, AppendProperties, EmptyElems
    <2>8. Ascending(buffer')
      <3>1. \A e \in Elems(kept) : e < beat
        BY <2>4, Facts
      <3>2. QED
        BY <2>1, <2>4, <2>5, <3>1, AscendingAppend
    <2>9. /\ sender' \in [phase : Waits, beat : 0 .. stats.received]
          /\ sender'.beat = sender.beat
          /\ \/ sender'.phase = sender.phase
             \/ sender.phase = "wait" /\ sender'.phase = "woken"
      BY <2>1, Facts, WokenIs
    <2>10. SendTypes'
      BY <2>1, <2>2, <2>5, <2>6, <2>7, <2>9, Facts DEF SendTypes
    <2>11. OrderInv'
      <3>1. sender.beat < beat
        BY Facts
      <3>2. \A e \in Elems(buffer') : sender'.beat <= e
        BY <2>4, <2>7, <2>9, <3>1, Facts
      <3>3. sender'.phase = "draining" => \A e \in Elems(buffer') : sender'.beat < e
        BY <2>4, <2>7, <2>9, <3>1 DEF IInv, OrderInv
      <3>4. QED
        BY <2>7, <2>8, <2>9, <3>2, <3>3 DEF IInv, OrderInv
    <2>12. EveryBeatCounted'
      <3>1. InDrain' = InDrain
        BY <2>9 DEF InDrain, Drains
      <3>2. stats.received = stats.sent + stats.dropped + stats.failed
                             + Len(buffer) + InDrain
        BY DEF IInv, EveryBeatCounted, Drains, InDrain
      <3> DEFINE r == stats.received
                 a == stats.sent
                 d == stats.dropped
                 f == stats.failed
                 k == Len(buffer)
                 x == InDrain
                 d2 == stats'.dropped
                 l == Len(buffer')
      <3>3. /\ a \in Nat /\ d \in Nat /\ f \in Nat /\ k \in Nat /\ x \in Nat
            /\ r = a + d + f + k + x
            /\ \/ d2 = d + 1 /\ l = k
               \/ d2 = d /\ l = k + 1
        BY SMTT(20), <2>2, <2>4, <2>7, <3>2, Numbers, InDrainType
      <3> HIDE DEF r, a, d, f, k, x, d2, l
      <3>4. r + 1 = a + d2 + f + l + x
        BY <3>3
      <3>5. stats'.received = r + 1 /\ stats'.sent = a /\ stats'.failed = f
        BY <2>2 DEF r, a, f
      <3>6. QED
        BY <3>1, <3>4, <3>5 DEF EveryBeatCounted, Drains, InDrain, d2, l, x
    <2>13. LossInv'
      <3>1. Underway' = Underway
        BY <2>9 DEF Underway
      <3>2. (1 .. beat) \ {beat} \subseteq 1 .. stats.received
        BY SMTT(20), Facts
      <3>3. Lost' \subseteq
              (1 .. stats.received) \ (lab_beats \cup Elems(kept) \cup Underway)
        BY <2>1, <2>2, <2>7, <3>1, <3>2 DEF Lost
      <3>4. CASE ~full
        <4>1. Lost' \subseteq Lost
          BY <2>4, <3>3, <3>4 DEF Lost
        <4>2. Cardinality(Lost') <= Cardinality(Lost) /\ Cardinality(Lost') \in Nat
          BY <4>1, LostFacts, NoMore
        <4>3. Overtaken' => Overtaken
          BY <2>4, <2>7, <2>9, <3>4 DEF Overtaken
        <4>4. stats'.dropped = stats.dropped /\ stats'.failed = stats.failed
          BY <2>2, <3>4
        <4>5. QED
          BY <4>2, <4>3, <4>4, Numbers DEF LossInv, Credit
      <3>5. CASE full
        <4>0. stats'.dropped = stats.dropped + 1 /\ stats'.failed = stats.failed
          BY <2>2, <3>5
        <4>1. CASE Overtaken' /\ ~Overtaken
          <5>1. sender.phase \in {"posting", "backoff"} /\ sender.beat = Head(buffer)
            BY <2>4, <2>7, <2>9, <3>5, <4>1 DEF Overtaken
          <5>2. Lost' \subseteq Lost
            BY <2>4, <3>3, <3>5, <5>1 DEF Lost, Underway
          <5>3. Cardinality(Lost') <= Cardinality(Lost) /\ Cardinality(Lost') \in Nat
            BY <5>2, LostFacts, NoMore
          <5>4. QED
            BY <4>0, <4>1, <5>3, Numbers DEF LossInv, Credit
        <4>2. CASE Overtaken' => Overtaken
          <5>1. Lost' \subseteq Lost \cup {Head(buffer)}
            BY <2>4, <3>3, <3>5 DEF Lost
          <5>2. Cardinality(Lost') <= Cardinality(Lost) + 1 /\ Cardinality(Lost') \in Nat
            BY <5>1, LostFacts, OneMore
          <5>3. QED
            BY <4>0, <4>2, <5>2, Numbers DEF LossInv, Credit
        <4>3. QED
          BY <4>1, <4>2
      <3>6. QED
        BY <3>4, <3>5
    <2>14. sender'.beat >= sender.beat
      BY <2>9, Facts
    <2>15. QED
      BY <2>10, <2>11, <2>12, <2>13, <2>14 DEF SendInv
  <1>3. QED
    BY <1>1, <1>2

-----------------------------------------------------------------------------
(* The invariant.                                                          *)

\* The part of the type invariant about herdr and the subscriber.
PaneTypes ==
  /\ herdr \in [Panes -> Statuses \cup {Absent}]
  /\ subscriber \in
       [phase : {"list", "connect", "subscribed", "closed"},
        panes : SUBSET Panes, rebuild : BOOLEAN]
  /\ lastStatus \in [Panes -> Statuses \cup {Unknown}]
  /\ aborted \in BOOLEAN

LEMMA SubscribingTyped ==
  ASSUME PaneTypes, Subscribing
  PROVE  PaneTypes' /\ UNCHANGED sending
  <1>1. UNCHANGED <<herdr, lastStatus, sending, aborted>>
    BY DEF Subscribing, ListPanes, Subscribe, SubscriptionFails, Rebuild,
           SubscriberCloses
  <1>2. subscriber' \in
          [phase : {"list", "connect", "subscribed", "closed"},
           panes : SUBSET Panes, rebuild : BOOLEAN]
    <2>1. CASE ListPanes
      BY <2>1 DEF ListPanes, Enters
    <2>2. CASE Subscribe
      BY <2>2 DEF Subscribe, Enters, PaneTypes
    <2>3. CASE SubscriptionFails \/ Rebuild
      <3>1. \E phase \in {"list", "closed"} : Enters(phase, {})
        BY <2>3 DEF SubscriptionFails, Rebuild, BeginsAgain
      <3>2. QED
        BY <3>1 DEF Enters
    <2>4. CASE SubscriberCloses
      BY <2>4 DEF SubscriberCloses, Enters
    <2>5. QED
      BY <2>1, <2>2, <2>3, <2>4 DEF Subscribing
  <1>3. QED
    BY <1>1, <1>2 DEF PaneTypes

\* What a step of herdr does to the sender.
LEMMA HerdrTyped ==
  ASSUME PaneTypes, Herdr
  PROVE  /\ PaneTypes'
         /\ \/ UNCHANGED sending
            \/ \E p \in Panes, s \in Statuses : Ingest(p, s)
  <1>1. PICK p \in Panes :
          \/ \E s \in Statuses : StatusChanges(p, s) \/ PaneCreated(p, s)
          \/ PaneClosed(p)
          \/ Forget(p)
    BY DEF Herdr
  <1>2. ASSUME NEW s \in Statuses, StatusChanges(p, s)
        PROVE  PaneTypes' /\ (UNCHANGED sending \/ Ingest(p, s))
    <2>1. /\ herdr' \in [Panes -> Statuses \cup {Absent}]
          /\ UNCHANGED <<subscriber, aborted>>
      BY <1>2 DEF StatusChanges, PaneTypes
    <2>2. /\ UNCHANGED sending \/ Ingest(p, s)
          /\ lastStatus' \in [Panes -> Statuses \cup {Unknown}]
      BY <1>2 DEF StatusChanges, Ingest, PaneTypes
    <2>3. QED
      BY <2>1, <2>2 DEF PaneTypes
  <1>3. ASSUME NEW s \in Statuses, PaneCreated(p, s)
        PROVE  PaneTypes' /\ UNCHANGED sending
    BY <1>3 DEF PaneCreated, PaneTypes, Subscribed
  <1>4. CASE PaneClosed(p)
    BY <1>4 DEF PaneClosed, PaneTypes
  <1>5. CASE Forget(p)
    BY <1>5 DEF Forget, PaneTypes
  <1>6. QED
    BY <1>1, <1>2, <1>3, <1>4, <1>5

LEMMA InitIInv == Init => IInv
  <1> SUFFICES ASSUME Init PROVE IInv
    OBVIOUS
  <1>1. /\ buffer = <<>> /\ lab_beats = {}
        /\ stats = [received |-> 0, sent |-> 0, dropped |-> 0, failed |-> 0]
        /\ sender = [phase |-> "wait", beat |-> 0]
    BY DEF Init
  <1>2. TypeOK
    <2>1. /\ herdr \in [Panes -> Statuses \cup {Absent}]
          /\ subscriber \in
               [phase : {"list", "connect", "subscribed", "closed"},
                panes : SUBSET Panes, rebuild : BOOLEAN]
          /\ lastStatus \in [Panes -> Statuses \cup {Unknown}]
          /\ aborted \in BOOLEAN
      BY DEF Init
    <2>2. /\ stats \in [received : 0 .. MaxBeats, sent : Nat, dropped : Nat,
                        failed : Nat]
          /\ stats.received = 0
      BY <1>1, TelemetryAssumption
    <2>3. /\ sender \in [phase : Waits, beat : 0 .. stats.received]
          /\ lab_beats \subseteq 1 .. stats.received
      BY <1>1, <2>2 DEF Waits
    <2>4. /\ buffer \in Seq(1 .. stats.received)
          /\ Len(buffer) <= MaxBuffered
      BY <1>1, <2>2, EmptyElems, TelemetryAssumption
    <2>5. QED
      BY <2>1, <2>2, <2>3, <2>4 DEF TypeOK
  <1>3. OrderInv
    BY <1>1, EmptyElems DEF OrderInv
  <1>4. EveryBeatCounted
    BY <1>1, EmptyElems DEF EveryBeatCounted
  <1>5. LossInv
    <2>1. Lost = {}
      BY <1>1 DEF Lost
    <2>2. Cardinality(Lost) = 0
      BY <2>1, FS_EmptySet
    <2>3. Credit = 0
      BY <1>1 DEF Credit, Overtaken
    <2>4. QED
      BY <1>1, <2>2, <2>3 DEF LossInv
  <1>6. QED
    BY <1>2, <1>3, <1>4, <1>5 DEF IInv

LEMMA NextIInv == IInv /\ [Next]_vars => IInv' /\ sender'.beat >= sender.beat
  <1> SUFFICES ASSUME IInv, [Next]_vars
               PROVE  IInv' /\ sender'.beat >= sender.beat
    OBVIOUS
  <1>1. PaneTypes
    BY DEF IInv, TypeOK, PaneTypes
  <1>2. PaneTypes' /\ SendInv' /\ sender'.beat >= sender.beat
    <2>0. ASSUME UNCHANGED sending
          PROVE  SendInv' /\ sender'.beat >= sender.beat
      <3>1. sender' = sender /\ UNCHANGED <<buffer, stats, lab_beats>>
        BY <2>0 DEF sending
      <3>2. QED
        BY <3>1, UndisturbedKeeps
    <2>1. CASE Herdr
      BY <1>1, <2>0, <2>1, HerdrTyped, IngestKeeps
    <2>2. CASE Subscribing
      BY <1>1, <2>0, <2>2, SubscribingTyped
    <2>3. CASE Sending
      <3>1. PaneTypes'
        BY <1>1, <2>3 DEF PaneTypes, Sending, Posting, SenderWakes, BackoffEnds,
                          PostSucceeds, PostRefused, PostFails, DrainSucceeds,
                          DrainFails, daemon
      <3>2. CASE SenderWakes
        BY <3>1, <3>2, SenderWakesKeeps
      <3>3. CASE BackoffEnds
        BY <3>1, <3>3, BackoffEndsKeeps
      <3>4. CASE PostSucceeds \/ PostRefused
        BY <3>1, <3>4, PostAnsweredKeeps
      <3>5. CASE PostFails
        BY <3>1, <3>5, PostFailsKeeps
      <3>6. CASE DrainSucceeds \/ DrainFails
        BY <3>1, <3>6, DrainKeeps
      <3>7. QED
        BY <2>3, <3>2, <3>3, <3>4, <3>5, <3>6 DEF Sending, Posting
    <2>4. CASE Abort
      <3>1. /\ PaneTypes'
            /\ sender' \in {sender, Woken}
            /\ UNCHANGED <<buffer, stats, lab_beats>>
        BY <1>1, <2>4 DEF Abort, PaneTypes, daemon
      <3>2. QED
        BY <3>1, UndisturbedKeeps
    <2>5. CASE UNCHANGED vars
      BY <1>1, <2>0, <2>5 DEF vars, sending, PaneTypes
    <2>6. QED
      BY <2>1, <2>2, <2>3, <2>4, <2>5 DEF Next
  <1>3. TypeOK'
    BY <1>2 DEF TypeOK, PaneTypes, SendInv, SendTypes
  <1>4. QED
    BY <1>2, <1>3 DEF IInv, SendInv

LEMMA Invariance == Spec => []IInv
  BY InitIInv, NextIInv, PTL DEF Spec

\* The state of the bridge is well typed; the buffer keeps its bound.
THEOREM Typing == Spec => []TypeOK
  <1>1. IInv => TypeOK
    BY DEF IInv
  <1>2. QED
    BY <1>1, Invariance, PTL

\* Every status change that was heard (telemetry.ts: stats.received) is sent,
\* dropped, failed, buffered or being drained, and counted as one of them only.
THEOREM Counting == Spec => []EveryBeatCounted
  <1>1. IInv => EveryBeatCounted
    BY DEF IInv
  <1>2. QED
    BY <1>1, Invariance, PTL

\* As many beats at most are missing from lab_beats, the buffer and the post
\* under way as telemetry.ts reports dropped or failed: an answer that takes
\* the beat behind the one it is for, because the buffer overflowed during the
\* post, is made up for by the overflow that was counted.
THEOREM Losses == Spec => []LossesAreCounted
  <1>1. IInv => LossesAreCounted
    <2> SUFFICES ASSUME IInv PROVE LossesAreCounted
      OBVIOUS
    <2>1. Buffered = Elems(buffer)
      BY DEF Buffered, Elems
    <2>2. Cardinality(Lost) <= stats.dropped + stats.failed
      BY Numbers
    <2>3. QED
      BY <2>1, <2>2 DEF LossesAreCounted, Lost
  <1>2. QED
    BY <1>1, Invariance, PTL

\* The sender of telemetry.ts never goes back to an earlier beat, although the
\* buffer may lose its head while a post is under way.
THEOREM Order == Spec => PostsRunForward
  <1>1. IInv /\ [Next]_vars => [sender'.beat >= sender.beat]_vars
    BY NextIInv
  <1>2. QED
    BY <1>1, Invariance, PTL DEF Spec, PostsRunForward

-----------------------------------------------------------------------------
(* Why the buffer drains and the shutdown ends: the safety halves of       *)
(* BufferDrains and ShutdownEnds.                                          *)

\* The sender sleeps only over an empty buffer and before the signal, and stops
\* only after it.
SenderIsAwake ==
  /\ sender.phase = "wait" => buffer = <<>> /\ ~aborted
  /\ sender.phase = "stopped" => aborted

\* The steps that the sender has left after the signal if nothing more is heard.
StepsLeft ==
  IF sender.phase = "stopped" THEN 0
  ELSE Len(buffer) + (IF sender.phase = "posting" THEN 2 ELSE 1)

\* A beat that has left the buffer never comes back, and after the signal every
\* step of the sender brings it nearer to its end, while any other step takes it
\* away by no more than the beats it hears.
SenderRunsDown ==
  /\ \A n \in 1 .. stats.received : n \in Elems(buffer)' => n \in Elems(buffer)
  /\ aborted =>
       /\ Sending => StepsLeft' < StepsLeft
       /\ StepsLeft' + stats.received <= StepsLeft + stats'.received

LEMMA Drained ==
  ASSUME NEW S, NEW left \in Seq(S), Continue(left),
         sender \in [phase : Waits, beat : 0 .. stats.received]
  PROVE  /\ Elems(buffer)' \subseteq Elems(left)
         /\ SenderIsAwake' \/ aborted' # aborted
         /\ aborted => StepsLeft' = Len(left)
  <1>1. Len(left) \in Nat
    BY LenProperties
  <1>2. CASE left = <<>>
    <2>1. /\ buffer' = <<>>
          /\ sender'.phase = IF aborted THEN "stopped" ELSE "wait"
      BY <1>2 DEF Continue
    <2>2. QED
      BY <1>2, <2>1, EmptyElems DEF SenderIsAwake, StepsLeft, Elems
  <1>3. CASE left # <<>> /\ ~aborted
    <2>1. buffer' = left /\ sender'.phase = "posting"
      BY <1>3 DEF Continue
    <2>2. QED
      BY <1>3, <2>1 DEF SenderIsAwake, Elems
  <1>4. CASE left # <<>> /\ aborted
    <2>1. buffer' = Tail(left) /\ sender'.phase = "draining"
      BY <1>4 DEF Continue
    <2>2. Len(Tail(left)) = Len(left) - 1 /\ Elems(Tail(left)) \subseteq Elems(left)
      BY <1>4, TailElems
    <2>3. Elems(buffer)' = Elems(Tail(left))
      BY <2>1 DEF Elems
    <2>4. StepsLeft' = Len(left)
      BY <1>1, <2>1, <2>2 DEF StepsLeft
    <2>5. QED
      BY <2>1, <2>2, <2>3, <2>4 DEF SenderIsAwake
  <1>5. QED
    BY <1>2, <1>3, <1>4

LEMMA SendingRunsDown ==
  ASSUME IInv, SenderIsAwake, Sending
  PROVE  SenderIsAwake' /\ SenderRunsDown
  <1>1. /\ buffer \in Seq(1 .. stats.received) /\ Len(buffer) \in Nat
        /\ stats.received \in Nat
        /\ stats \in [received : 0 .. MaxBeats, sent : Nat, dropped : Nat, failed : Nat]
    BY Facts
  <1>2. stats'.received = stats.received /\ aborted' = aborted
    BY <1>1 DEF Sending, Posting, SenderWakes, BackoffEnds, PostSucceeds, PostRefused,
                PostFails, DrainSucceeds, DrainFails
  <1>3. ASSUME NEW left \in Seq(1 .. stats.received), Continue(left),
               Elems(left) \subseteq Elems(buffer), Len(left) < StepsLeft
        PROVE  SenderIsAwake' /\ SenderRunsDown
    <2>1. /\ Elems(buffer)' \subseteq Elems(left)
          /\ SenderIsAwake'
          /\ aborted => StepsLeft' = Len(left)
      BY <1>2, <1>3, Facts, Drained
    <2>2. StepsLeft \in Nat /\ Len(left) \in Nat
      BY <1>1, LenProperties DEF StepsLeft
    <2>3. QED
      BY <1>1, <1>2, <1>3, <2>1, <2>2 DEF SenderRunsDown
  <1>4. CASE SenderWakes \/ BackoffEnds \/ DrainSucceeds \/ DrainFails
    <2>1. Continue(buffer) /\ sender.phase \in {"woken", "backoff", "draining"}
      BY <1>4 DEF SenderWakes, BackoffEnds, DrainSucceeds, DrainFails
    <2>2. Len(buffer) < StepsLeft
      BY <1>1, <2>1 DEF StepsLeft
    <2>3. QED
      BY <1>1, <1>3, <2>1, <2>2
  <1>5. CASE PostSucceeds \/ PostRefused
    <2>1. Continue(Tail(buffer)) /\ sender.phase = "posting" /\ buffer # <<>>
      BY <1>5 DEF PostSucceeds, PostRefused, IInv, OrderInv
    <2>2. /\ Tail(buffer) \in Seq(1 .. stats.received)
          /\ Len(Tail(buffer)) = Len(buffer) - 1
          /\ Elems(Tail(buffer)) \subseteq Elems(buffer)
      BY <1>1, <2>1, TailElems
    <2>3. Len(Tail(buffer)) < StepsLeft
      BY <1>1, <2>1, <2>2 DEF StepsLeft
    <2>4. QED
      BY <1>3, <2>1, <2>2, <2>3
  <1>6. CASE PostFails
    <2>1. /\ buffer' = buffer /\ sender.phase = "posting" /\ sender'.phase = "backoff"
      BY <1>6, Facts DEF PostFails
    <2>2. StepsLeft' = Len(buffer) + 1 /\ StepsLeft = Len(buffer) + 2
      BY <2>1 DEF StepsLeft
    <2>3. Elems(buffer)' = Elems(buffer)
      BY <2>1 DEF Elems
    <2>4. SenderIsAwake'
      BY <2>1 DEF SenderIsAwake
    <2>5. QED
      BY <1>1, <1>2, <2>2, <2>3, <2>4 DEF SenderRunsDown
  <1>7. QED
    BY <1>4, <1>5, <1>6 DEF Sending, Posting

\* The buffer and the sender stay as they are, but a waiting sender may be woken.
LEMMA OthersLeaveIt ==
  ASSUME IInv, SenderIsAwake, UNCHANGED <<buffer, stats>>,
         \/ sender' = sender /\ aborted' = aborted
         \/ sender' = Woken /\ (aborted => aborted') /\ aborted' \in BOOLEAN,
         ~Sending
  PROVE  SenderIsAwake' /\ SenderRunsDown
  <1>1. /\ Len(buffer) \in Nat /\ stats.received \in Nat
        /\ Woken.phase = IF sender.phase = "wait" THEN "woken" ELSE sender.phase
    BY Facts, WokenIs
  <1>2. Elems(buffer)' = Elems(buffer)
    BY DEF Elems
  <1>3. SenderIsAwake'
    BY <1>1 DEF SenderIsAwake
  <1>4. aborted => StepsLeft' = StepsLeft
    BY <1>1 DEF SenderIsAwake, StepsLeft
  <1>5. QED
    BY <1>1, <1>2, <1>3, <1>4 DEF SenderRunsDown, StepsLeft

LEMMA IngestRunsDown ==
  ASSUME IInv, SenderIsAwake, NEW p \in Panes, NEW s \in Statuses, Ingest(p, s),
         aborted' = aborted, ~Sending
  PROVE  SenderIsAwake' /\ SenderRunsDown
  <1> DEFINE beat == stats.received + 1
             kept == IF Len(buffer) >= MaxBuffered THEN Tail(buffer) ELSE buffer
  <1>1. CASE UNCHANGED sending
    BY <1>1, OthersLeaveIt DEF sending
  <1>2. CASE ~UNCHANGED sending
    <2>1. /\ buffer' = Append(kept, beat) /\ stats'.received = beat /\ sender' = Woken
      BY <1>2, Facts DEF Ingest
    <2>2. /\ buffer \in Seq(Nat) /\ Len(buffer) \in Nat /\ stats.received \in Nat
          /\ Woken.phase = IF sender.phase = "wait" THEN "woken" ELSE sender.phase
      BY Facts, WokenIs
    <2>3. Len(buffer) >= MaxBuffered => buffer # <<>>
      BY EmptyElems, TelemetryAssumption
    <2>4. /\ kept \in Seq(Nat) /\ Len(kept) <= Len(buffer) /\ Len(kept) \in Nat
          /\ Elems(kept) \subseteq Elems(buffer)
      <3>1. CASE Len(buffer) >= MaxBuffered
        BY <2>2, <2>3, <3>1, TailElems
      <3>2. CASE ~(Len(buffer) >= MaxBuffered)
        BY <2>2, <3>2
      <3>3. QED
        BY <3>1, <3>2
    <2> HIDE DEF kept
    <2>5. /\ Len(buffer') = Len(kept) + 1
          /\ Elems(buffer)' = Elems(kept) \cup {beat}
      <3>1. beat \in Nat
        BY <2>2
      <3>2. Elems(buffer)' = Elems(Append(kept, beat))
        BY <2>1 DEF Elems
      <3> HIDE DEF beat
      <3>3. QED
        BY <2>1, <2>4, <3>1, <3>2, AppendElems, AppendProperties
    <2>6. SenderIsAwake'
      BY <2>1, <2>2 DEF SenderIsAwake
    <2>7. aborted => StepsLeft' <= StepsLeft + 1 /\ StepsLeft \in Nat /\ StepsLeft' \in Nat
      BY <2>1, <2>2, <2>4, <2>5 DEF SenderIsAwake, StepsLeft
    <2>8. \A n \in 1 .. stats.received : n \in Elems(buffer)' => n \in Elems(buffer)
      BY <2>2, <2>4, <2>5
    <2>9. QED
      BY <2>1, <2>2, <2>6, <2>7, <2>8 DEF SenderRunsDown
  <1>3. QED
    BY <1>1, <1>2

LEMMA StepRunsDown ==
  ASSUME IInv, SenderIsAwake, [Next]_vars
  PROVE  SenderIsAwake' /\ SenderRunsDown
  <1>1. CASE Sending
    BY <1>1, SendingRunsDown
  <1>2. CASE ~Sending /\ (Subscribing \/ UNCHANGED vars)
    <2>1. UNCHANGED <<buffer, stats, sender, aborted>>
      BY <1>2 DEF Subscribing, ListPanes, Subscribe, SubscriptionFails, Rebuild,
                  SubscriberCloses, vars, sending
    <2>2. QED
      BY <1>2, <2>1, OthersLeaveIt
  <1>3. CASE ~Sending /\ Abort
    BY <1>3, OthersLeaveIt DEF Abort
  <1>4. CASE ~Sending /\ Herdr
    <2>1. \/ UNCHANGED <<buffer, stats, sender>>
          \/ \E p \in Panes, s \in Statuses : Ingest(p, s)
      BY <1>4 DEF Herdr, StatusChanges, PaneCreated, PaneClosed, Forget, sending
    <2>2. aborted' = aborted
      BY <1>4 DEF Herdr, StatusChanges, PaneCreated, PaneClosed, Forget
    <2>3. QED
      BY <1>4, <2>1, <2>2, OthersLeaveIt, IngestRunsDown
  <1>5. QED
    BY <1>1, <1>2, <1>3, <1>4 DEF Next

LEMMA AwakeAlways == Spec => [](IInv /\ SenderIsAwake)
  <1>1. Init => SenderIsAwake
    BY DEF Init, SenderIsAwake
  <1>2. QED
    BY <1>1, StepRunsDown, InitIInv, NextIInv, PTL DEF Spec

\* No wake-up is lost between the look at the buffer and the sleep: the sender of
\* telemetry.ts never sleeps over a beat, or after the signal (telemetry.ts:
\* wake, sendLoop).
THEOREM NoLostWakeUp == Spec => []SenderIsAwake
  BY AwakeAlways, PTL

\* A beat that left the buffer is never posted from it again, and after the
\* signal the sender ends within two steps more than there are beats in the
\* buffer and still to be heard, whatever the worker answers (telemetry.ts:
\* sendLoop and its drain).
THEOREM SenderEnds == Spec => [][SenderRunsDown]_vars
  <1>1. IInv /\ SenderIsAwake /\ [Next]_vars => [SenderRunsDown]_vars
    BY StepRunsDown
  <1>2. QED
    BY <1>1, AwakeAlways, PTL DEF Spec
=============================================================================
