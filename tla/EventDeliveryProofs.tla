------------------------ MODULE EventDeliveryProofs ------------------------
(***************************************************************************)
(* Proofs about EventDelivery, for any number of events, subscribers,      *)
(* redrivers, jobs and queues and every limit: what the bus keeps of a     *)
(* failed handler, and which jobs the loop over the queues can leave       *)
(* behind.                                                                 *)
(***************************************************************************)
EXTENDS EventDelivery, SequenceTheorems, TLAPS

-------------------------------------------------------------------------------
(* Sequences.                                                                  *)

LEMMA ConsFacts ==
  ASSUME NEW S, NEW s \in Seq(S), NEW x \in S
  PROVE  /\ <<x>> \o s \in Seq(S)
         /\ Len(<<x>> \o s) = Len(s) + 1
         /\ (<<x>> \o s)[1] = x
         /\ \A i \in 1..Len(s) : (<<x>> \o s)[i + 1] = s[i]
         /\ ToSet(<<x>> \o s) = {x} \cup ToSet(s)
<1> DEFINE t == <<x>> \o s
<1>0. <<x>> \in Seq(S) /\ Len(<<x>>) = 1 /\ <<x>>[1] = x
  OBVIOUS
<1>1. /\ t \in Seq(S) /\ Len(t) = Len(s) + 1 /\ t[1] = x
      /\ \A i \in 2..(Len(s) + 1) : t[i] = s[i - 1]
  BY <1>0, ConcatProperties
<1> HIDE DEF t
<1>2. \A i \in 1..Len(s) : t[i + 1] = s[i]
  <2>1. \A i \in 1..Len(s) : i + 1 \in 2..(Len(s) + 1) /\ (i + 1) - 1 = i
    OBVIOUS
  <2> QED BY <1>1, <2>1
<1>3. ToSet(t) \subseteq {x} \cup ToSet(s)
  <2> SUFFICES ASSUME NEW i \in DOMAIN t, t[i] # x PROVE t[i] \in ToSet(s)
    BY DEF ToSet
  <2>1. i - 1 \in DOMAIN s /\ t[i] = s[i - 1]
    BY <1>1
  <2> QED BY <2>1 DEF ToSet
<1>4. {x} \cup ToSet(s) \subseteq ToSet(t)
  <2>1. 1 \in DOMAIN t /\ \A i \in DOMAIN s : i + 1 \in DOMAIN t
    BY <1>1
  <2> QED BY <1>1, <1>2, <2>1 DEF ToSet
<1> QED BY <1>1, <1>2, <1>3, <1>4 DEF t

LEMMA SubSeqFacts ==
  ASSUME NEW S, NEW s \in Seq(S), NEW n \in Nat, n <= Len(s)
  PROVE  /\ SubSeq(s, 1, n) \in Seq(S)
         /\ Len(SubSeq(s, 1, n)) = n
         /\ \A i \in 1..n : SubSeq(s, 1, n)[i] = s[i]
         /\ ToSet(SubSeq(s, 1, n)) \subseteq ToSet(s)
<1>1. /\ SubSeq(s, 1, n) \in Seq(S)
      /\ Len(SubSeq(s, 1, n)) = n
      /\ \A i \in 1..n : SubSeq(s, 1, n)[i] = s[i]
  OBVIOUS
<1> QED BY <1>1 DEF ToSet

LEMMA RemoveAtFacts ==
  ASSUME NEW S, NEW s \in Seq(S), NEW n \in 1..Len(s)
  PROVE  /\ RemoveAt(s, n) \in Seq(S)
         /\ Len(RemoveAt(s, n)) = Len(s) - 1
         /\ ToSet(RemoveAt(s, n)) \subseteq ToSet(s)
         /\ ToSet(s) \ ToSet(RemoveAt(s, n)) \subseteq {s[n]}
<1> DEFINE a == SubSeq(s, 1, n - 1)
           b == SubSeq(s, n + 1, Len(s))
<1>1. /\ a \in Seq(S) /\ Len(a) = n - 1
      /\ \A i \in 1..(n - 1) : a[i] = s[i]
  OBVIOUS
<1>2. /\ b \in Seq(S) /\ Len(b) = Len(s) - n
      /\ \A i \in 1..(Len(s) - n) : b[i] = s[n + i]
  OBVIOUS
<1>3. /\ a \o b \in Seq(S) /\ Len(a \o b) = Len(a) + Len(b)
      /\ \A i \in 1..(Len(a) + Len(b)) :
           (a \o b)[i] = IF i <= Len(a) THEN a[i] ELSE b[i - Len(a)]
  <2> HIDE DEF a, b
  <2> QED BY <1>1, <1>2, ConcatProperties
<1>4. RemoveAt(s, n) = a \o b
  BY DEF RemoveAt
<1> DEFINE t == a \o b
<1>5. /\ Len(t) = Len(s) - 1 /\ t \in Seq(S)
      /\ \A i \in 1..(n - 1) : t[i] = s[i]
      /\ \A i \in n..(Len(s) - 1) : t[i] = s[i + 1]
  <2> HIDE DEF a, b
  <2>1. Len(t) = Len(s) - 1 /\ t \in Seq(S)
    BY <1>1, <1>2, <1>3
  <2>2. ASSUME NEW i \in 1..(n - 1) PROVE t[i] = s[i]
    BY <1>1, <1>2, <1>3
  <2>3. ASSUME NEW i \in n..(Len(s) - 1) PROVE t[i] = s[i + 1]
    <3>1. i \in 1..(Len(a) + Len(b)) /\ ~(i <= Len(a)) /\ i - Len(a) = i - n + 1
      BY <1>1, <1>2
    <3>2. i - n + 1 \in 1..(Len(s) - n) /\ n + (i - n + 1) = i + 1
      OBVIOUS
    <3>3. t[i] = b[i - n + 1]
      BY <1>3, <3>1
    <3> QED BY <1>2, <3>2, <3>3
  <2> QED BY <2>1, <2>2, <2>3
<1> HIDE DEF t
<1>6. ToSet(t) \subseteq ToSet(s)
  BY <1>5 DEF ToSet
<1>7. \A i \in 1..Len(s) : i # n => s[i] \in ToSet(t)
  <2> SUFFICES ASSUME NEW i \in 1..Len(s), i # n PROVE s[i] \in ToSet(t)
    OBVIOUS
  <2>1. CASE i < n
    BY <1>5, <2>1 DEF ToSet
  <2>2. CASE i > n
    <3>1. i - 1 \in n..(Len(s) - 1) /\ i - 1 \in DOMAIN t /\ (i - 1) + 1 = i
      BY <1>5, <2>2
    <3> QED BY <1>5, <3>1 DEF ToSet
  <2> QED BY <2>1, <2>2
<1>8. ToSet(s) \ ToSet(t) \subseteq {s[n]}
  BY <1>7 DEF ToSet
<1> QED BY <1>4, <1>5, <1>6, <1>8 DEF t

-------------------------------------------------------------------------------
(* The event bus.                                                              *)

BusTypeOK ==
  /\ pub \in [Events -> 0..(Subscribers + 1)]
  /\ dlq \in Seq(Letters) /\ Len(dlq) <= MaxDlq
  /\ redrive \in [Redrivers -> {NoRedrive} \cup
                    [letter : Letters, index : 1..MaxDlq, next : 1..Subscribers]]
  /\ served \subseteq Letters /\ lost \subseteq Letters /\ shifted \subseteq Redrivers

\* The handlers a redrive has passed have handled its event.
RedriveServed ==
  \A r \in Redriving : \A k \in 1..(redrive[r].next - 1) :
    <<redrive[r].letter[1], k>> \in served

\* The redrivers that are not in shifted have their letter at the index.
PointsAtLetter ==
  /\ shifted \subseteq Redriving
  /\ \A r \in Redriving \ shifted :
       redrive[r].index <= Len(dlq) /\ dlq[redrive[r].index] = redrive[r].letter

BusInv == BusTypeOK /\ RedriveServed /\ PointsAtLetter /\ FailureIsOnRecord

LEMMA RedrivingFacts ==
  ASSUME BusTypeOK, NEW r \in Redriving
  PROVE  /\ redrive[r] \in [letter : Letters, index : 1..MaxDlq, next : 1..Subscribers]
         /\ redrive[r].letter[1] \in Events
         /\ redrive[r].letter = <<redrive[r].letter[1], redrive[r].letter[2]>>
         /\ redrive[r].letter[2] \in 1..Subscribers
<1>1. redrive[r] \in [letter : Letters, index : 1..MaxDlq, next : 1..Subscribers]
  BY DEF BusTypeOK, Redriving, NoRedrive
<1> QED BY <1>1 DEF Letters

\* What is on record stays on record, served or lost, if the queue, the lost and the
\* served only change so.
LEMMA RecordKept ==
  ASSUME FailureIsOnRecord, pub' = pub, served \subseteq served',
         ToSet(dlq) \subseteq ToSet(dlq') \cup lost' \cup served', lost \subseteq lost'
  PROVE  FailureIsOnRecord'
BY DEF FailureIsOnRecord

LEMMA CaptureFacts ==
  ASSUME BusTypeOK, NEW letter \in Letters, Capture(letter)
  PROVE  /\ dlq' \in Seq(Letters) /\ Len(dlq') <= MaxDlq
         /\ lost \subseteq lost' /\ lost' \subseteq Letters
         /\ ToSet(dlq) \cup {letter} \subseteq ToSet(dlq') \cup lost'
         /\ shifted' = Shifted(dlq', {})
         /\ \A l \in ToSet(dlq) \ ToSet(dlq') : Len(dlq) = MaxDlq /\ l = Last(dlq)
<1> USE DeliveryAssumption
<1> DEFINE queue == <<letter>> \o dlq
           n == IF Len(queue) > MaxDlq THEN Len(queue) - 1 ELSE Len(queue)
<1>0. dlq \in Seq(Letters) /\ Len(dlq) \in Nat /\ Len(dlq) <= MaxDlq
  BY DEF BusTypeOK
<1>1. /\ queue \in Seq(Letters) /\ Len(queue) = Len(dlq) + 1
      /\ \A i \in 1..Len(dlq) : queue[i + 1] = dlq[i]
      /\ ToSet(queue) = {letter} \cup ToSet(dlq)
  BY <1>0, ConsFacts
<1>2. /\ dlq' = SubSeq(queue, 1, n)
      /\ lost' = lost \cup (ToSet(queue) \ ToSet(dlq'))
      /\ shifted' = Shifted(dlq', {})
  BY DEF Capture
<1>3. ToSet(queue) \subseteq Letters
  BY <1>1 DEF ToSet
<1> HIDE DEF queue
<1>4. n \in Nat /\ n <= Len(queue) /\ n <= MaxDlq /\ (n < Len(queue) => Len(dlq) = MaxDlq)
      /\ n >= Len(dlq)
  BY <1>0, <1>1
<1>5. /\ dlq' \in Seq(Letters) /\ Len(dlq') = n
      /\ \A i \in 1..n : dlq'[i] = queue[i]
  <2> HIDE DEF n
  <2> QED BY <1>1, <1>2, <1>4, SubSeqFacts
<1>6. ASSUME NEW l \in ToSet(dlq) \ ToSet(dlq') PROVE Len(dlq) = MaxDlq /\ l = Last(dlq)
  <2>1. PICK i \in 1..Len(dlq) : l = dlq[i]
    BY <1>0 DEF ToSet
  <2>2. i + 1 \notin 1..n
    <3>1. ASSUME i + 1 \in 1..n PROVE dlq'[i + 1] = l
      BY <1>1, <1>5, <2>1, <3>1
    <3> QED BY <1>5, <3>1 DEF ToSet
  <2>3. i = Len(dlq) /\ n < Len(queue)
    BY <1>0, <1>1, <1>4, <2>1, <2>2
  <2> QED BY <1>4, <2>1, <2>3 DEF Last
<1>7. ToSet(dlq) \cup {letter} \subseteq ToSet(dlq') \cup lost'
  BY <1>1, <1>2
<1>8. lost \subseteq lost' /\ lost' \subseteq Letters
  BY <1>2, <1>3 DEF BusTypeOK
<1> QED BY <1>2, <1>4, <1>5, <1>6, <1>7, <1>8

LEMMA HandlerFailedBus ==
  ASSUME BusInv, NEW e \in Events, HandlerFailed(e)
  PROVE  BusInv'
<1> USE DEF BusInv, HandlerFailed
<1> DEFINE letter == <<e, pub[e]>>
<1>1. letter \in Letters /\ pub[e] \in 1..Subscribers
  BY DEF Publishing, Letters
<1>2. /\ dlq' \in Seq(Letters) /\ Len(dlq') <= MaxDlq
      /\ lost \subseteq lost' /\ lost' \subseteq Letters
      /\ ToSet(dlq) \cup {letter} \subseteq ToSet(dlq') \cup lost'
      /\ shifted' = Shifted(dlq', {})
  BY <1>1, CaptureFacts
<1>3. /\ pub'[e] = pub[e] + 1 /\ pub' \in [Events -> 0..(Subscribers + 1)]
      /\ \A f \in Events : f # e => pub'[f] = pub[f]
  BY <1>1, DeliveryAssumption DEF BusTypeOK
<1>4. BusTypeOK'
  BY <1>2, <1>3 DEF BusTypeOK, Shifted, Redriving
<1>5. RedriveServed'
  BY DEF RedriveServed, Redriving
<1>6. PointsAtLetter'
  BY <1>2 DEF PointsAtLetter, Shifted, Redriving
<1>7. FailureIsOnRecord'
  <2> SUFFICES ASSUME NEW f \in Events, NEW h \in 1..Subscribers, pub'[f] > h
               PROVE  <<f, h>> \in served' \/ <<f, h>> \in ToSet(dlq') \cup lost'
    BY DEF FailureIsOnRecord
  <2>1. CASE pub[f] > h
    BY <1>2, <2>1 DEF FailureIsOnRecord
  <2>2. CASE ~(pub[f] > h)
    <3>1. f = e /\ h = pub[e]
      BY <1>1, <1>3, <2>2 DEF BusTypeOK
    <3> QED BY <1>2, <3>1
  <2> QED BY <2>1, <2>2
<1> QED BY <1>4, <1>5, <1>6, <1>7

LEMMA HandledBus ==
  ASSUME BusInv, NEW e \in Events, Handled(e)
  PROVE  BusInv'
<1> USE DEF BusInv, Handled
<1>1. <<e, pub[e]>> \in Letters /\ pub[e] \in 1..Subscribers
  BY DEF Publishing, Letters
<1>2. /\ pub'[e] = pub[e] + 1 /\ pub' \in [Events -> 0..(Subscribers + 1)]
      /\ \A f \in Events : f # e => pub'[f] = pub[f]
  BY <1>1, DeliveryAssumption DEF BusTypeOK
<1>3. BusTypeOK'
  BY <1>1, <1>2 DEF BusTypeOK
<1>4. RedriveServed' /\ PointsAtLetter'
  BY DEF RedriveServed, PointsAtLetter, Redriving
<1>5. FailureIsOnRecord'
  <2> SUFFICES ASSUME NEW f \in Events, NEW h \in 1..Subscribers, pub'[f] > h
               PROVE  <<f, h>> \in served' \/ <<f, h>> \in ToSet(dlq) \cup lost
    BY DEF FailureIsOnRecord
  <2>1. CASE pub[f] > h
    BY <2>1 DEF FailureIsOnRecord
  <2>2. CASE ~(pub[f] > h)
    <3>1. f = e /\ h = pub[e]
      BY <1>1, <1>2, <2>2 DEF BusTypeOK
    <3> QED BY <3>1
  <2> QED BY <2>1, <2>2
<1> QED BY <1>3, <1>4, <1>5

\* The event is published, by a service or for an exhausted job.
LEMMA PublishedBus ==
  ASSUME BusInv, NEW e \in Events, pub' = [pub EXCEPT ![e] = 1],
         UNCHANGED <<dlq, redrive, served, lost, shifted>>
  PROVE  BusInv'
<1> USE DEF BusInv
<1>1. /\ pub'[e] = 1 /\ pub' \in [Events -> 0..(Subscribers + 1)]
      /\ \A f \in Events : f # e => pub'[f] = pub[f]
  BY DeliveryAssumption DEF BusTypeOK
<1>2. BusTypeOK' /\ RedriveServed' /\ PointsAtLetter'
  BY <1>1 DEF BusTypeOK, RedriveServed, PointsAtLetter, Redriving
<1>3. FailureIsOnRecord'
  BY <1>1 DEF FailureIsOnRecord
<1> QED BY <1>2, <1>3

LEMMA RedriveBus ==
  ASSUME BusInv, NEW r \in Redrivers, NEW i \in 1..MaxDlq, Redrive(r, i)
  PROVE  BusInv'
<1> USE DEF BusInv, Redrive
<1> DEFINE d == [letter |-> dlq[i], index |-> i, next |-> 1]
<1>0. dlq \in Seq(Letters) /\ i \in 1..Len(dlq) /\ dlq[i] \in Letters
  BY DEF BusTypeOK
<1>1. d \in [letter : Letters, index : 1..MaxDlq, next : 1..Subscribers]
  BY <1>0, DeliveryAssumption
<1>2. redrive'[r] = d /\ \A q \in Redrivers : q # r => redrive'[q] = redrive[q]
  BY DEF BusTypeOK
<1>3. BusTypeOK'
  BY <1>1 DEF BusTypeOK
<1>4. Redriving' = Redriving \cup {r}
  BY <1>2 DEF Redriving
<1>5. RedriveServed'
  BY <1>2, <1>4 DEF RedriveServed
<1>6. PointsAtLetter'
  BY <1>0, <1>2, <1>4 DEF PointsAtLetter
<1>7. FailureIsOnRecord'
  BY DEF FailureIsOnRecord
<1> QED BY <1>3, <1>5, <1>6, <1>7

LEMMA RedriveHandledBus ==
  ASSUME BusInv, NEW r \in Redrivers, RedriveHandled(r)
  PROVE  BusInv'
<1> USE DEF BusInv, RedriveHandled
<1> DEFINE d == redrive[r]
<1>1. /\ d \in [letter : Letters, index : 1..MaxDlq, next : 1..Subscribers]
      /\ d.letter[1] \in Events
  BY RedrivingFacts
<1>2. d.next + 1 \in 1..Subscribers
  BY <1>1, DeliveryAssumption
<1>3. /\ redrive'[r].letter = d.letter /\ redrive'[r].index = d.index
      /\ redrive'[r].next = d.next + 1
      /\ redrive'[r] \in [letter : Letters, index : 1..MaxDlq, next : 1..Subscribers]
      /\ \A q \in Redrivers : q # r => redrive'[q] = redrive[q]
      /\ redrive' \in [Redrivers -> {NoRedrive} \cup
                    [letter : Letters, index : 1..MaxDlq, next : 1..Subscribers]]
  BY <1>1, <1>2 DEF BusTypeOK
<1>4. <<d.letter[1], d.next>> \in Letters
  BY <1>1 DEF Letters
<1>5. BusTypeOK'
  BY <1>3, <1>4 DEF BusTypeOK
<1>6. Redriving' = Redriving
  BY <1>2, <1>3 DEF Redriving
<1>7. RedriveServed'
  <2> SUFFICES ASSUME NEW q \in Redriving, NEW k \in 1..(redrive'[q].next - 1)
               PROVE  <<redrive'[q].letter[1], k>> \in served'
    BY <1>6 DEF RedriveServed
  <2>1. CASE q = r /\ k = d.next
    BY <1>3, <2>1
  <2>2. CASE q = r /\ k # d.next
    <3>1. k \in 1..(d.next - 1)
      BY <1>1, <1>3, <2>2
    <3> QED BY <1>3, <2>2, <3>1 DEF RedriveServed
  <2>3. CASE q # r
    BY <1>3, <2>3 DEF RedriveServed, Redriving
  <2> QED BY <2>1, <2>2, <2>3
<1>8. PointsAtLetter'
  BY <1>3, <1>6 DEF PointsAtLetter, Redriving
<1>9. FailureIsOnRecord'
  BY DEF FailureIsOnRecord
<1> QED BY <1>5, <1>7, <1>8, <1>9

\* What a redrive takes out of the queue.
LEMMA RedrivenFacts ==
  ASSUME BusInv, NEW r \in Redrivers, Redriven(r)
  PROVE  /\ dlq' \in Seq(Letters) /\ Len(dlq') <= MaxDlq
         /\ lost \subseteq lost' /\ lost' \subseteq Letters
         /\ redrive[r].letter \in served'
         /\ ToSet(dlq) \subseteq ToSet(dlq') \cup lost' \cup {redrive[r].letter}
         /\ \A l \in ToSet(dlq) \ ToSet(dlq') :
              redrive[r].index <= Len(dlq) /\ l = dlq[redrive[r].index]
<1> USE DEF BusInv, Redriven
<1> DEFINE d == redrive[r]
<1>1. /\ d \in [letter : Letters, index : 1..MaxDlq, next : 1..Subscribers]
      /\ d.letter = <<d.letter[1], d.letter[2]>> /\ d.letter[2] \in 1..Subscribers
  BY RedrivingFacts
<1>2. d.letter \in served'
  <2>1. CASE d.letter[2] = d.next
    BY <1>1, <2>1
  <2>2. CASE d.letter[2] # d.next
    <3>1. d.letter[2] \in 1..(d.next - 1)
      BY <1>1, <2>2, DeliveryAssumption
    <3> QED BY <1>1, <3>1 DEF RedriveServed
  <2> QED BY <2>1, <2>2
<1>3. /\ dlq' \in Seq(Letters) /\ Len(dlq') <= MaxDlq
      /\ \A l \in ToSet(dlq) \ ToSet(dlq') : d.index <= Len(dlq) /\ l = dlq[d.index]
  <2>1. CASE d.index <= Len(dlq)
    <3>1. d.index \in 1..Len(dlq) /\ dlq' = RemoveAt(dlq, d.index)
      BY <1>1, <2>1 DEF BusTypeOK
    <3> QED BY <2>1, <3>1, RemoveAtFacts, DeliveryAssumption DEF BusTypeOK
  <2>2. CASE ~(d.index <= Len(dlq))
    BY <2>2 DEF BusTypeOK
  <2> QED BY <2>1, <2>2
<1>4. lost' = lost \cup ((ToSet(dlq) \ ToSet(dlq')) \ {d.letter})
  OBVIOUS
<1>5. ToSet(dlq) \subseteq Letters
  BY DEF BusTypeOK, ToSet
<1> QED BY <1>2, <1>3, <1>4, <1>5 DEF BusTypeOK

LEMMA RedrivenBus ==
  ASSUME BusInv, NEW r \in Redrivers, Redriven(r)
  PROVE  BusInv'
<1>0. /\ lost \subseteq lost' /\ redrive[r].letter \in served'
      /\ ToSet(dlq) \subseteq ToSet(dlq') \cup lost' \cup {redrive[r].letter}
  BY RedrivenFacts
<1> USE DEF BusInv, Redriven
<1>1. redrive'[r] = NoRedrive /\ \A q \in Redrivers : q # r => redrive'[q] = redrive[q]
  BY DEF BusTypeOK
<1>2. Redriving' = Redriving \ {r}
  BY <1>1 DEF Redriving, NoRedrive
<1>3. shifted' = Shifted(dlq', {r}) /\ served \subseteq served'
  OBVIOUS
<1>4. BusTypeOK'
  <2>1. <<redrive[r].letter[1], redrive[r].next>> \in Letters
    BY RedrivingFacts DEF Letters
  <2> QED BY <1>3, <2>1, RedrivenFacts DEF BusTypeOK, Shifted, Redriving
<1>5. RedriveServed'
  BY <1>1, <1>2, <1>3 DEF RedriveServed, Redriving
<1>6. PointsAtLetter'
  BY <1>1, <1>2, <1>3 DEF PointsAtLetter, Shifted, Redriving
<1>7. FailureIsOnRecord'
  <2>1. lost \subseteq lost' /\ ToSet(dlq) \subseteq ToSet(dlq') \cup lost' \cup served'
    BY <1>0
  <2>2. pub' = pub /\ served \subseteq served'
    OBVIOUS
  <2>3. FailureIsOnRecord
    OBVIOUS
  <2> HIDE DEF Redriven, BusInv
  <2> QED BY <2>1, <2>2, <2>3, RecordKept
<1> QED BY <1>4, <1>5, <1>6, <1>7

LEMMA RedriveFailedBus ==
  ASSUME BusInv, NEW r \in Redrivers, RedriveFailed(r)
  PROVE  BusInv'
<1> USE DEF BusInv, RedriveFailed
<1>1. redrive'[r] = NoRedrive /\ \A q \in Redrivers : q # r => redrive'[q] = redrive[q]
  BY DEF BusTypeOK
<1>2. Redriving' = Redriving \ {r}
  BY <1>1 DEF Redriving, NoRedrive
<1>3. BusTypeOK'
  BY DEF BusTypeOK
<1>4. RedriveServed' /\ PointsAtLetter'
  BY <1>1, <1>2 DEF RedriveServed, PointsAtLetter, Redriving
<1>5. FailureIsOnRecord'
  BY DEF FailureIsOnRecord
<1> QED BY <1>3, <1>4, <1>5

\* The steps of the queues leave the bus alone, but for the event of an exhausted job.
LEMMA PoolBus ==
  ASSUME BusInv, Pool
  PROVE  BusInv'
<1>1. ASSUME UNCHANGED bus PROVE BusInv'
  BY <1>1 DEF bus, BusInv, BusTypeOK, RedriveServed, PointsAtLetter, FailureIsOnRecord,
              Redriving
<1>2. ASSUME JobExhausted, loop.job \in Events PROVE BusInv'
  BY <1>2, PublishedBus DEF JobExhausted
<1>3. ASSUME JobExhausted, loop.job \notin Events PROVE BusInv'
  <2>1. pub' = pub
    BY <1>3 DEF JobExhausted, BusInv, BusTypeOK
  <2> QED BY <1>1, <1>3, <2>1 DEF JobExhausted, bus
<1> QED BY <1>1, <1>2, <1>3 DEF Pool, Register, Enqueue, Wake, JobDone, JobRetried, Reported

LEMMA BusStep == BusInv /\ [Next]_vars => BusInv'
<1>1. ASSUME BusInv, UNCHANGED vars PROVE BusInv'
  BY <1>1 DEF vars, bus, BusInv, BusTypeOK, RedriveServed, PointsAtLetter,
              FailureIsOnRecord, Redriving
<1>2. ASSUME BusInv, NEW e \in Events, Publish(e) PROVE BusInv'
  BY <1>2, PublishedBus DEF Publish
<1> QED
  BY <1>1, <1>2, HandledBus, HandlerFailedBus, RedriveBus, RedriveHandledBus,
     RedrivenBus, RedriveFailedBus, PoolBus DEF Next, Bus

LEMMA BusInit == Init => BusInv
BY DeliveryAssumption
DEF Init, BusInv, BusTypeOK, RedriveServed, PointsAtLetter, FailureIsOnRecord, Redriving,
    NoRedrive

\* The invariant of the bus holds in every state (publish, captureDeadLetter,
\* redriveDeadLetter).
THEOREM BusInvariance == Spec => []BusInv
BY BusInit, BusStep, PTL DEF Spec

\* Every failure of a handler is handled later, on record, or known to be lost
\* (publish, captureDeadLetter, redriveDeadLetter).
THEOREM FailuresAreOnRecord == Spec => []FailureIsOnRecord
<1>1. BusInv => FailureIsOnRecord
  BY DEF BusInv
<1> QED BY BusInvariance, <1>1, PTL

\* A letter that was not redriven goes only at the limit or to a redrive whose index
\* has moved (captureDeadLetter, redriveDeadLetter).
THEOREM LossesAreExplained == Spec => LossIsExplained
<1> DEFINE Explained(l) ==
      \/ \E r \in Redriving : redrive[r].letter = l /\ <<l[1], Subscribers>> \in served'
      \/ Len(dlq) = MaxDlq /\ l = Last(dlq)
      \/ \E r \in shifted : redrive[r].next = Subscribers /\ dlq[redrive[r].index] = l
<1>1. ASSUME BusInv, Next, NEW l \in ToSet(dlq) \ ToSet(dlq')
      PROVE  Explained(l)
  <2>1. ASSUME NEW e \in Events, HandlerFailed(e)
        PROVE  Explained(l)
    <3>1. <<e, pub[e]>> \in Letters
      BY <2>1 DEF HandlerFailed, Publishing, Letters
    <3> QED BY <1>1, <2>1, <3>1, CaptureFacts DEF HandlerFailed, BusInv
  <2>2. ASSUME NEW r \in Redrivers, Redriven(r)
        PROVE  Explained(l)
    <3>1. /\ redrive[r].index <= Len(dlq) /\ l = dlq[redrive[r].index]
          /\ r \in Redriving /\ redrive[r].next = Subscribers
      BY <1>1, <2>2, RedrivenFacts DEF Redriven
    <3>2. CASE r \in shifted
      BY <3>1, <3>2
    <3>3. CASE r \notin shifted
      <4>1. redrive[r].letter = l
        BY <1>1, <3>1, <3>3 DEF BusInv, PointsAtLetter
      <4>2. <<l[1], Subscribers>> \in served'
        BY <2>2, <3>1, <4>1 DEF Redriven
      <4> QED BY <3>1, <4>1, <4>2
    <3> QED BY <3>2, <3>3
  <2>3. ASSUME dlq' = dlq PROVE Explained(l)
    BY <1>1, <2>3
  <2> HIDE DEF Explained
  <2>4. CASE Bus
    BY <2>1, <2>2, <2>3, <2>4 DEF Bus, Publish, Handled, Redrive, RedriveHandled, RedriveFailed
  <2>5. CASE Pool
    BY <2>3, <2>5 DEF Pool, bus, Register, Enqueue, Wake, JobDone, JobRetried, JobExhausted,
                      Reported
  <2> QED BY <1>1, <2>4, <2>5 DEF Next
<1>2. BusInv /\ [Next]_vars =>
        [\A l \in ToSet(dlq) \ ToSet(dlq') :
           \/ \E r \in Redriving : redrive[r].letter = l /\ <<l[1], Subscribers>> \in served'
           \/ Len(dlq) = MaxDlq /\ l = Last(dlq)
           \/ \E r \in shifted : redrive[r].next = Subscribers /\ dlq[redrive[r].index] = l]_vars
  BY <1>1
<1> QED BY BusInvariance, <1>2, PTL DEF Spec, LossIsExplained

-------------------------------------------------------------------------------
(* The worker queues.                                                          *)

\* A job that has not been queued has attempts left.
JobRecord == {r \in [status : {"NEW", "QUEUED", "PROCESSING", "COMPLETED", "FAILED"},
                     attempts : 0..MaxAttempts] :
                r.status = "NEW" => r.attempts < MaxAttempts}

PoolTypeOK ==
  /\ order \in Seq(Queues) /\ waiting \in [Queues -> Seq(Jobs)] /\ workers \subseteq Queues
  /\ job \in [Jobs -> JobRecord]
  /\ wakes \in Nat
  /\ loop = Asleep \/ loop \in [at : 1..Len(order), job : Jobs]
  /\ passed \subseteq Jobs

\* Jobs js that wait in queues ws may be tried again, and wait in one place.
Fresh(js, ws) ==
  \A q \in Queues : \A i \in DOMAIN ws[q] :
    js[ws[q][i]].status = "QUEUED" /\ js[ws[q][i]].attempts < MaxAttempts

Once(ws) ==
  \A p, q \in Queues : \A i \in DOMAIN ws[p], k \in DOMAIN ws[q] :
    ws[p][i] = ws[q][k] => p = q /\ i = k

\* Each queue is listed once, and at all if it has a job or a handler.
ListedOnce ==
  /\ \A i, k \in DOMAIN order : order[i] = order[k] => i = k
  /\ \A q \in Queues :
       waiting[q] # <<>> \/ q \in workers => \E k \in DOMAIN order : order[k] = q

\* What waits in the queue at place k of ws may be left behind.
AllPassed(ws, k) == \A i \in DOMAIN ws[order[k]] : ws[order[k]][i] \in passed

\* So it is behind the loop, and everywhere if nobody is awake.
LeftPassed ==
  \A k \in DOMAIN order :
    order[k] \in workers /\ (k < loop.at \/ (loop.at = 0 /\ wakes = 0))
    => AllPassed(waiting, k)

PoolInv == PoolTypeOK /\ Fresh(job, waiting) /\ Once(waiting) /\ ListedOnce /\ LeftPassed

LEMMA TailFacts ==
  ASSUME NEW S, NEW s \in Seq(S), s # <<>>
  PROVE  /\ Len(s) \in Nat /\ Len(s) > 0 /\ s[1] \in S /\ Head(s) = s[1]
         /\ Tail(s) \in Seq(S) /\ Len(Tail(s)) = Len(s) - 1
         /\ \A i \in 1..(Len(s) - 1) : Tail(s)[i] = s[i + 1]
OBVIOUS

LEMMA AppendFacts ==
  ASSUME NEW S, NEW s \in Seq(S), NEW x \in S
  PROVE  /\ Append(s, x) \in Seq(S) /\ Len(Append(s, x)) = Len(s) + 1
         /\ Append(s, x)[Len(s) + 1] = x
         /\ \A i \in 1..Len(s) : Append(s, x)[i] = s[i]
OBVIOUS

Taken(js, j)   == [js EXCEPT ![j] = [status |-> "PROCESSING", attempts |-> @.attempts + 1]]
Shorter(ws, q) == [ws EXCEPT ![q] = Tail(@)]
Longer(ws, q, j) == [ws EXCEPT ![q] = Append(@, j)]

\* The loop takes the first job of a queue.
LEMMA TakeFacts ==
  ASSUME NEW js \in [Jobs -> JobRecord], NEW ws \in [Queues -> Seq(Jobs)],
         NEW q \in Queues, ws[q] # <<>>, Fresh(js, ws), Once(ws)
  PROVE  LET js1 == Taken(js, Head(ws[q])) ws1 == Shorter(ws, q) IN
         /\ Head(ws[q]) \in Jobs /\ js1 \in [Jobs -> JobRecord] /\ ws1 \in [Queues -> Seq(Jobs)]
         /\ Fresh(js1, ws1) /\ Once(ws1)
         /\ \A p \in Queues : p # q => ws1[p] = ws[p]
         /\ \A i \in DOMAIN ws1[q] : i + 1 \in DOMAIN ws[q] /\ ws1[q][i] = ws[q][i + 1]
<1> DEFINE j == Head(ws[q]) js1 == Taken(js, j) ws1 == Shorter(ws, q)
<1>1. /\ ws[q] \in Seq(Jobs) /\ Len(ws[q]) \in Nat /\ Len(ws[q]) > 0 /\ j = ws[q][1]
      /\ j \in Jobs /\ Tail(ws[q]) \in Seq(Jobs) /\ Len(Tail(ws[q])) = Len(ws[q]) - 1
      /\ \A i \in 1..(Len(ws[q]) - 1) : Tail(ws[q])[i] = ws[q][i + 1]
  BY TailFacts
<1>2. 1 \in DOMAIN ws[q]
  BY <1>1
<1>3. js[j].attempts + 1 \in 0..MaxAttempts
  BY <1>1, <1>2, DeliveryAssumption DEF Fresh, JobRecord
<1>4. js1 \in [Jobs -> JobRecord] /\ \A i \in Jobs : i # j => js1[i] = js[i]
  BY <1>3 DEF JobRecord, Taken
<1>5. ws1 \in [Queues -> Seq(Jobs)] /\ ws1[q] = Tail(ws[q])
      /\ \A p \in Queues : p # q => ws1[p] = ws[p]
  BY <1>1 DEF Shorter
<1> HIDE DEF j, js1, ws1
<1> DEFINE Was(p, i) == IF p = q THEN i + 1 ELSE i
<1>6. ASSUME NEW p \in Queues, NEW i \in DOMAIN ws1[p]
      PROVE  /\ i \in Nat /\ Was(p, i) \in DOMAIN ws[p] /\ ws1[p][i] = ws[p][Was(p, i)]
             /\ ws1[p][i] \in Jobs /\ ws1[p][i] # j
  <2>0. ws1[p] \in Seq(Jobs) /\ ws[p] \in Seq(Jobs)
    BY <1>5
  <2>1. CASE p = q
    <3>1. i \in 1..(Len(ws[q]) - 1) /\ i + 1 \in DOMAIN ws[q] /\ i + 1 # 1
      BY <1>1, <1>5, <2>1
    <3>2. ws1[p][i] = ws[q][i + 1]
      BY <1>1, <1>5, <2>1, <3>1
    <3> QED BY <1>1, <1>2, <2>0, <2>1, <3>1, <3>2 DEF Once
  <2>2. CASE p # q
    BY <1>1, <1>2, <1>5, <2>0, <2>2 DEF Once
  <2> QED BY <2>1, <2>2
<1>7. Fresh(js1, ws1)
  <2> SUFFICES ASSUME NEW p \in Queues, NEW i \in DOMAIN ws1[p]
               PROVE  /\ js1[ws1[p][i]].status = "QUEUED"
                      /\ js1[ws1[p][i]].attempts < MaxAttempts
    BY DEF Fresh
  <2>1. js1[ws1[p][i]] = js[ws[p][Was(p, i)]]
    BY <1>4, <1>6
  <2> HIDE DEF Was
  <2> QED BY <1>6, <2>1 DEF Fresh
<1>8. Once(ws1)
  <2> SUFFICES ASSUME NEW p \in Queues, NEW r \in Queues, NEW i \in DOMAIN ws1[p],
                      NEW k \in DOMAIN ws1[r], ws1[p][i] = ws1[r][k]
               PROVE  p = r /\ i = k
    BY DEF Once
  <2>1. p = r /\ Was(p, i) = Was(r, k)
    <3> HIDE DEF Was
    <3> QED BY <1>6 DEF Once
  <2> QED BY <1>6, <2>1
<1>9. \A i \in DOMAIN ws1[q] : i + 1 \in DOMAIN ws[q] /\ ws1[q][i] = ws[q][i + 1]
  BY <1>6
<1> QED BY <1>1, <1>4, <1>5, <1>7, <1>8, <1>9 DEF j, js1, ws1

LEMMA AdvancePool ==
  ASSUME PoolInv, NEW js \in [Jobs -> JobRecord], NEW ws \in [Queues -> Seq(Jobs)],
         NEW k \in Nat, Fresh(js, ws), Once(ws),
         \A q \in Queues : ws[q] # <<>> => \E i \in DOMAIN order : order[i] = q,
         \A i \in DOMAIN order : order[i] \in workers /\ i < k => AllPassed(ws, i),
         Advance(js, ws, k), UNCHANGED <<order, workers, passed>>, wakes' \in Nat
  PROVE  PoolInv'
<1> DEFINE Ready(i) == i >= k /\ order[i] \in workers /\ ws[order[i]] # <<>>
<1>0. order \in Seq(Queues) /\ \A i \in DOMAIN order : i \in Nat \ {0} /\ order[i] \in Queues
  BY DEF PoolInv, PoolTypeOK
<1>1. CASE /\ \A i \in DOMAIN order : ~Ready(i)
           /\ loop' = Asleep /\ job' = js /\ waiting' = ws
  <2>1. PoolTypeOK'
    BY <1>1 DEF PoolInv, PoolTypeOK
  <2>2. ListedOnce'
    BY <1>1 DEF PoolInv, ListedOnce
  <2>3. \A i \in DOMAIN order : order[i] \in workers => AllPassed(ws, i)
    BY <1>0, <1>1 DEF AllPassed
  <2>4. LeftPassed'
    BY <1>1, <2>3 DEF LeftPassed, AllPassed
  <2>5. Fresh(job', waiting') /\ Once(waiting')
    BY <1>1
  <2> QED BY <2>1, <2>2, <2>4, <2>5 DEF PoolInv, Fresh, Once
<1>2. ASSUME NEW at \in DOMAIN order, Ready(at), \A i \in 1..(at - 1) : ~Ready(i),
             loop' = [at |-> at, job |-> Head(ws[order[at]])],
             job' = [js EXCEPT ![Head(ws[order[at]])] =
                       [status |-> "PROCESSING", attempts |-> @.attempts + 1]],
             waiting' = [ws EXCEPT ![order[at]] = Tail(@)]
      PROVE  PoolInv'
  <2> DEFINE q == order[at]
  <2>1. /\ Head(ws[q]) \in Jobs /\ job' \in [Jobs -> JobRecord]
        /\ waiting' \in [Queues -> Seq(Jobs)]
        /\ Fresh(job', waiting') /\ Once(waiting')
        /\ \A p \in Queues : p # q => waiting'[p] = ws[p]
        /\ \A i \in DOMAIN waiting'[q] :
             i + 1 \in DOMAIN ws[q] /\ waiting'[q][i] = ws[q][i + 1]
    <3>1. q \in Queues /\ ws[q] # <<>>
      BY <1>0, <1>2
    <3>2. job' = Taken(js, Head(ws[q])) /\ waiting' = Shorter(ws, q)
      BY <1>2 DEF Taken, Shorter
    <3> HIDE DEF q
    <3> QED BY <3>1, <3>2, TakeFacts
  <2>2. at \in 1..Len(order) /\ at \in Nat \ {0}
    BY <1>0
  <2>3. PoolTypeOK'
    BY <1>2, <2>1, <2>2 DEF PoolInv, PoolTypeOK
  <2>4. ListedOnce'
    BY <1>2, <2>1 DEF PoolInv, ListedOnce
  <2>5. ASSUME NEW i \in DOMAIN order, order[i] \in workers, i < at
        PROVE  AllPassed(waiting', i)
    <3>1. ~Ready(i)
      <4>1. i \in 1..(at - 1)
        BY <1>0, <2>2, <2>5
      <4> QED BY <1>2, <4>1
    <3>2. CASE i < k
      <4>1. AllPassed(ws, i)
        BY <2>5, <3>2
      <4> QED BY <1>0, <2>1, <4>1 DEF AllPassed
    <3>3. CASE ~(i < k)
      <4>1. ws[order[i]] = <<>>
        BY <1>0, <2>5, <3>1, <3>3
      <4>2. order[i] # q
        BY <1>2, <4>1
      <4> QED BY <1>0, <2>1, <4>1, <4>2 DEF AllPassed
    <3> QED BY <3>2, <3>3
  <2>6. LeftPassed'
    BY <1>2, <2>2, <2>5 DEF LeftPassed, AllPassed
  <2> QED BY <2>1, <2>3, <2>4, <2>6 DEF PoolInv, Fresh, Once
<1> QED BY <1>1, <1>2 DEF Advance

\* The steps that advance the loop: its job has ended, is pushed back, or a timer fires.
LEMMA EndedFresh ==
  ASSUME PoolInv, loop.at # 0, job[loop.job].status # "QUEUED",
         NEW st \in {"COMPLETED", "FAILED"}
  PROVE  /\ [job EXCEPT ![loop.job].status = st] \in [Jobs -> JobRecord]
         /\ Fresh([job EXCEPT ![loop.job].status = st], waiting)
<1>1. loop.job \in Jobs
  BY DEF PoolInv, PoolTypeOK, Asleep
<1> DEFINE js == [job EXCEPT ![loop.job].status = st]
<1>2. js \in [Jobs -> JobRecord] /\ \A i \in Jobs : i # loop.job => js[i] = job[i]
  BY <1>1 DEF PoolInv, PoolTypeOK, JobRecord
<1>3. \A q \in Queues : \A i \in DOMAIN waiting[q] :
        waiting[q][i] \in Jobs /\ waiting[q][i] # loop.job
  BY DEF PoolInv, PoolTypeOK, Fresh
<1> HIDE DEF js
<1>4. Fresh(js, waiting)
  BY <1>2, <1>3 DEF Fresh, PoolInv
<1> QED BY <1>2, <1>4 DEF js

LEMMA LoopPlaces ==
  ASSUME PoolInv
  PROVE  /\ loop.at \in Nat
         /\ loop.at # 0 => loop.at \in DOMAIN order /\ loop.job \in Jobs
                           /\ order[loop.at] \in Queues
         /\ \A q \in Queues : waiting[q] # <<>> => \E i \in DOMAIN order : order[i] = q
         /\ \A i \in DOMAIN order : order[i] \in workers /\ i < loop.at => AllPassed(waiting, i)
         /\ \A i \in DOMAIN order : i >= 1
<1>1. /\ order \in Seq(Queues) /\ Len(order) \in Nat
      /\ loop = [at |-> 0, job |-> NoJob] \/ loop \in [at : 1..Len(order), job : Jobs]
  BY DEF PoolInv, PoolTypeOK, Asleep
<1> QED BY <1>1 DEF PoolInv, ListedOnce, LeftPassed

LEMMA WakePool ==
  ASSUME PoolInv, Wake
  PROVE  PoolInv'
<1>1. wakes' \in Nat /\ UNCHANGED <<order, workers, passed>>
  BY DEF Wake, PoolInv, PoolTypeOK
<1>2. CASE loop.at = 0
  <2>1. Advance(job, waiting, 1)
    BY <1>2 DEF Wake
  <2>2. /\ job \in [Jobs -> JobRecord] /\ waiting \in [Queues -> Seq(Jobs)]
        /\ Fresh(job, waiting) /\ Once(waiting)
    BY DEF PoolInv, PoolTypeOK
  <2>3. \A i \in DOMAIN order : ~(i < 1)
    BY LoopPlaces DEF PoolInv, PoolTypeOK
  <2> QED BY <1>1, <2>1, <2>2, <2>3, LoopPlaces, AdvancePool
<1>3. CASE loop.at # 0
  <2>1. UNCHANGED <<job, waiting, loop>>
    BY <1>3 DEF Wake
  <2> QED BY <1>1, <1>3, <2>1 DEF PoolInv, PoolTypeOK, Fresh, Once, ListedOnce, LeftPassed,
                                 AllPassed
<1> QED BY <1>2, <1>3

LEMMA JobDonePool ==
  ASSUME PoolInv, JobDone
  PROVE  PoolInv'
<1> DEFINE js == [job EXCEPT ![loop.job].status = "COMPLETED"]
<1>1. /\ loop.at # 0 /\ job[loop.job].status = "PROCESSING"
      /\ Advance(js, waiting, loop.at) /\ UNCHANGED <<order, workers, passed>>
      /\ wakes' \in Nat
  BY DEF JobDone, Working, PoolInv, PoolTypeOK
<1>2. js \in [Jobs -> JobRecord] /\ Fresh(js, waiting)
  BY <1>1, EndedFresh
<1>3. waiting \in [Queues -> Seq(Jobs)] /\ Once(waiting)
  BY DEF PoolInv, PoolTypeOK
<1> HIDE DEF js
<1> QED BY <1>1, <1>2, <1>3, LoopPlaces, AdvancePool

LEMMA ReportedPool ==
  ASSUME PoolInv, Reported
  PROVE  PoolInv'
<1>1. /\ Advance(job, waiting, loop.at) /\ UNCHANGED <<order, workers, passed>>
      /\ wakes' \in Nat
  BY DEF Reported, PoolInv, PoolTypeOK
<1>2. /\ job \in [Jobs -> JobRecord] /\ waiting \in [Queues -> Seq(Jobs)]
      /\ Fresh(job, waiting) /\ Once(waiting)
  BY DEF PoolInv, PoolTypeOK
<1> QED BY <1>1, <1>2, LoopPlaces, AdvancePool

LEMMA JobExhaustedPool ==
  ASSUME PoolInv, JobExhausted
  PROVE  PoolInv'
<1>1. loop.at # 0 /\ job[loop.job].status # "QUEUED"
  BY DEF JobExhausted, Working
<1>2. job' \in [Jobs -> JobRecord] /\ Fresh(job', waiting)
  BY <1>1, EndedFresh DEF JobExhausted
<1>3. UNCHANGED <<order, waiting, workers, wakes, loop, passed>>
  BY DEF JobExhausted
<1> QED BY <1>2, <1>3 DEF PoolInv, PoolTypeOK, Fresh, Once, ListedOnce, LeftPassed, AllPassed

\* Job j may wait, and does not yet.
MayWait(js, ws, j) ==
  /\ js[j].status = "QUEUED" /\ js[j].attempts < MaxAttempts
  /\ \A p \in Queues : \A i \in DOMAIN ws[p] : ws[p][i] # j

\* It is added to the end of a queue.
LEMMA AddedFacts ==
  ASSUME NEW js \in [Jobs -> JobRecord], NEW ws \in [Queues -> Seq(Jobs)],
         Fresh(js, ws), Once(ws), NEW q \in Queues, NEW j \in Jobs, MayWait(js, ws, j)
  PROVE  LET ws1 == Longer(ws, q, j) IN
         /\ ws1 \in [Queues -> Seq(Jobs)] /\ Fresh(js, ws1) /\ Once(ws1)
         /\ \A p \in Queues : p # q => ws1[p] = ws[p]
         /\ ws1[q] # <<>>
         /\ \A i \in DOMAIN ws1[q] : (i \in DOMAIN ws[q] /\ ws1[q][i] = ws[q][i]) \/ ws1[q][i] = j
<1> DEFINE ws1 == Longer(ws, q, j)
<1>1. /\ ws[q] \in Seq(Jobs) /\ Len(ws[q]) \in Nat
      /\ Append(ws[q], j) \in Seq(Jobs) /\ Len(Append(ws[q], j)) = Len(ws[q]) + 1
      /\ Append(ws[q], j)[Len(ws[q]) + 1] = j
      /\ \A i \in 1..Len(ws[q]) : Append(ws[q], j)[i] = ws[q][i]
  BY AppendFacts
<1>2. /\ ws1 \in [Queues -> Seq(Jobs)] /\ ws1[q] = Append(ws[q], j)
      /\ \A p \in Queues : p # q => ws1[p] = ws[p]
  BY <1>1 DEF Longer
<1> HIDE DEF ws1
<1>3. ASSUME NEW p \in Queues, NEW i \in DOMAIN ws1[p]
      PROVE  \/ i \in DOMAIN ws[p] /\ ws1[p][i] = ws[p][i]
             \/ p = q /\ i = Len(ws[q]) + 1 /\ ws1[p][i] = j
  <2>1. CASE p = q
    <3>1. i \in 1..(Len(ws[q]) + 1)
      BY <1>1, <1>2, <2>1
    <3>2. CASE i \in 1..Len(ws[q])
      BY <1>1, <1>2, <2>1, <3>2
    <3>3. CASE i \notin 1..Len(ws[q])
      <4>1. i = Len(ws[q]) + 1
        BY <1>1, <3>1, <3>3
      <4> QED BY <1>1, <1>2, <2>1, <4>1
    <3> QED BY <3>2, <3>3
  <2>2. CASE p # q
    BY <1>2, <2>2
  <2> QED BY <2>1, <2>2
<1>4. Fresh(js, ws1)
  BY <1>3 DEF Fresh, MayWait
<1>5. Once(ws1)
  <2> SUFFICES ASSUME NEW p \in Queues, NEW r \in Queues, NEW i \in DOMAIN ws1[p],
                      NEW k \in DOMAIN ws1[r], ws1[p][i] = ws1[r][k]
               PROVE  p = r /\ i = k
    BY DEF Once
  <2>1. CASE ws1[p][i] = j
    <3>1. ASSUME NEW o \in Queues, NEW n \in DOMAIN ws1[o], ws1[o][n] = j
          PROVE  o = q /\ n = Len(ws[q]) + 1
      BY <1>3, <3>1 DEF MayWait
    <3>2. p = q /\ i = Len(ws[q]) + 1
      BY <2>1, <3>1
    <3>3. r = q /\ k = Len(ws[q]) + 1
      BY <2>1, <3>1
    <3> QED BY <3>2, <3>3
  <2>2. CASE ws1[p][i] # j
    BY <1>3, <2>2 DEF Once
  <2> QED BY <2>1, <2>2
<1>6. ws1[q] # <<>>
  BY <1>1, <1>2
<1> QED BY <1>2, <1>3, <1>4, <1>5, <1>6 DEF ws1

\* The loop goes on with the failed job behind the others of its queue.
LEMMA RetriedFacts ==
  ASSUME PoolInv, JobRetried
  PROVE  LET j  == loop.job
             q  == order[loop.at]
             js == [job EXCEPT ![j].status = "QUEUED"]
             ws == Longer(waiting, q, j)
         IN /\ j \in Jobs /\ q \in Queues /\ loop.at \in DOMAIN order /\ loop.at \in Nat
            /\ Advance(js, ws, loop.at) /\ UNCHANGED <<order, workers, passed>>
            /\ js \in [Jobs -> JobRecord] /\ ws \in [Queues -> Seq(Jobs)]
            /\ Fresh(js, ws) /\ Once(ws)
            /\ \A p \in Queues : p # q => ws[p] = waiting[p]
<1> DEFINE j  == loop.job
           q  == order[loop.at]
           js == [job EXCEPT ![j].status = "QUEUED"]
           ws == Longer(waiting, q, j)
<1>1. /\ loop.at # 0 /\ job[j].status = "PROCESSING" /\ job[j].attempts < MaxAttempts
      /\ Advance(js, ws, loop.at) /\ UNCHANGED <<order, workers, passed>>
  BY DEF JobRetried, Working, Longer
<1>2. /\ j \in Jobs /\ q \in Queues /\ loop.at \in DOMAIN order /\ loop.at \in Nat
  BY <1>1, LoopPlaces
<1>3. /\ js \in [Jobs -> JobRecord] /\ js[j].status = "QUEUED" /\ js[j].attempts < MaxAttempts
      /\ \A i \in Jobs : i # j => js[i] = job[i]
  BY <1>1, <1>2 DEF PoolInv, PoolTypeOK, JobRecord
<1>4. /\ waiting \in [Queues -> Seq(Jobs)] /\ Once(waiting)
      /\ \A p \in Queues : \A i \in DOMAIN waiting[p] :
           /\ waiting[p][i] # j /\ waiting[p][i] \in Jobs
           /\ job[waiting[p][i]].status = "QUEUED"
           /\ job[waiting[p][i]].attempts < MaxAttempts
  BY <1>1 DEF PoolInv, PoolTypeOK, Fresh
<1> HIDE DEF j, q, js
<1>5. MayWait(js, waiting, j) /\ Fresh(js, waiting)
  BY <1>3, <1>4 DEF MayWait, Fresh
<1>6. /\ ws \in [Queues -> Seq(Jobs)] /\ Fresh(js, ws) /\ Once(ws)
      /\ \A p \in Queues : p # q => ws[p] = waiting[p]
  BY <1>2, <1>3, <1>4, <1>5, AddedFacts
<1> QED BY <1>1, <1>2, <1>3, <1>6 DEF j, q, js

LEMMA JobRetriedPool ==
  ASSUME PoolInv, JobRetried
  PROVE  PoolInv'
<1> DEFINE q  == order[loop.at]
           js == [job EXCEPT ![loop.job].status = "QUEUED"]
           ws == Longer(waiting, q, loop.job)
<1>1. /\ q \in Queues /\ loop.at \in DOMAIN order /\ loop.at \in Nat
      /\ Advance(js, ws, loop.at) /\ UNCHANGED <<order, workers, passed>>
      /\ js \in [Jobs -> JobRecord] /\ ws \in [Queues -> Seq(Jobs)]
      /\ Fresh(js, ws) /\ Once(ws)
      /\ \A p \in Queues : p # q => ws[p] = waiting[p]
  BY RetriedFacts
<1>2. wakes' \in Nat
  BY DEF JobRetried, PoolInv, PoolTypeOK
<1> HIDE DEF js, ws
<1>3. \A p \in Queues : ws[p] # <<>> => \E i \in DOMAIN order : order[i] = p
  BY <1>1, LoopPlaces
<1>4. ASSUME NEW i \in DOMAIN order, order[i] \in workers, i < loop.at
      PROVE  AllPassed(ws, i)
  <2>1. AllPassed(waiting, i)
    BY <1>4, LoopPlaces
  <2>2. order[i] # q /\ order[i] \in Queues
    BY <1>1, <1>4 DEF PoolInv, PoolTypeOK, ListedOnce
  <2> QED BY <1>1, <2>1, <2>2 DEF AllPassed
<1> QED BY <1>1, <1>2, <1>3, <1>4, AdvancePool

LEMMA ListedFacts ==
  ASSUME PoolInv, NEW q \in Queues
  PROVE  /\ Listed(q) \in Seq(Queues)
         /\ \A i \in DOMAIN order : i \in DOMAIN Listed(q) /\ Listed(q)[i] = order[i]
         /\ \A i \in DOMAIN Listed(q) : i \in DOMAIN order \/ (i > Len(order) /\ Listed(q)[i] = q)
         /\ \A i, k \in DOMAIN Listed(q) : Listed(q)[i] = Listed(q)[k] => i = k
         /\ \E k \in DOMAIN Listed(q) : Listed(q)[k] = q
         /\ Len(order) \in Nat /\ Len(order) <= Len(Listed(q))
<1>1. order \in Seq(Queues) /\ Len(order) \in Nat
      /\ \A i, k \in DOMAIN order : order[i] = order[k] => i = k
  BY DEF PoolInv, PoolTypeOK, ListedOnce
<1>2. CASE q \in ToSet(order)
  BY <1>1, <1>2 DEF Listed, ToSet
<1>3. CASE q \notin ToSet(order)
  <2> DEFINE s == Append(order, q)
  <2>1. /\ s \in Seq(Queues) /\ Len(s) = Len(order) + 1 /\ s[Len(order) + 1] = q
        /\ \A i \in 1..Len(order) : s[i] = order[i]
    BY <1>1, AppendFacts
  <2>2. Listed(q) = s
    BY <1>3 DEF Listed
  <2>3. \A i \in DOMAIN order : order[i] # q
    BY <1>3 DEF ToSet
  <2> HIDE DEF s
  <2>4. \A i \in DOMAIN s : i \in DOMAIN order \/ (i = Len(order) + 1 /\ s[i] = q)
    BY <1>1, <2>1
  <2>5. \A i \in DOMAIN order : i \in DOMAIN s /\ s[i] = order[i]
    BY <1>1, <2>1
  <2>6. \A i, k \in DOMAIN s : s[i] = s[k] => i = k
    BY <1>1, <2>3, <2>4, <2>5
  <2>7. Len(order) + 1 \in DOMAIN s
    BY <1>1, <2>1
  <2> QED BY <1>1, <2>1, <2>2, <2>4, <2>5, <2>6, <2>7
<1> QED BY <1>2, <1>3

LEMMA RegisterPool ==
  ASSUME PoolInv, NEW q \in Queues, Register(q)
  PROVE  PoolInv'
<1> DEFINE lq == Listed(q)
<1>1. /\ order' = lq /\ workers' = workers \cup {q}
      /\ passed' = passed \cup ToSet(waiting[q])
      /\ UNCHANGED <<waiting, job, wakes, loop>>
  BY DEF Register
<1>2. /\ lq \in Seq(Queues)
      /\ \A i \in DOMAIN order : i \in DOMAIN lq /\ lq[i] = order[i]
      /\ \A i \in DOMAIN lq : i \in DOMAIN order \/ (i > Len(order) /\ lq[i] = q)
      /\ \A i, k \in DOMAIN lq : lq[i] = lq[k] => i = k
      /\ \E k \in DOMAIN lq : lq[k] = q
      /\ Len(order) \in Nat /\ Len(order) <= Len(lq) /\ Len(lq) \in Nat
  BY ListedFacts
<1> HIDE DEF lq
<1>3. PoolTypeOK'
  <2>1. passed' \subseteq Jobs
    BY <1>1 DEF PoolInv, PoolTypeOK, ToSet
  <2>2. loop = Asleep \/ loop \in [at : 1..Len(lq), job : Jobs]
    BY <1>2 DEF PoolInv, PoolTypeOK
  <2> QED BY <1>1, <1>2, <2>1, <2>2 DEF PoolInv, PoolTypeOK
<1>4. Fresh(job', waiting') /\ Once(waiting')
  BY <1>1 DEF PoolInv
<1>5. ListedOnce'
  BY <1>1, <1>2 DEF PoolInv, ListedOnce
<1>6. LeftPassed'
  <2> SUFFICES ASSUME NEW k \in DOMAIN lq, lq[k] \in workers \cup {q},
                      k < loop.at \/ (loop.at = 0 /\ wakes = 0),
                      NEW i \in DOMAIN waiting[lq[k]]
               PROVE  waiting[lq[k]][i] \in passed'
    BY <1>1 DEF LeftPassed, AllPassed
  <2>1. CASE lq[k] = q
    BY <1>1, <2>1 DEF ToSet
  <2>2. CASE lq[k] # q
    <3>1. k \in DOMAIN order /\ lq[k] = order[k] /\ order[k] \in workers
      BY <1>2, <2>2
    <3> QED BY <1>1, <3>1 DEF PoolInv, LeftPassed, AllPassed
  <2> QED BY <2>1, <2>2
<1> QED BY <1>3, <1>4, <1>5, <1>6 DEF PoolInv, Fresh, Once

LEMMA EnqueuePool ==
  ASSUME PoolInv, NEW j \in Jobs, NEW q \in Queues, Enqueue(j, q)
  PROVE  PoolInv'
<1> DEFINE lq == Listed(q)
<1>1. /\ job[j].status = "NEW" /\ job' = [job EXCEPT ![j].status = "QUEUED"]
      /\ order' = lq /\ waiting' = Longer(waiting, q, j)
      /\ wakes' = wakes + 1 /\ UNCHANGED <<workers, loop>>
      /\ passed' = IF q \in ToSet(order) /\ PlaceOf(q) < loop.at
                   THEN passed \cup {j} ELSE passed
  BY DEF Enqueue, Longer
<1>2. /\ lq \in Seq(Queues)
      /\ \A i \in DOMAIN order : i \in DOMAIN lq /\ lq[i] = order[i]
      /\ \A i \in DOMAIN lq : i \in DOMAIN order \/ (i > Len(order) /\ lq[i] = q)
      /\ \A i, k \in DOMAIN lq : lq[i] = lq[k] => i = k
      /\ \E k \in DOMAIN lq : lq[k] = q
      /\ Len(order) \in Nat /\ Len(order) <= Len(lq) /\ Len(lq) \in Nat
  BY ListedFacts
<1> HIDE DEF lq
<1>3. /\ job' \in [Jobs -> JobRecord]
      /\ job'[j].status = "QUEUED" /\ job'[j].attempts < MaxAttempts
      /\ \A i \in Jobs : i # j => job'[i] = job[i]
  BY <1>1 DEF PoolInv, PoolTypeOK, JobRecord
<1>4. /\ waiting \in [Queues -> Seq(Jobs)] /\ Once(waiting)
      /\ \A p \in Queues : \A i \in DOMAIN waiting[p] :
           /\ waiting[p][i] # j /\ waiting[p][i] \in Jobs
           /\ job[waiting[p][i]].status = "QUEUED"
           /\ job[waiting[p][i]].attempts < MaxAttempts
  BY <1>1 DEF PoolInv, PoolTypeOK, Fresh
<1>5. MayWait(job', waiting, j) /\ Fresh(job', waiting)
  BY <1>3, <1>4 DEF MayWait, Fresh
<1>6. /\ waiting' \in [Queues -> Seq(Jobs)] /\ Fresh(job', waiting') /\ Once(waiting')
      /\ \A p \in Queues : p # q => waiting'[p] = waiting[p]
      /\ \A i \in DOMAIN waiting'[q] :
           (i \in DOMAIN waiting[q] /\ waiting'[q][i] = waiting[q][i]) \/ waiting'[q][i] = j
  <2> DEFINE js == job'
  <2>1. js \in [Jobs -> JobRecord] /\ MayWait(js, waiting, j) /\ Fresh(js, waiting)
    BY <1>3, <1>5
  <2> HIDE DEF js
  <2>3. LET ws1 == Longer(waiting, q, j) IN
         /\ ws1 \in [Queues -> Seq(Jobs)] /\ Fresh(js, ws1) /\ Once(ws1)
         /\ \A p \in Queues : p # q => ws1[p] = waiting[p]
         /\ \A i \in DOMAIN ws1[q] :
              (i \in DOMAIN waiting[q] /\ ws1[q][i] = waiting[q][i]) \/ ws1[q][i] = j
    BY <1>4, <2>1, AddedFacts
  <2> QED BY <1>1, <2>3 DEF js
<1>7. PoolTypeOK'
  <2>1. passed' \subseteq Jobs /\ wakes' \in Nat
    BY <1>1 DEF PoolInv, PoolTypeOK
  <2>2. loop = Asleep \/ loop \in [at : 1..Len(lq), job : Jobs]
    BY <1>2 DEF PoolInv, PoolTypeOK
  <2> QED BY <1>1, <1>2, <1>3, <1>6, <2>1, <2>2 DEF PoolInv, PoolTypeOK
<1>8. ListedOnce'
  <2>1. ASSUME NEW p \in Queues, waiting'[p] # <<>> \/ p \in workers
        PROVE  \E k \in DOMAIN lq : lq[k] = p
    <3>1. CASE p = q
      BY <1>2, <3>1
    <3>2. CASE p # q
      <4>1. PICK k \in DOMAIN order : order[k] = p
        BY <1>6, <2>1, <3>2 DEF PoolInv, ListedOnce
      <4> QED BY <1>2, <4>1
    <3> QED BY <3>1, <3>2
  <2> QED BY <1>1, <1>2, <2>1 DEF ListedOnce
<1>9. LeftPassed'
  <2>1. wakes' # 0
    BY <1>1 DEF PoolInv, PoolTypeOK
  <2> SUFFICES ASSUME NEW k \in DOMAIN lq, lq[k] \in workers, k < loop.at,
                      NEW i \in DOMAIN waiting'[lq[k]]
               PROVE  waiting'[lq[k]][i] \in passed'
    BY <1>1, <2>1 DEF LeftPassed, AllPassed
  <2>2. k \in DOMAIN order /\ lq[k] = order[k] /\ order[k] \in Queues
    BY <1>2, LoopPlaces DEF PoolInv, PoolTypeOK
  <2>3. AllPassed(waiting, k) /\ passed \subseteq passed'
    BY <1>1, <1>2, <2>2, LoopPlaces
  <2>4. CASE lq[k] = q
    <3>1. PlaceOf(q) = k /\ q \in ToSet(order)
      BY <2>2, <2>4 DEF PlaceOf, PoolInv, ListedOnce, ToSet
    <3>2. j \in passed'
      BY <1>1, <3>1
    <3> QED BY <1>1, <1>6, <2>2, <2>3, <2>4, <3>2 DEF AllPassed
  <2>5. CASE lq[k] # q
    BY <1>1, <1>6, <2>2, <2>3, <2>5 DEF AllPassed
  <2> QED BY <2>4, <2>5
<1> QED BY <1>6, <1>7, <1>8, <1>9 DEF PoolInv, Fresh, Once

LEMMA PoolInit == Init => PoolInv
BY DeliveryAssumption
DEF Init, PoolInv, PoolTypeOK, JobRecord, Fresh, Once, ListedOnce, LeftPassed, AllPassed,
    Asleep

LEMMA PoolStep == PoolInv /\ [Next]_vars => PoolInv'
<1>1. ASSUME PoolInv, UNCHANGED pool PROVE PoolInv'
  BY <1>1 DEF pool, PoolInv, PoolTypeOK, Fresh, Once, ListedOnce, LeftPassed, AllPassed
<1>2. ASSUME Bus PROVE UNCHANGED pool
  BY <1>2 DEF Bus, pool, Publish, Handled, HandlerFailed, Redrive, RedriveHandled, Redriven,
              RedriveFailed
<1> QED
  BY <1>1, <1>2, RegisterPool, EnqueuePool, WakePool, JobDonePool, JobRetriedPool,
     JobExhaustedPool, ReportedPool DEF Next, Pool, vars

\* The invariant of the queues holds in every state (registerWorker, enqueue,
\* processNextJobs).
THEOREM PoolInvariance == Spec => []PoolInv
BY PoolInit, PoolStep, PTL DEF Spec

\* Every variable keeps its type: no job has more attempts than the limit, the queue
\* of dead letters is never longer than its limit.
THEOREM TypeCorrectness == Spec => []TypeOK
<1>1. BusInv /\ PoolInv => TypeOK
  BY DEF BusInv, BusTypeOK, PoolInv, PoolTypeOK, PointsAtLetter, JobRecord, TypeOK
<1> QED BY BusInvariance, PoolInvariance, <1>1, PTL

\* When nobody is awake, every job that is ready was queued behind the running loop or
\* before its queue had a handler (enqueue, processNextJobs).
THEOREM NobodyIsStranded == Spec => []NoneStranded
<1>1. PoolInv => NoneStranded
  <2> SUFFICES ASSUME PoolInv, loop.at = 0, wakes = 0, NEW j \in Jobs,
                      NEW q \in workers, j \in ToSet(waiting[q])
               PROVE  j \in passed
    BY DEF NoneStranded, Manned
  <2>1. q \in Queues
    BY DEF PoolInv, PoolTypeOK
  <2>2. PICK k \in DOMAIN order : order[k] = q
    BY <2>1 DEF PoolInv, ListedOnce
  <2> QED BY <2>2 DEF PoolInv, LeftPassed, AllPassed, ToSet
<1> QED BY PoolInvariance, <1>1, PTL

-------------------------------------------------------------------------------
(***************************************************************************)
(* The queues implement JobPool.                                           *)
(***************************************************************************)

\* A failure is published when a job has failed for good, and only then.
FailedIsPublished == \A j \in Jobs : pub[j] > 0 <=> job[j].status = "FAILED"

WorkInv == BusTypeOK /\ PoolInv /\ FailedIsPublished

\* The same jobs have failed.
SameFailed(js, js2) == \A j \in Jobs : js2[j].status = "FAILED" <=> js[j].status = "FAILED"

\* The loop taking the next job is the worker going on.
LEMMA AdvanceGoesOn ==
  ASSUME PoolInv, UNCHANGED pub, NEW js \in [Jobs -> JobRecord],
         NEW ws \in [Queues -> Seq(Jobs)], NEW k \in Nat, Fresh(js, ws), Advance(js, ws, k)
  PROVE  Work!GoOn(js) /\ SameFailed(js, job')
<1>0. UNCHANGED <<ReportedJobs, HeardJobs>>
  BY DEF ReportedJobs, HeardJobs
<1>1. CASE loop' = Asleep /\ job' = js
  BY <1>0, <1>1 DEF Work!GoOn, Asleep, SameFailed
<1>2. ASSUME NEW at \in DOMAIN order, ws[order[at]] # <<>>,
             loop' = [at |-> at, job |-> Head(ws[order[at]])],
             job' = Taken(js, Head(ws[order[at]]))
      PROVE  Work!GoOn(js) /\ SameFailed(js, job')
  <2> DEFINE j == Head(ws[order[at]])
  <2>1. order[at] \in Queues /\ ws[order[at]] \in Seq(Jobs)
    BY DEF PoolInv, PoolTypeOK
  <2>2. 1 \in DOMAIN ws[order[at]] /\ j = ws[order[at]][1] /\ j \in Jobs
    BY <1>2, <2>1
  <2>3. js[j].status = "QUEUED" /\ js[j].attempts < MaxAttempts
    BY <2>1, <2>2 DEF Fresh
  <2>4. loop'.job = j
    BY <1>2
  <2>5. job' = [js EXCEPT ![j] = [status |-> "PROCESSING", attempts |-> @.attempts + 1]]
    BY <1>2 DEF Taken
  <2> HIDE DEF j
  <2>6. SameFailed(js, job')
    BY <2>2, <2>3, <2>5 DEF SameFailed
  <2> QED BY <1>0, <2>2, <2>3, <2>4, <2>5, <2>6 DEF Work!GoOn
<1> QED BY <1>1, <1>2 DEF Advance, Taken

\* The steps of the loop are steps of the worker, and no job fails unreported.
LEMMA WakeWorks ==
  ASSUME WorkInv, Wake
  PROVE  /\ Work!Start \/ UNCHANGED <<job, loop, pub>>
         /\ FailedIsPublished'
<1>1. /\ PoolInv /\ pub' = pub /\ job \in [Jobs -> JobRecord]
      /\ waiting \in [Queues -> Seq(Jobs)] /\ Fresh(job, waiting)
  BY DEF WorkInv, PoolInv, PoolTypeOK, Wake, bus
<1>2. CASE loop.at = 0
  <2>1. Work!GoOn(job) /\ SameFailed(job, job')
    BY <1>1, <1>2, AdvanceGoesOn DEF Wake
  <2>2. loop.job = NoJob
    BY <1>2 DEF WorkInv, PoolInv, PoolTypeOK, Asleep
  <2> QED BY <1>1, <2>1, <2>2 DEF Work!Start, WorkInv, FailedIsPublished, SameFailed
<1>3. CASE loop.at # 0
  BY <1>1, <1>3 DEF Wake, WorkInv, FailedIsPublished
<1> QED BY <1>2, <1>3

\* While a handler runs, the worker is at its job.
LEMMA WorkingFacts ==
  ASSUME WorkInv, Working
  PROVE  /\ Work!Working /\ loop.job \in Jobs /\ loop.at \in Nat
         /\ job[loop.job].status = "PROCESSING"
<1>1. loop.job \in Jobs /\ loop.at \in Nat
  BY LoopPlaces DEF WorkInv, Working
<1> QED BY <1>1, DeliveryAssumption DEF Working, Work!Working

LEMMA JobDoneWorks ==
  ASSUME WorkInv, JobDone
  PROVE  Work!Done /\ FailedIsPublished'
<1> DEFINE js == [job EXCEPT ![loop.job].status = "COMPLETED"]
<1>1. /\ PoolInv /\ Work!Working /\ loop.job \in Jobs /\ loop.at \in Nat /\ loop.at # 0
      /\ job[loop.job].status = "PROCESSING" /\ job \in [Jobs -> JobRecord]
      /\ Advance(js, waiting, loop.at) /\ UNCHANGED pub
  BY WorkingFacts DEF JobDone, Working, WorkInv, PoolInv, PoolTypeOK, bus
<1>2. /\ js \in [Jobs -> JobRecord] /\ waiting \in [Queues -> Seq(Jobs)]
      /\ Fresh(js, waiting)
  BY <1>1, EndedFresh DEF PoolInv, PoolTypeOK
<1>3. SameFailed(job, js)
  BY <1>1 DEF SameFailed, JobRecord
<1> HIDE DEF js
<1>4. Work!GoOn(js) /\ SameFailed(js, job')
  BY <1>1, <1>2, AdvanceGoesOn
<1> QED BY <1>1, <1>3, <1>4 DEF Work!Done, js, WorkInv, FailedIsPublished, SameFailed

LEMMA JobRetriedWorks ==
  ASSUME WorkInv, JobRetried
  PROVE  Work!Retry /\ FailedIsPublished'
<1> DEFINE js == [job EXCEPT ![loop.job].status = "QUEUED"]
           ws == Longer(waiting, order[loop.at], loop.job)
<1>1. /\ PoolInv /\ Work!Working /\ loop.job \in Jobs /\ loop.at \in Nat
      /\ job[loop.job].status = "PROCESSING" /\ job[loop.job].attempts < MaxAttempts
      /\ job \in [Jobs -> JobRecord] /\ UNCHANGED pub
  BY WorkingFacts DEF JobRetried, WorkInv, PoolInv, PoolTypeOK, bus
<1>2. /\ js \in [Jobs -> JobRecord] /\ ws \in [Queues -> Seq(Jobs)]
      /\ Fresh(js, ws) /\ Advance(js, ws, loop.at)
  BY <1>1, RetriedFacts
<1>3. SameFailed(job, js)
  BY <1>1 DEF SameFailed, JobRecord
<1> HIDE DEF js, ws
<1>4. Work!GoOn(js) /\ SameFailed(js, job')
  BY <1>1, <1>2, AdvanceGoesOn
<1> QED BY <1>1, <1>3, <1>4 DEF Work!Retry, js, WorkInv, FailedIsPublished, SameFailed

LEMMA JobExhaustedWorks ==
  ASSUME WorkInv, JobExhausted
  PROVE  Work!Exhausted /\ FailedIsPublished'
<1> DEFINE j == loop.job
<1>1. /\ Work!Working /\ j \in Jobs /\ job[j].status = "PROCESSING"
      /\ job[j].attempts >= MaxAttempts /\ job \in [Jobs -> JobRecord]
      /\ pub \in [Events -> 0..(Subscribers + 1)] /\ j \in Events
      /\ job' = [job EXCEPT ![j].status = "FAILED"] /\ pub' = [pub EXCEPT ![j] = 1]
      /\ UNCHANGED loop
  BY WorkingFacts DEF JobExhausted, WorkInv, BusTypeOK, PoolInv, PoolTypeOK, Events
<1>2. job[j].attempts = MaxAttempts
  BY <1>1, DeliveryAssumption DEF JobRecord
<1>3. pub[j] = 0
  BY <1>1 DEF WorkInv, FailedIsPublished
<1>4. /\ pub'[j] = 1 /\ job'[j].status = "FAILED"
      /\ \A i \in Jobs \ {j} : pub'[i] = pub[i] /\ job'[i] = job[i]
  BY <1>1 DEF Events, JobRecord
<1>5. UNCHANGED j
  BY <1>1
<1>6. ReportedJobs' = ReportedJobs \cup {j} /\ HeardJobs' = HeardJobs /\ j \notin ReportedJobs
  BY <1>1, <1>3, <1>4, DeliveryAssumption DEF ReportedJobs, HeardJobs
<1>7. FailedIsPublished'
  BY <1>1, <1>4 DEF WorkInv, FailedIsPublished
<1> QED BY <1>1, <1>2, <1>5, <1>6, <1>7 DEF Work!Exhausted

LEMMA ReportedWorks ==
  ASSUME WorkInv, Reported
  PROVE  Work!GoOnAfterReport /\ FailedIsPublished'
<1>1. /\ PoolInv /\ loop.at # 0 /\ loop.at \in Nat /\ loop.job \in Jobs
      /\ Advance(job, waiting, loop.at) /\ UNCHANGED pub
      /\ job \in [Jobs -> JobRecord] /\ waiting \in [Queues -> Seq(Jobs)] /\ Fresh(job, waiting)
  BY LoopPlaces DEF Reported, WorkInv, PoolInv, PoolTypeOK, bus
<1>2. pub[loop.job] \in 0..(Subscribers + 1) /\ pub[loop.job] > 0
  BY <1>1 DEF Reported, WorkInv, BusTypeOK, FailedIsPublished, Events
<1>3. loop.job \in HeardJobs
  BY <1>1, <1>2, DeliveryAssumption DEF Reported, Publishing, HeardJobs
<1>4. Work!GoOn(job) /\ SameFailed(job, job')
  BY <1>1, AdvanceGoesOn
<1> QED BY <1>1, <1>3, <1>4 DEF Work!GoOnAfterReport, WorkInv, FailedIsPublished, SameFailed

\* Publishing another event, or telling a subscriber.
LEMMA PublishWorks ==
  ASSUME WorkInv, NEW e \in Events, Publish(e) \/ Handled(e) \/ HandlerFailed(e)
  PROVE  /\ (Work!Hear(e) /\ e \in Jobs) \/ UNCHANGED <<job, loop, ReportedJobs, HeardJobs>>
         /\ FailedIsPublished'
<1>1. pub \in [Events -> 0..(Subscribers + 1)] /\ UNCHANGED <<job, loop>>
  BY DEF WorkInv, BusTypeOK, Publish, Handled, HandlerFailed, pool
<1>2. CASE e \in Jobs
  <2>1. pub[e] \in 1..Subscribers /\ pub' = [pub EXCEPT ![e] = @ + 1]
    BY <1>2, DeliveryAssumption DEF Publish, Handled, HandlerFailed, Publishing
  <2>2. /\ pub[e] > 0 /\ pub'[e] = pub[e] + 1
        /\ \A j \in Jobs \ {e} : pub'[j] = pub[j]
    BY <1>1, <2>1 DEF Events
  <2>3. ReportedJobs' = ReportedJobs /\ e \in ReportedJobs
    BY <1>2, <2>1, <2>2 DEF ReportedJobs
  <2>4. HeardJobs' = HeardJobs \/ HeardJobs' = HeardJobs \cup {e}
    BY <1>2, <2>1, <2>2, DeliveryAssumption DEF HeardJobs
  <2>5. FailedIsPublished'
    BY <1>1, <1>2, <2>1, <2>2 DEF WorkInv, FailedIsPublished
  <2> QED BY <1>1, <1>2, <2>3, <2>4, <2>5 DEF Work!Hear
<1>3. CASE e \notin Jobs
  <2>1. \A j \in Jobs : pub'[j] = pub[j]
    BY <1>1, <1>3 DEF Publish, Handled, HandlerFailed, Events
  <2> QED BY <1>1, <2>1 DEF ReportedJobs, HeardJobs, WorkInv, FailedIsPublished
<1> QED BY <1>2, <1>3

\* Every step of the bus and the queues is a step of the worker, or none.
LEMMA StepWorks ==
  ASSUME WorkInv, [Next]_vars
  PROVE  [Work!Next]_(Work!vars) /\ FailedIsPublished'
<1>1. ASSUME UNCHANGED <<job, loop, pub>>
      PROVE  UNCHANGED Work!vars /\ FailedIsPublished'
  BY <1>1 DEF Work!vars, ReportedJobs, HeardJobs, WorkInv, FailedIsPublished
<1>2. CASE Pool
  <2>1. ASSUME NEW q \in Queues, Register(q) PROVE UNCHANGED <<job, loop, pub>>
    BY <2>1 DEF Register, bus
  <2>2. ASSUME NEW q \in Queues, NEW j \in Jobs, Enqueue(j, q)
        PROVE  Work!Enqueue(j) /\ FailedIsPublished'
    <3>1. /\ job[j].status = "NEW" /\ job' = [job EXCEPT ![j].status = "QUEUED"]
          /\ UNCHANGED <<loop, pub>> /\ job \in [Jobs -> JobRecord]
      BY <2>2 DEF Enqueue, bus, WorkInv, PoolInv, PoolTypeOK
    <3>2. SameFailed(job, job')
      BY <3>1 DEF SameFailed, JobRecord
    <3> QED BY <3>1, <3>2 DEF Work!Enqueue, ReportedJobs, HeardJobs, WorkInv, FailedIsPublished,
                              SameFailed
  <2> QED
    BY <1>1, <1>2, <2>1, <2>2, WakeWorks, JobDoneWorks, JobRetriedWorks, JobExhaustedWorks,
       ReportedWorks DEF Pool, Work!Next
<1>3. ASSUME NEW e \in Events, Publish(e) \/ Handled(e) \/ HandlerFailed(e)
      PROVE  [Work!Next]_(Work!vars) /\ FailedIsPublished'
  BY <1>3, PublishWorks DEF Work!Next, Work!vars
<1>4. ASSUME NEW r \in Redrivers, NEW i,
             Redrive(r, i) \/ RedriveHandled(r) \/ Redriven(r) \/ RedriveFailed(r)
      PROVE  UNCHANGED <<job, loop, pub>>
  BY <1>4 DEF Redrive, RedriveHandled, Redriven, RedriveFailed, pool
<1>5. CASE UNCHANGED vars
  BY <1>1, <1>5 DEF vars, bus, pool
<1> QED BY <1>1, <1>2, <1>3, <1>4, <1>5 DEF Next, Bus

\* The queues keep the promise of JobPool, whatever the jobs, queues, subscribers and
\* number of attempts: one job at a time, none after it ended, none more often than
\* MaxAttempts, and a failure is published once and heard before the next job starts.
THEOREM JobsRunOneAtATime == Spec => OneJobAtATime
<1>1. Init => FailedIsPublished /\ Work!Init
  BY DeliveryAssumption DEF Init, FailedIsPublished, Events, Work!Init, Asleep, ReportedJobs,
                            HeardJobs
<1>2. BusInv => BusTypeOK
  BY DEF BusInv
<1>3. BusTypeOK /\ PoolInv /\ FailedIsPublished /\ [Next]_vars
        => [Work!Next]_(Work!vars) /\ FailedIsPublished'
  BY StepWorks DEF WorkInv
<1> QED
  BY <1>1, <1>2, <1>3, BusInvariance, PoolInvariance, PTL DEF OneJobAtATime, Work!Spec, Spec

\* What follows from the promise alone: the worker has left no failed job of which some
\* subscriber has not heard.
HeardBeforeNext == \A j \in Jobs : job[j].status = "FAILED" /\ loop.job # j => j \in HeardJobs

LEMMA StepHeard ==
  ASSUME WorkInv, HeardBeforeNext, [Work!Next]_(Work!vars)
  PROVE  HeardBeforeNext'
<1>1. job \in [Jobs -> JobRecord]
  BY DEF WorkInv, PoolInv, PoolTypeOK
<1>2. CASE UNCHANGED Work!vars
  BY <1>2 DEF Work!vars, HeardBeforeNext
<1>3. ASSUME NEW js \in [Jobs -> JobRecord], SameFailed(job, js), Work!GoOn(js),
             loop.job \in HeardJobs \/ loop.job = NoJob \/ job[loop.job].status # "FAILED"
      PROVE  HeardBeforeNext'
  <2>1. HeardJobs' = HeardJobs /\ \A j \in Jobs : job[j].status = "FAILED" => j \in HeardJobs
    BY <1>3, DeliveryAssumption DEF Work!GoOn, HeardBeforeNext
  <2>2. SameFailed(js, job')
    BY <1>3 DEF Work!GoOn, SameFailed, JobRecord
  <2> QED BY <1>3, <2>1, <2>2 DEF HeardBeforeNext, SameFailed
<1>4. ASSUME NEW st \in {"COMPLETED", "QUEUED"}, Work!Working,
             Work!GoOn([job EXCEPT ![loop.job].status = st]),
             job[loop.job].attempts < MaxAttempts \/ st = "COMPLETED"
      PROVE  HeardBeforeNext'
  <2> DEFINE js == [job EXCEPT ![loop.job].status = st]
  <2>1. js \in [Jobs -> JobRecord] /\ SameFailed(job, js) /\ job[loop.job].status # "FAILED"
    BY <1>1, <1>4 DEF JobRecord, SameFailed, Work!Working
  <2>2. Work!GoOn(js)
    BY <1>4
  <2> HIDE DEF js
  <2> QED BY <1>3, <2>1, <2>2
<1>5. CASE Work!Start \/ Work!GoOnAfterReport
  BY <1>1, <1>3, <1>5 DEF Work!Start, Work!GoOnAfterReport, SameFailed
<1>6. CASE Work!Done \/ Work!Retry
  BY <1>4, <1>6 DEF Work!Done, Work!Retry
<1>7. CASE Work!Exhausted
  BY <1>1, <1>7 DEF Work!Exhausted, HeardBeforeNext, JobRecord
<1>8. ASSUME NEW j \in Jobs, Work!Enqueue(j) \/ Work!Hear(j) PROVE HeardBeforeNext'
  BY <1>1, <1>8 DEF Work!Enqueue, Work!Hear, HeardBeforeNext, JobRecord
<1> QED BY <1>2, <1>5, <1>6, <1>7, <1>8 DEF Work!Next

\* Every subscriber has handled the failure of a job that the loop has left, or there
\* is a dead letter of it, unless that was lost as letters are.
THEOREM ExhaustedAreOnRecord == Spec => []ExhaustedIsOnRecord
<1>1. Init => FailedIsPublished /\ HeardBeforeNext
  BY DeliveryAssumption DEF Init, FailedIsPublished, Events, HeardBeforeNext
<1>2. BusInv => BusTypeOK /\ FailureIsOnRecord
  BY DEF BusInv
<1>3. /\ BusTypeOK /\ PoolInv /\ FailedIsPublished /\ HeardBeforeNext /\ [Next]_vars
         => FailedIsPublished' /\ HeardBeforeNext'
  BY StepWorks, StepHeard DEF WorkInv
<1>4. BusTypeOK /\ HeardBeforeNext /\ FailureIsOnRecord => ExhaustedIsOnRecord
  <2> SUFFICES ASSUME HeardBeforeNext, FailureIsOnRecord, NEW j \in Jobs,
                      NEW h \in 1..Subscribers, job[j].status = "FAILED", loop.job # j,
                      BusTypeOK
               PROVE  <<j, h>> \in served \cup ToSet(dlq) \cup lost
    BY DEF ExhaustedIsOnRecord
  <2> QED BY DeliveryAssumption DEF HeardBeforeNext, HeardJobs, FailureIsOnRecord, Events, BusTypeOK
<1> QED BY <1>1, <1>2, <1>3, <1>4, BusInvariance, PoolInvariance, PTL DEF Spec
============================================================================
