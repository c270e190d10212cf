---------------------------- MODULE PubSub_proofs ----------------------------
(***************************************************************************)
(* Proofs about PubSub for any set of callers, any set of pushes and any   *)
(* bound on the pushes sent.                                               *)
(***************************************************************************)
EXTENDS PubSub, SequenceTheorems, TLAPS

(* Taking an element out of a sequence leaves a sequence of the others. *)
LEMMA RemoveAtProperties ==
  ASSUME NEW S, NEW s \in Seq(S), NEW i \in 1..Len(s)
  PROVE  /\ RemoveAt(s, i) \in Seq(S)
         /\ Len(RemoveAt(s, i)) = Len(s) - 1
         /\ \A j \in 1..Len(s) - 1 :
              RemoveAt(s, i)[j] = IF j < i THEN s[j] ELSE s[j + 1]
<1> DEFINE a == SubSeq(s, 1, i - 1)
           b == SubSeq(s, i + 1, Len(s))
<1>1. Len(s) \in Nat /\ i \in Int /\ \A k \in 1..Len(s) : s[k] \in S
  BY LenProperties, ElementOfSeq
<1>2. /\ a \in Seq(S) /\ Len(a) = i - 1
      /\ \A j \in 1..i - 1 : a[j] = s[j]
  <2>1. \A k \in 1..i - 1 : s[k] \in S
    BY <1>1
  <2>2. /\ a \in Seq(S) /\ Len(a) = IF 1 <= i - 1 THEN (i - 1) - 1 + 1 ELSE 0
        /\ \A j \in 1..(i - 1) - 1 + 1 : a[j] = s[1 + j - 1]
    BY <2>1, <1>1, SubSeqProperties
  <2> QED BY <2>2, <1>1
<1>3. /\ b \in Seq(S) /\ Len(b) = Len(s) - i
      /\ \A j \in 1..Len(s) - i : b[j] = s[i + j]
  <2>1. \A k \in i + 1..Len(s) : s[k] \in S
    BY <1>1
  <2>2. /\ b \in Seq(S)
        /\ Len(b) = IF i + 1 <= Len(s) THEN Len(s) - (i + 1) + 1 ELSE 0
        /\ \A j \in 1..Len(s) - (i + 1) + 1 : b[j] = s[(i + 1) + j - 1]
    BY <2>1, <1>1, SubSeqProperties
  <2> QED BY <2>2, <1>1
<1>4. /\ a \o b \in Seq(S) /\ Len(a \o b) = Len(a) + Len(b)
      /\ \A k \in 1..Len(a) + Len(b) :
           (a \o b)[k] = IF k <= Len(a) THEN a[k] ELSE b[k - Len(a)]
  BY <1>2, <1>3, ConcatProperties
<1>5. RemoveAt(s, i) = a \o b
  BY DEF RemoveAt
<1> HIDE DEF a, b
<1>6. ASSUME NEW j \in 1..Len(s) - 1
      PROVE  RemoveAt(s, i)[j] = IF j < i THEN s[j] ELSE s[j + 1]
  <2>1. CASE j < i
    BY <2>1, <1>1, <1>2, <1>3, <1>4, <1>5
  <2>2. CASE j >= i
    <3>1. (a \o b)[j] = b[j - (i - 1)]
      BY <2>2, <1>1, <1>2, <1>3, <1>4
    <3>2. j - (i - 1) \in 1..Len(s) - i /\ i + (j - (i - 1)) = j + 1
      BY <2>2, <1>1
    <3>3. b[j - (i - 1)] = s[i + (j - (i - 1))]
      BY <3>2, <1>3
    <3>4. b[j - (i - 1)] = s[j + 1]
      BY <3>2, <3>3
    <3>5. RemoveAt(s, i)[j] = s[j + 1]
      BY <3>1, <3>4, <1>5
    <3> QED BY <2>2, <3>5, <1>1
  <2> QED BY <2>1, <2>2, <1>1
<1> QED
  BY <1>1, <1>2, <1>3, <1>4, <1>5, <1>6
-----------------------------------------------------------------------------
(* Facts about the head of a non-empty channel or queue. *)
LEMMA HeadProperties ==
  ASSUME NEW S, NEW s \in Seq(S), s # <<>>
  PROVE  /\ Len(s) \in Nat \ {0}
         /\ s[1] \in S
         /\ Tail(s) \in Seq(S)
         /\ Len(Tail(s)) = Len(s) - 1
         /\ \A i \in 1..Len(s) - 1 : Tail(s)[i] = s[i + 1]
         /\ DOMAIN s = 1..Len(s)
         /\ DOMAIN Tail(s) = 1..Len(s) - 1
<1>1. Len(s) \in Nat \ {0}
  BY EmptySeq
<1>2. s[1] \in S
  BY <1>1, ElementOfSeq
<1> QED
  BY <1>1, <1>2, HeadTailProperties, LenProperties

(* A task in a call has a place in the mutex's queue. *)
LEMMA CallerIsQueued ==
  ASSUME TypeOK, SingleConsumer, NEW t \in Task, pc[t] # "idle"
  PROVE  lockQ # <<>>
<1>1. PICK i \in DOMAIN lockQ : lockQ[i] = t
  BY DEF SingleConsumer, QueuedIffCalling
<1> QED
  BY <1>1, LenProperties DEF TypeOK

(***************************************************************************)
(* The variables keep their types.  A delivery's position is positive only *)
(* because the channel is no longer than the log, and a return may take    *)
(* the head of the mutex's queue only because its caller is queued.        *)
(***************************************************************************)
LEMMA TypeStep ==
  ASSUME TypeOK, SingleConsumer, ChannelIsUntaken, [Next]_vars
  PROVE  TypeOK'
<1> USE DEF clientVars, callVars
<1>1. ASSUME NEW subs \in {"absent", "empty", "some"}, NEW force \in BOOLEAN,
             Connect(subs, force)
      PROVE  TypeOK'
  BY <1>1 DEF TypeOK, Connect
<1>2. CASE ConnectFails
  BY <1>2 DEF TypeOK, ConnectFails
<1>3. ASSUME NEW p \in Push, Send(p) PROVE TypeOK'
  BY <1>3, AppendProperties DEF TypeOK, Send
<1>4. CASE DropSender
  BY <1>4 DEF TypeOK, DropSender
<1>5. ASSUME NEW t \in Task, NEW o \in Ops, Unconfigured(t, o) PROVE TypeOK'
  BY <1>5 DEF TypeOK, Unconfigured, Outcomes
<1>6. ASSUME NEW t \in Task, NEW o \in Ops, Lock(t, o) PROVE TypeOK'
  BY <1>6, AppendProperties DEF TypeOK, Lock, Outcomes
<1>7. ASSUME NEW t \in Task, Acquire(t) PROVE TypeOK'
  BY <1>7 DEF TypeOK, Acquire
<1>8. ASSUME NEW t \in Task, Receive(t) PROVE TypeOK'
  <2>1. PICK m \in push_to_message(chan[1]) :
          delivered' = Append(delivered, [task |-> t, at |-> HeadPos, msg |-> m])
    BY <1>8 DEF Receive
  <2>2. chan[1] \in Push /\ chan' \in Seq(Push) /\ Len(chan) \in Nat
    BY <1>8, HeadProperties DEF Receive, TypeOK
  <2>3. m \in Message
    BY <2>2 DEF Message
  <2>4. HeadPos \in Nat \ {0}
    BY <2>2, LenProperties DEF HeadPos, TypeOK, ChannelIsUntaken
  <2>5. delivered' \in Seq(Delivery)
    BY <2>1, <2>3, <2>4, AppendProperties DEF Delivery, TypeOK
  <2>6. lockQ' \in Seq(Task)
    BY <1>8, CallerIsQueued, HeadProperties DEF Receive, Return, TypeOK
  <2> QED
    BY <1>8, <2>2, <2>5, <2>6 DEF Receive, Return, TypeOK, Outcomes
<1>9. ASSUME NEW t \in Task, Skip(t) PROVE TypeOK'
  BY <1>9, HeadProperties DEF TypeOK, Skip
<1>10. ASSUME NEW t \in Task, FoundClosed(t) PROVE TypeOK'
  BY <1>10, CallerIsQueued, HeadProperties DEF TypeOK, FoundClosed, Return, Outcomes
<1>11. ASSUME NEW t \in Task, FoundEmpty(t) PROVE TypeOK'
  BY <1>11, CallerIsQueued, HeadProperties DEF TypeOK, FoundEmpty, Return, Outcomes
<1>12. ASSUME NEW t \in Task, Cancel(t) PROVE TypeOK'
  <2>1. PICK i \in DOMAIN lockQ : lockQ' = RemoveAt(lockQ, i)
    BY <1>12 DEF Cancel
  <2>2. lockQ' \in Seq(Task)
    BY <2>1, RemoveAtProperties, LenProperties DEF TypeOK
  <2> QED
    BY <1>12, <2>2 DEF TypeOK, Cancel, Outcomes
<1>13. CASE UNCHANGED vars
  BY <1>13 DEF TypeOK, vars
<1> QED
  BY <1>1, <1>2, <1>3, <1>4, <1>5, <1>6, <1>7, <1>8, <1>9, <1>10, <1>11,
     <1>12, <1>13 DEF Next, Advance
-----------------------------------------------------------------------------
(* The mutex admits one task at a time, whatever ends its calls. *)
LEMMA SingleConsumerStep ==
  ASSUME TypeOK, SingleConsumer, [Next]_vars
  PROVE  SingleConsumer'
<1> USE DEF SingleConsumer, QueuedIffCalling, ReceiverHoldsLock
<1> DEFINE n == Len(lockQ)
<1>0. /\ n \in Nat /\ DOMAIN lockQ = 1..n
      /\ \A i \in 1..n : lockQ[i] \in Task
  BY LenProperties, ElementOfSeq DEF TypeOK
<1>1. ASSUME UNCHANGED <<lockQ, pc>> PROVE SingleConsumer'
  BY <1>1
<1>2. ASSUME NEW t \in Task, NEW o \in Ops, Lock(t, o) PROVE SingleConsumer'
  <2>1. /\ DOMAIN lockQ' = 1..n + 1
        /\ lockQ'[n + 1] = t
        /\ \A i \in 1..n : lockQ'[i] = lockQ[i]
    BY <1>2, <1>0, AppendProperties, LenProperties DEF Lock, TypeOK
  <2>2. pc[t] = "idle" /\ pc'[t] = "locking"
        /\ \A u \in Task : u # t => pc'[u] = pc[u]
    BY <1>2 DEF Lock, TypeOK
  <2>3. QueuedIffCalling'
    BY <2>1, <2>2, <1>0
  <2>4. ReceiverHoldsLock'
    <3>1. ASSUME NEW u \in Task, pc'[u] = "receiving" PROVE lockQ'[1] = u
      <4>1. u # t /\ lockQ[1] = u /\ 1 \in 1..n
        BY <3>1, <2>2, <1>0
      <4> QED BY <4>1, <2>1
    <3> QED BY <3>1
  <2> QED BY <2>3, <2>4
<1>3. ASSUME NEW t \in Task, Acquire(t) PROVE SingleConsumer'
  BY <1>3, <1>0 DEF Acquire, TypeOK
<1>4. ASSUME NEW t \in Task, NEW how, pc[t] = "receiving", Return(t, how)
      PROVE  SingleConsumer'
  <2>1. n \in Nat \ {0} /\ lockQ[1] = t
    BY <1>4, <1>0, CallerIsQueued, EmptySeq DEF TypeOK
  <2>2. /\ DOMAIN lockQ' = 1..n - 1
        /\ \A i \in 1..n - 1 : lockQ'[i] = lockQ[i + 1]
    BY <1>4, CallerIsQueued, HeadProperties DEF Return, TypeOK
  <2>3. pc'[t] = "idle" /\ \A u \in Task : u # t => pc'[u] = pc[u]
    BY <1>4 DEF Return, TypeOK
  <2>4. \A i \in 1..n - 1 : i + 1 \in 1..n /\ lockQ[i + 1] # t
    BY <2>1, <1>0
  <2>5. \A u \in Task : u # t => pc[u] # "receiving"
    BY <2>1
  <2>6. ASSUME NEW u \in Task, pc'[u] # "idle"
        PROVE  \E i \in DOMAIN lockQ' : lockQ'[i] = u
    <3>1. u # t /\ pc[u] # "idle"
      BY <2>6, <2>3
    <3>2. PICK i \in 1..n : lockQ[i] = u
      BY <3>1, <1>0
    <3>3. i - 1 \in 1..n - 1 /\ i = (i - 1) + 1
      BY <3>1, <3>2, <2>1, <1>0
    <3>4. lockQ'[i - 1] = u
      BY <3>2, <3>3, <2>2
    <3> QED BY <3>3, <3>4, <2>2
  <2>7. \A i \in DOMAIN lockQ' : pc'[lockQ'[i]] # "idle"
    BY <2>2, <2>3, <2>4, <1>0
  <2>8. \A i, j \in DOMAIN lockQ' : lockQ'[i] = lockQ'[j] => i = j
    BY <2>2, <2>4, <1>0
  <2> QED BY <2>3, <2>5, <2>6, <2>7, <2>8
<1>5. ASSUME NEW t \in Task, Cancel(t) PROVE SingleConsumer'
  <2>1. PICK k \in 1..n : lockQ[k] = t /\ lockQ' = RemoveAt(lockQ, k)
    BY <1>5, <1>0 DEF Cancel
  <2>2. /\ DOMAIN lockQ' = 1..n - 1
        /\ \A i \in 1..n - 1 :
             lockQ'[i] = IF i < k THEN lockQ[i] ELSE lockQ[i + 1]
    <3>1. lockQ \in Seq(Task) /\ k \in 1..Len(lockQ)
      BY <2>1 DEF TypeOK
    <3>2. RemoveAt(lockQ, k) \in Seq(Task)
      BY <3>1, RemoveAtProperties
    <3>3. Len(RemoveAt(lockQ, k)) = Len(lockQ) - 1
      BY <3>1, RemoveAtProperties
    <3>4. \A i \in 1..Len(lockQ) - 1 :
            RemoveAt(lockQ, k)[i] = IF i < k THEN lockQ[i] ELSE lockQ[i + 1]
      BY <3>1, RemoveAtProperties
    <3> QED BY <2>1, <3>2, <3>3, <3>4, LenProperties
  <2>3. pc'[t] = "idle" /\ \A u \in Task : u # t => pc'[u] = pc[u]
    BY <1>5 DEF Cancel, TypeOK
  <2>4. \A i \in 1..n : i # k => lockQ[i] # t
    BY <2>1, <1>0
  <2>5. \A i, j \in DOMAIN lockQ' : lockQ'[i] = lockQ'[j] => i = j
    <3>1. ASSUME NEW i \in 1..n - 1, NEW j \in 1..n - 1, lockQ'[i] = lockQ'[j]
          PROVE  i = j
      <4>1. CASE i < k /\ j < k
        BY <3>1, <4>1, <2>2, <1>0
      <4>2. CASE i < k /\ ~(j < k)
        BY <3>1, <4>2, <2>2, <1>0
      <4>3. CASE ~(i < k) /\ j < k
        BY <3>1, <4>3, <2>2, <1>0
      <4>4. CASE ~(i < k) /\ ~(j < k)
        BY <3>1, <4>4, <2>2, <1>0
      <4> QED BY <4>1, <4>2, <4>3, <4>4
    <3> QED BY <3>1, <2>2
  <2>6. \A i \in DOMAIN lockQ' : pc'[lockQ'[i]] # "idle"
    <3>1. ASSUME NEW i \in 1..n - 1 PROVE pc'[lockQ'[i]] # "idle"
      <4>1. PICK j \in 1..n : j # k /\ lockQ'[i] = lockQ[j]
        BY <2>2, <1>0
      <4> QED BY <4>1, <2>3, <2>4, <1>0
    <3> QED BY <3>1, <2>2
  <2>7. ASSUME NEW u \in Task, pc'[u] # "idle"
        PROVE  \E i \in DOMAIN lockQ' : lockQ'[i] = u
    <3>1. u # t /\ pc[u] # "idle"
      BY <2>7, <2>3
    <3>2. PICK i \in 1..n : lockQ[i] = u
      BY <3>1, <1>0
    <3>3. CASE i < k
      <4>1. i \in 1..n - 1 /\ lockQ'[i] = u
        BY <3>2, <3>3, <2>2, <1>0
      <4> QED BY <4>1, <2>2
    <3>4. CASE i > k
      <4>1. i - 1 \in 1..n - 1 /\ ~(i - 1 < k) /\ (i - 1) + 1 = i
        BY <3>4, <1>0
      <4>2. lockQ'[i - 1] = u
        BY <4>1, <3>2, <2>2
      <4> QED BY <4>1, <4>2, <2>2
    <3> QED BY <3>1, <3>2, <3>3, <3>4, <2>1, <1>0
  <2>8. ASSUME NEW u \in Task, pc'[u] = "receiving" PROVE lockQ'[1] = u
    <3>1. u # t /\ lockQ[1] = u /\ n >= 1
      BY <2>8, <2>3, <1>0
    <3>2. PICK i \in DOMAIN lockQ' : lockQ'[i] = u
      BY <2>7, <2>8
    <3>3. 1 \in 1..n - 1 /\ 1 < k
      BY <3>1, <3>2, <2>1, <2>2, <1>0
    <3> QED BY <3>1, <3>3, <2>2
  <2> QED BY <2>5, <2>6, <2>7, <2>8
<1> QED
  <2>1. CASE UNCHANGED vars
    BY <2>1, <1>1 DEF vars
  <2>2. CASE Next
    BY <2>2, <1>1, <1>2, <1>3, <1>4, <1>5
       DEF Next, Advance, Connect, ConnectFails, Send, DropSender, Unconfigured,
           Receive, Skip, FoundClosed, FoundEmpty, callVars, clientVars
  <2> QED BY <2>1, <2>2
-----------------------------------------------------------------------------
(***************************************************************************)
(* "closed" is final: a call reports it when the channel is empty and its  *)
(* sender gone, and then nothing is ever sent again.  Together with        *)
(* TakenIsDelivered this is what makes ClosedMeansDrained inductive.       *)
(***************************************************************************)
ClosedIsFinal == \A t \in Task : ret[t] = "closed" => ~open /\ chan = <<>>

IInv ==
  TypeOK /\ SingleConsumer /\ ChannelIsUntaken /\ ExactlyOnceInOrder /\ ClosedIsFinal

(* How each step changes the channel, the log and the deliveries. *)
LEMMA StreamSteps ==
  ASSUME TypeOK, [Next]_vars
  PROVE  \/ UNCHANGED <<chan, sent, delivered>>
         \/ /\ open /\ UNCHANGED <<open, delivered, ret>>
            /\ \E p \in Push : chan' = Append(chan, p) /\ sent' = Append(sent, p)
         \/ /\ chan # <<>> /\ chan' = Tail(chan) /\ ~IsMessage(chan[1])
            /\ UNCHANGED <<open, sent, delivered, ret>>
         \/ /\ chan # <<>> /\ chan' = Tail(chan) /\ UNCHANGED <<open, sent>>
            /\ \E t \in Task : \E m \in push_to_message(chan[1]) :
                 /\ delivered' =
                      Append(delivered, [task |-> t, at |-> HeadPos, msg |-> m])
                 /\ ret' = [ret EXCEPT ![t] = "message"]
<1>1. CASE UNCHANGED vars
  BY <1>1 DEF vars
<1>2. ASSUME NEW p \in Push, Send(p)
      PROVE  /\ open /\ UNCHANGED <<open, delivered, ret>>
             /\ chan' = Append(chan, p) /\ sent' = Append(sent, p)
  BY <1>2 DEF Send, callVars
<1>3. ASSUME NEW t \in Task, Skip(t)
      PROVE  /\ chan # <<>> /\ chan' = Tail(chan) /\ ~IsMessage(chan[1])
             /\ UNCHANGED <<open, sent, delivered, ret>>
  BY <1>3 DEF Skip, callVars
<1>4. ASSUME NEW t \in Task, Receive(t)
      PROVE  /\ chan # <<>> /\ chan' = Tail(chan) /\ UNCHANGED <<open, sent>>
             /\ \E m \in push_to_message(chan[1]) :
                  delivered' =
                    Append(delivered, [task |-> t, at |-> HeadPos, msg |-> m])
             /\ ret' = [ret EXCEPT ![t] = "message"]
  BY <1>4 DEF Receive, Return
<1>5. ASSUME Next,
             ~ \E p \in Push : Send(p),
             ~ \E t \in Task : Skip(t) \/ Receive(t)
      PROVE  UNCHANGED <<chan, sent, delivered>>
  BY <1>5 DEF Next, Advance, Connect, ConnectFails, DropSender, Unconfigured, Lock,
              Acquire, FoundClosed, FoundEmpty, Cancel
<1> QED
  BY <1>1, <1>2, <1>3, <1>4, <1>5

(* The position of the channel's head, before and after it is taken. *)
LEMMA HeadPosition ==
  ASSUME TypeOK, ChannelIsUntaken
  PROVE  /\ Len(sent) \in Nat /\ Len(chan) \in Nat /\ Len(chan) <= Len(sent)
         /\ DOMAIN chan = 1..Len(chan) /\ DOMAIN sent = 1..Len(sent)
         /\ HeadPos \in 1..Len(sent) + 1
         /\ chan # <<>> => HeadPos \in 1..Len(sent) /\ chan[1] = sent[HeadPos]
<1>1. /\ Len(sent) \in Nat /\ Len(chan) \in Nat
      /\ DOMAIN chan = 1..Len(chan) /\ DOMAIN sent = 1..Len(sent)
  BY LenProperties DEF TypeOK
<1>2. chan # <<>> => 1 \in 1..Len(chan)
  BY EmptySeq DEF TypeOK
<1> QED
  BY <1>1, <1>2 DEF ChannelIsUntaken, HeadPos

(* The channel stays the untaken part of the log. *)
LEMMA ChannelStep ==
  ASSUME TypeOK, ChannelIsUntaken, [Next]_vars
  PROVE  ChannelIsUntaken'
<1>1. CASE UNCHANGED <<chan, sent, delivered>>
  BY <1>1 DEF ChannelIsUntaken, HeadPos
<1>2. ASSUME NEW p \in Push, chan' = Append(chan, p), sent' = Append(sent, p)
      PROVE  ChannelIsUntaken'
  <2>1. /\ DOMAIN chan' = 1..Len(chan) + 1 /\ chan'[Len(chan) + 1] = p
        /\ \A i \in 1..Len(chan) : chan'[i] = chan[i]
        /\ Len(chan') = Len(chan) + 1
    BY <1>2, AppendProperties, LenProperties DEF TypeOK
  <2>2. /\ Len(sent') = Len(sent) + 1 /\ sent'[Len(sent) + 1] = p
        /\ \A i \in 1..Len(sent) : sent'[i] = sent[i]
    BY <1>2, AppendProperties DEF TypeOK
  <2>3. HeadPos' = HeadPos
    BY <2>1, <2>2, HeadPosition DEF HeadPos
  <2>4. ASSUME NEW i \in 1..Len(chan) + 1
        PROVE  chan'[i] = sent'[HeadPos + i - 1]
    <3>1. CASE i = Len(chan) + 1
      <4>1. HeadPos + i - 1 = Len(sent) + 1
        BY <3>1, HeadPosition DEF HeadPos
      <4> QED BY <3>1, <4>1, <2>1, <2>2
    <3>2. CASE i \in 1..Len(chan)
      <4>1. HeadPos + i - 1 \in 1..Len(sent)
        BY <3>2, HeadPosition DEF HeadPos
      <4>2. chan[i] = sent[HeadPos + i - 1]
        BY <3>2, HeadPosition DEF ChannelIsUntaken
      <4> QED BY <3>2, <4>1, <4>2, <2>1, <2>2
    <3> QED BY <3>1, <3>2, HeadPosition
  <2> QED
    BY <2>1, <2>2, <2>3, <2>4, HeadPosition DEF ChannelIsUntaken
<1>3. ASSUME chan # <<>>, chan' = Tail(chan), sent' = sent
      PROVE  ChannelIsUntaken'
  <2>1. /\ Len(chan') = Len(chan) - 1 /\ DOMAIN chan' = 1..Len(chan) - 1
        /\ \A i \in 1..Len(chan) - 1 : chan'[i] = chan[i + 1]
    BY <1>3, HeadProperties DEF TypeOK
  <2>2. HeadPos' = HeadPos + 1
    BY <1>3, <2>1, HeadPosition DEF HeadPos
  <2>3. ASSUME NEW i \in 1..Len(chan) - 1
        PROVE  chan'[i] = sent'[HeadPos' + i - 1]
    <3>1. i + 1 \in DOMAIN chan /\ HeadPos + (i + 1) - 1 = HeadPos' + i - 1
      BY <2>2, HeadPosition
    <3>2. chan[i + 1] = sent[HeadPos + (i + 1) - 1]
      BY <3>1 DEF ChannelIsUntaken
    <3> QED BY <3>1, <3>2, <2>1, <1>3
  <2> QED
    BY <1>3, <2>1, <2>3, HeadPosition DEF ChannelIsUntaken
<1> QED
  BY <1>1, <1>2, <1>3, StreamSteps

(***************************************************************************)
(* Messages keep being delivered exactly once, in order: a delivery        *)
(* appends the position of the channel's head, which is beyond every       *)
(* position delivered before, and a push is skipped only if no message.    *)
(***************************************************************************)
LEMMA ExactlyOnceStep ==
  ASSUME TypeOK, ChannelIsUntaken, ExactlyOnceInOrder, [Next]_vars
  PROVE  ExactlyOnceInOrder'
<1> DEFINE n == Len(delivered)
<1>0. n \in Nat /\ DOMAIN delivered = 1..n
  BY LenProperties DEF TypeOK
<1>1. CASE UNCHANGED <<chan, sent, delivered>>
  BY <1>1 DEF ExactlyOnceInOrder, DeliveredInOrder, DeliveredIsTaken,
              TakenIsDelivered, Delivered, HeadPos
<1>2. ASSUME NEW p \in Push, chan' = Append(chan, p), sent' = Append(sent, p),
             delivered' = delivered
      PROVE  ExactlyOnceInOrder'
  <2>1. /\ Len(chan') = Len(chan) + 1 /\ Len(sent') = Len(sent) + 1
        /\ \A i \in 1..Len(sent) : sent'[i] = sent[i]
    BY <1>2, AppendProperties DEF TypeOK
  <2>2. HeadPos' = HeadPos /\ 1..HeadPos - 1 \subseteq 1..Len(sent)
    BY <2>1, HeadPosition DEF HeadPos
  <2> QED
    BY <1>2, <2>1, <2>2 DEF ExactlyOnceInOrder, DeliveredInOrder, DeliveredIsTaken,
                            TakenIsDelivered, Delivered
<1>3. ASSUME chan # <<>>, chan' = Tail(chan), sent' = sent
      PROVE  /\ HeadPos' = HeadPos + 1
             /\ 1..HeadPos' - 1 = (1..HeadPos - 1) \cup {HeadPos}
             /\ sent'[HeadPos] = chan[1]
  <2>1. Len(chan') = Len(chan) - 1
    BY <1>3, HeadProperties DEF TypeOK
  <2> QED
    BY <1>3, <2>1, HeadPosition DEF HeadPos
<1>4. ASSUME chan # <<>>, chan' = Tail(chan), ~IsMessage(chan[1]),
             sent' = sent, delivered' = delivered
      PROVE  ExactlyOnceInOrder'
  <2>1. /\ 1..HeadPos' - 1 = (1..HeadPos - 1) \cup {HeadPos}
        /\ sent'[HeadPos] = chan[1]
    BY <1>3, <1>4
  <2> QED
    BY <1>4, <2>1 DEF ExactlyOnceInOrder, DeliveredInOrder, DeliveredIsTaken,
                      TakenIsDelivered, Delivered
<1>5. ASSUME chan # <<>>, chan' = Tail(chan), sent' = sent,
             NEW t \in Task, NEW m \in push_to_message(chan[1]),
             delivered' = Append(delivered, [task |-> t, at |-> HeadPos, msg |-> m])
      PROVE  ExactlyOnceInOrder'
  <2>1. /\ HeadPos \in Nat
        /\ 1..HeadPos' - 1 = (1..HeadPos - 1) \cup {HeadPos}
        /\ sent'[HeadPos] = chan[1]
    BY <1>3, <1>5, HeadPosition
  <2>2. /\ DOMAIN delivered' = 1..n + 1
        /\ \A i \in 1..n : delivered'[i] = delivered[i]
        /\ delivered'[n + 1].at = HeadPos /\ delivered'[n + 1].msg = m
    <3> DEFINE d == [task |-> t, at |-> HeadPos, msg |-> m]
    <3>1. chan[1] \in Push /\ HeadPos \in Nat \ {0}
      BY <1>5, HeadProperties, HeadPosition DEF TypeOK
    <3>2. d \in Delivery
      BY <3>1, <1>5 DEF Delivery, Message
    <3> HIDE DEF d
    <3>3. /\ Append(delivered, d) \in Seq(Delivery)
          /\ Len(Append(delivered, d)) = n + 1
          /\ \A i \in 1..n : Append(delivered, d)[i] = delivered[i]
          /\ Append(delivered, d)[n + 1] = d
      BY <3>2, AppendProperties DEF TypeOK
    <3> QED BY <3>3, <1>5, LenProperties DEF d
  <2>3. \A i \in 1..n : delivered[i].at \in 1..HeadPos - 1
    BY <1>0 DEF ExactlyOnceInOrder, DeliveredIsTaken
  <2>4. DeliveredInOrder'
    <3>1. ASSUME NEW i \in 1..n + 1, NEW j \in 1..n + 1, i < j
          PROVE  delivered'[i].at < delivered'[j].at
      <4>1. CASE j = n + 1
        BY <3>1, <4>1, <2>1, <2>2, <2>3, <1>0
      <4>2. CASE j \in 1..n
        BY <3>1, <4>2, <2>2, <1>0 DEF ExactlyOnceInOrder, DeliveredInOrder
      <4> QED BY <4>1, <4>2, <1>0
    <3> QED BY <3>1, <2>2 DEF DeliveredInOrder
  <2>5. DeliveredIsTaken'
    <3>1. ASSUME NEW i \in 1..n + 1
          PROVE  /\ delivered'[i].at \in 1..HeadPos' - 1
                 /\ delivered'[i].msg \in push_to_message(sent'[delivered'[i].at])
      <4>1. CASE i = n + 1
        BY <1>5, <4>1, <2>1, <2>2
      <4>2. CASE i \in 1..n
        BY <1>5, <4>2, <2>1, <2>2, <1>0 DEF ExactlyOnceInOrder, DeliveredIsTaken
      <4> QED BY <4>1, <4>2, <1>0
    <3> QED BY <3>1, <2>2 DEF DeliveredIsTaken
  <2>6. TakenIsDelivered'
    <3>1. ASSUME NEW k \in 1..HeadPos' - 1, IsMessage(sent[k])
          PROVE  \E i \in 1..n + 1 : delivered'[i].at = k
      <4>1. CASE k = HeadPos
        BY <4>1, <2>2, <1>0
      <4>2. CASE k \in 1..HeadPos - 1
        <5>1. PICK i \in 1..n : delivered[i].at = k
          BY <3>1, <4>2, <1>0 DEF ExactlyOnceInOrder, TakenIsDelivered, Delivered
        <5> QED BY <5>1, <2>2, <1>0
      <4> QED BY <4>1, <4>2, <2>1
    <3> QED BY <3>1, <2>2, <1>5 DEF TakenIsDelivered, Delivered
  <2> QED BY <2>4, <2>5, <2>6 DEF ExactlyOnceInOrder
<1> QED
  BY <1>1, <1>2, <1>4, <1>5, StreamSteps

(* A closed report stays true: nothing is sent after it. *)
LEMMA ClosedStep ==
  ASSUME TypeOK, ClosedIsFinal, [Next]_vars
  PROVE  ClosedIsFinal'
<1> USE DEF clientVars, callVars
<1>1. CASE UNCHANGED vars
  BY <1>1 DEF ClosedIsFinal, vars
<1>2. ASSUME NEW subs, NEW force, Connect(subs, force) PROVE ClosedIsFinal'
  BY <1>2 DEF ClosedIsFinal, Connect
<1>3. CASE ConnectFails
  BY <1>3 DEF ClosedIsFinal, ConnectFails
<1>4. ASSUME NEW p \in Push, Send(p) PROVE ClosedIsFinal'
  BY <1>4 DEF ClosedIsFinal, Send
<1>5. CASE DropSender
  BY <1>5 DEF ClosedIsFinal, DropSender
<1>6. ASSUME NEW t \in Task, NEW o \in Ops, Unconfigured(t, o) \/ Lock(t, o)
      PROVE  ClosedIsFinal'
  BY <1>6 DEF ClosedIsFinal, Unconfigured, Lock, TypeOK
<1>7. ASSUME NEW t \in Task, Acquire(t) \/ Cancel(t) PROVE ClosedIsFinal'
  BY <1>7 DEF ClosedIsFinal, Acquire, Cancel, TypeOK
<1>8. ASSUME NEW t \in Task, Receive(t) \/ Skip(t) PROVE ClosedIsFinal'
  BY <1>8 DEF ClosedIsFinal, Receive, Skip, Return, TypeOK
<1>9. ASSUME NEW t \in Task, FoundClosed(t) \/ FoundEmpty(t) PROVE ClosedIsFinal'
  BY <1>9 DEF ClosedIsFinal, FoundClosed, FoundEmpty, Return, TypeOK
<1> QED
  BY <1>1, <1>2, <1>3, <1>4, <1>5, <1>6, <1>7, <1>8, <1>9 DEF Next, Advance
-----------------------------------------------------------------------------
(* The conjunction of the above is an inductive invariant. *)
THEOREM Inductive == Spec => []IInv
<1>1. Init => IInv
  <2> SUFFICES ASSUME Init PROVE IInv
    OBVIOUS
  <2>1. TypeOK
    BY EmptySeq DEF Init, TypeOK, Ops, Outcomes
  <2>2. SingleConsumer
    BY DEF Init, SingleConsumer, QueuedIffCalling, ReceiverHoldsLock
  <2>3. ChannelIsUntaken
    BY DEF Init, ChannelIsUntaken
  <2>4. ExactlyOnceInOrder
    BY DEF Init, ExactlyOnceInOrder, DeliveredInOrder, DeliveredIsTaken,
           TakenIsDelivered, HeadPos
  <2>5. ClosedIsFinal
    BY DEF Init, ClosedIsFinal
  <2> QED BY <2>1, <2>2, <2>3, <2>4, <2>5 DEF IInv
<1>2. IInv /\ [Next]_vars => IInv'
  BY TypeStep, SingleConsumerStep, ChannelStep, ExactlyOnceStep, ClosedStep
     DEF IInv
<1> QED BY <1>1, <1>2, PTL DEF Spec

(* Every variable of the receive path keeps its type. *)
THEOREM TypeCorrect == Spec => []TypeOK
<1>1. IInv => TypeOK
  BY DEF IInv
<1> QED BY <1>1, Inductive, PTL

(* The receiver serves one call at a time; no ended call holds the mutex. *)
THEOREM MutexSafe == Spec => []SingleConsumer
<1>1. IInv => SingleConsumer
  BY DEF IInv
<1> QED BY <1>1, Inductive, PTL

(* Messages are returned exactly once and in order, across all callers. *)
THEOREM DeliverySafe == Spec => []ExactlyOnceInOrder
<1>1. IInv => ExactlyOnceInOrder
  BY DEF IInv
<1> QED BY <1>1, Inductive, PTL

(* The closed error is reported only after every message was returned. *)
THEOREM ClosedSafe == Spec => []ClosedMeansDrained
<1>1. IInv => ClosedMeansDrained
  <2> SUFFICES ASSUME IInv, NEW t \in Task, ret[t] = "closed",
                      NEW n \in DOMAIN sent, IsMessage(sent[n])
               PROVE  Delivered(n)
    BY DEF ClosedMeansDrained
  <2>1. chan = <<>>
    BY DEF IInv, ClosedIsFinal
  <2>2. n \in 1..HeadPos - 1
    BY <2>1, HeadPosition, EmptySeq DEF IInv, HeadPos
  <2> QED BY <2>2 DEF IInv, ExactlyOnceInOrder, TakenIsDelivered
<1> QED BY <1>1, Inductive, PTL

(* try_get_pubsub_message returns None only with no message in the channel. *)
THEOREM NoneSafe == Spec => NoneMeansNoMessage
<1> DEFINE A == \A t \in Task : ret[t] # "empty" /\ ret'[t] = "empty" =>
                  \A i \in DOMAIN chan : ~IsMessage(chan[i])
<1>1. IInv /\ [Next]_vars => [A]_vars
  <2> SUFFICES ASSUME IInv, Next PROVE A
    OBVIOUS
  <2>0. TypeOK
    BY DEF IInv
  <2>1. ASSUME NEW u \in Task, FoundEmpty(u) PROVE A
    <3>1. DOMAIN chan = {}
      BY <2>1 DEF FoundEmpty
    <3> QED BY <3>1
  <2>2. ASSUME ~ \E u \in Task : FoundEmpty(u)
        PROVE  \A t \in Task : ret[t] # "empty" => ret'[t] # "empty"
    BY <2>0, <2>2
       DEF Next, Advance, Connect, ConnectFails, Send, DropSender, Unconfigured,
           Lock, Acquire, Receive, Skip, FoundClosed, Return, Cancel, TypeOK,
           callVars
  <2> QED BY <2>1, <2>2
<1> QED BY <1>1, Inductive, PTL DEF Spec, NoneMeansNoMessage
-----------------------------------------------------------------------------
(* The abstract stream uses the same conversion. *)
LEMMA SameConversion ==
  ASSUME NEW p
  PROVE  /\ Stream!push_to_message(p) = push_to_message(p)
         /\ Stream!IsMessage(p) <=> IsMessage(p)
<1>1. Stream!push_to_message(p) = push_to_message(p)
  BY DEF push_to_message, Stream!push_to_message, value_to_bytes,
         Stream!value_to_bytes
<1> QED BY <1>1 DEF IsMessage, Stream!IsMessage

(***************************************************************************)
(* The receive path implements PushStream.  A delivery hands out the next  *)
(* message of the stream because every push between the last delivery and  *)
(* the channel's head was skipped, so is no message.                       *)
(***************************************************************************)
LEMMA DeliveryIsNext ==
  ASSUME IInv, chan # <<>>, IsMessage(chan[1])
  PROVE  HeadPos \in 1..Len(sent) /\ Stream!IsNext(HeadPos)
<1> DEFINE last == Stream!LastAt(delivered)
<1>0. /\ TypeOK /\ ChannelIsUntaken
      /\ DeliveredInOrder /\ DeliveredIsTaken /\ TakenIsDelivered
  BY DEF IInv, ExactlyOnceInOrder
<1>1. HeadPos \in 1..Len(sent) /\ chan[1] = sent[HeadPos] /\ Len(sent) \in Nat
  BY <1>0, HeadPosition
<1>2. /\ last \in 0..HeadPos - 1
      /\ \A i \in DOMAIN delivered : delivered[i].at <= last
  <2>1. CASE delivered = <<>>
    BY <2>1, <1>1 DEF Stream!LastAt
  <2>2. CASE delivered # <<>>
    <3>1. /\ Len(delivered) \in Nat \ {0}
          /\ DOMAIN delivered = 1..Len(delivered)
      BY <2>2, <1>0, EmptySeq, LenProperties DEF TypeOK
    <3>2. last = delivered[Len(delivered)].at /\ Len(delivered) \in DOMAIN delivered
      BY <2>2, <3>1 DEF Stream!LastAt
    <3>3. last \in 1..HeadPos - 1
      BY <3>2, <1>0 DEF DeliveredIsTaken
    <3>4. ASSUME NEW i \in DOMAIN delivered PROVE delivered[i].at <= last
      <4>1. CASE i = Len(delivered)
        BY <4>1, <3>2, <3>3, <1>1
      <4>2. CASE i < Len(delivered)
        <5>1. delivered[i].at < delivered[Len(delivered)].at
          BY <4>2, <3>2, <1>0 DEF DeliveredInOrder
        <5>2. delivered[i].at \in 1..HeadPos - 1
          BY <1>0 DEF DeliveredIsTaken
        <5> QED BY <5>1, <5>2, <3>2, <3>3, <1>1
      <4> QED BY <4>1, <4>2, <3>1
    <3> QED BY <3>3, <3>4, <1>1
  <2> QED BY <2>1, <2>2
<1> HIDE DEF last
<1>3. ASSUME NEW k \in last + 1..HeadPos - 1 PROVE ~IsMessage(sent[k])
  <2> SUFFICES ASSUME IsMessage(sent[k]) PROVE FALSE
    OBVIOUS
  <2>1. k \in 1..HeadPos - 1 /\ k > last
    BY <1>1, <1>2
  <2>2. PICK i \in DOMAIN delivered : delivered[i].at = k
    BY <2>1, <1>0 DEF TakenIsDelivered, Delivered
  <2> QED BY <2>1, <2>2, <1>1, <1>2
<1>4. HeadPos \in last + 1..Len(sent)
  BY <1>1, <1>2
<1> QED
  BY <1>1, <1>3, <1>4, SameConversion DEF last, Stream!IsNext

THEOREM Refinement == Spec => ImplementsStream
<1>1. Init => Stream!StreamInit
  BY DEF Init, Stream!StreamInit
<1>2. IInv /\ [Next]_vars => [Stream!StreamNext]_(Stream!streamVars)
  <2> SUFFICES ASSUME IInv, [Next]_vars
               PROVE  Stream!StreamNext \/ UNCHANGED Stream!streamVars
    OBVIOUS
  <2> USE DEF clientVars, callVars
  <2>0. TypeOK
    BY DEF IInv
  <2>1. CASE UNCHANGED vars
    BY <2>1 DEF vars, Stream!streamVars
  <2>2. ASSUME NEW p \in Push, Send(p) PROVE Stream!Publish
    BY <2>2 DEF Send, Stream!Publish
  <2>3. CASE DropSender
    <3>1. Stream!Shut
      BY <2>3 DEF DropSender, Stream!Shut
    <3> QED BY <3>1 DEF Stream!StreamNext
  <2>4. ASSUME NEW t \in Task, Receive(t) PROVE Stream!HandOut(t)
    <3>1. PICK m \in push_to_message(chan[1]) :
            delivered' = Append(delivered, [task |-> t, at |-> HeadPos, msg |-> m])
      BY <2>4 DEF Receive
    <3>2. chan # <<>> /\ IsMessage(chan[1]) /\ UNCHANGED <<open, sent>>
      BY <2>4, <3>1 DEF Receive, IsMessage
    <3>3. HeadPos \in 1..Len(sent) /\ Stream!IsNext(HeadPos)
      BY <3>2, DeliveryIsNext
    <3>4. m \in push_to_message(sent[HeadPos])
      BY <3>1, <3>2, HeadPosition DEF IInv
    <3> QED BY <3>1, <3>2, <3>3, <3>4, SameConversion DEF Stream!HandOut
  <2>5. ASSUME Next, ~DropSender,
               ~ \E p \in Push : Send(p), ~ \E t \in Task : Receive(t)
        PROVE  UNCHANGED Stream!streamVars
    BY <2>5 DEF Next, Advance, Connect, ConnectFails, Unconfigured, Lock, Acquire,
                Skip, FoundClosed, FoundEmpty, Cancel, Stream!streamVars
  <2> QED
    BY <2>1, <2>2, <2>3, <2>4, <2>5 DEF Stream!StreamNext
<1> QED
  BY <1>1, <1>2, Inductive, PTL DEF Spec, ImplementsStream, Stream!StreamSpec
=============================================================================
