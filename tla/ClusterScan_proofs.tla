------------------------ MODULE ClusterScan_proofs ------------------------
(***************************************************************************)
(* Proofs about ClusterScan for any callers, keys, slots and filters, and  *)
(* any number of ids.                                                      *)
(***************************************************************************)
EXTENDS ClusterScan, TLAPS

(* A cursor that starts a scan has nothing behind it; what was returned    *)
(* lies behind any other cursor the core knows.                            *)
BehindInv(c) == \A k \in Key : returned[c][k] > 0 =>
  ~StartsScan(cursor[c]) /\ (Known(cursor[c]) => SlotOf[k] \notin Ahead(cursor[c]))

(* A call in flight scans what lies ahead of the caller's cursor. *)
FlightInv(c) == left[c] # {} =>
  /\ left[c] = Ahead(cursor[c])
  /\ StartsScan(cursor[c]) \/ Known(cursor[c])

MissedInv(c) ==
  /\ stable[c] \subseteq content
  /\ \A k \in stable[c] \cap Asked(args[c]) :
       returned[c][k] > 0 \/ SlotOf[k] \in Ahead(cursor[c])

OnceInv(c) == \A k \in Key : /\ returned[c][k] <= 1
                             /\ returned[c][k] > 0 => k \in Asked(args[c])

InvOf(c) == BehindInv(c) /\ FlightInv(c) /\ MissedInv(c) /\ OnceInv(c)

IInv == TypeOK /\ CursorStaysValid /\ \A c \in Caller : InvOf(c)
-----------------------------------------------------------------------------
(* The cursors are told apart, and only an id is a key of the container. *)
LEMMA CursorKinds ==
  ASSUME TypeOK, NEW c \in Caller
  PROVE  /\ cursor[c] \in {New, Zero, FINISHED} \/ \E n \in 1..issued : cursor[c] = Id(n)
         /\ Known(cursor[c]) => ~StartsScan(cursor[c]) /\ ~is_finished(cursor[c])
         /\ ~(StartsScan(cursor[c]) /\ is_finished(cursor[c]))
         /\ cursor[c].id \in 0..issued /\ (cursor[c].id # 0 => cursor[c] = Id(cursor[c].id))
<1>1. cursor[c] \in {New, Zero, FINISHED} \/ \E n \in 1..issued : cursor[c] = Id(n)
  BY DEF TypeOK, Cursors
<1>2. New # FINISHED /\ Zero # FINISHED /\ New.id = 0 /\ Zero.id = 0 /\ FINISHED.id = 0
  BY DEF New, Zero, FINISHED
<1>3. issued \in Nat /\ \A n \in 1..issued : Id(n).id = n /\ n # 0
  BY DEF TypeOK, Id
<1>4. 0 \notin DOMAIN container
  BY <1>3 DEF TypeOK
<1>5. cursor[c].id \in 0..issued
  BY <1>1, <1>2, <1>3
<1>6. cursor[c].id # 0 => cursor[c] = Id(cursor[c].id)
  BY <1>1, <1>2, <1>3
<1> QED BY <1>1, <1>2, <1>4, <1>5, <1>6 DEF Known, StartsScan, is_finished

(* What lies ahead of each kind of cursor. *)
LEMMA AheadOf ==
  ASSUME TypeOK, NEW c \in Caller
  PROVE  /\ StartsScan(cursor[c]) => Ahead(cursor[c]) = Slot
         /\ is_finished(cursor[c]) => Ahead(cursor[c]) = {}
         /\ Known(cursor[c]) => Ahead(cursor[c]) = container[cursor[c].id]
         /\ ~StartsScan(cursor[c]) /\ ~is_finished(cursor[c]) /\ ~Known(cursor[c])
              => Ahead(cursor[c]) = Slot
<1>1. /\ Known(cursor[c]) => ~StartsScan(cursor[c]) /\ ~is_finished(cursor[c])
      /\ ~(StartsScan(cursor[c]) /\ is_finished(cursor[c]))
  BY CursorKinds
<1> QED BY <1>1 DEF Ahead

(* decode_keys undoes every form a set of keys may come in. *)
LEMMA KeysDecode ==
  ASSUME NEW ks, NEW v \in KeysValue(ks)
  PROVE  decode_keys(v) = ks
BY DEF KeysValue, decode_keys
-----------------------------------------------------------------------------
(* The container keeps the entries it has and gives no old id to a new one. *)
EntriesKept ==
  /\ \A n \in DOMAIN container : n \in DOMAIN container' /\ container'[n] = container[n]
  /\ \A n \in 0..issued : n \in DOMAIN container' => n \in DOMAIN container

(* A cursor then stands for what it stood for before. *)
LEMMA SameAhead ==
  ASSUME TypeOK, EntriesKept, NEW c \in Caller, cursor'[c] = cursor[c]
  PROVE  /\ Known(cursor[c])' <=> Known(cursor[c])
         /\ Ahead(cursor[c])' = Ahead(cursor[c])
         /\ StartsScan(cursor[c])' <=> StartsScan(cursor[c])
         /\ is_finished(cursor[c])' <=> is_finished(cursor[c])
<1>1. cursor[c].id \in 0..issued
  BY CursorKinds
<1>2. /\ Known(cursor[c])' <=> Known(cursor[c])
      /\ Known(cursor[c]) => container'[cursor[c].id] = container[cursor[c].id]
  BY <1>1 DEF Known, EntriesKept
<1>3. /\ StartsScan(cursor[c])' <=> StartsScan(cursor[c])
      /\ is_finished(cursor[c])' <=> is_finished(cursor[c])
  BY DEF StartsScan, is_finished, New, Zero, FINISHED
<1>4. Ahead(cursor[c])' = Ahead(cursor[c])
  <2>1. Ahead(cursor[c])' = CASE StartsScan(cursor[c])' -> Slot
                              [] is_finished(cursor[c])' -> {}
                              [] Known(cursor[c])' -> container'[cursor[c].id]
                              [] OTHER -> Slot
    BY DEF Ahead
  <2>2. /\ Known(cursor[c]) => ~StartsScan(cursor[c]) /\ ~is_finished(cursor[c])
        /\ ~(StartsScan(cursor[c]) /\ is_finished(cursor[c]))
    BY CursorKinds
  <2> QED BY <1>2, <1>3, <2>1, <2>2, AheadOf
<1> QED BY <1>2, <1>3, <1>4

(* What is said of a caller is kept while it holds its cursor, whatever    *)
(* the call in flight comes to and whatever else is added or removed.      *)
LEMMA SameCursor ==
  ASSUME IInv, EntriesKept, NEW c \in Caller,
         cursor'[c] = cursor[c], args'[c] = args[c], returned'[c] = returned[c],
         left'[c] = left[c] \/ left'[c] = {},
         stable'[c] \subseteq stable[c], stable'[c] \subseteq content'
  PROVE  InvOf(c)'
<1>1. /\ Known(cursor[c])' <=> Known(cursor[c])
      /\ Ahead(cursor[c])' = Ahead(cursor[c])
      /\ StartsScan(cursor[c])' <=> StartsScan(cursor[c])
  BY SameAhead DEF IInv
<1>2. BehindInv(c)'
  BY <1>1 DEF IInv, InvOf, BehindInv
<1>3. FlightInv(c)'
  BY <1>1 DEF IInv, InvOf, FlightInv
<1>4. MissedInv(c)'
  BY <1>1 DEF IInv, InvOf, MissedInv, Asked
<1>5. OnceInv(c)'
  BY DEF IInv, InvOf, OnceInv, Asked
<1> QED BY <1>2, <1>3, <1>4, <1>5 DEF InvOf

(* The core's part of a call: the slots that remain get a new id. *)
LEMMA ScannedFacts ==
  ASSUME TypeOK, NEW c \in Caller, NEW done \in SUBSET left[c], Scanned(c, done)
  PROVE  /\ EntriesKept
         /\ issued' \in 0..MaxIds /\ issued <= issued'
         /\ DOMAIN container' \subseteq 1..issued'
         /\ \A n \in DOMAIN container' : container'[n] \in SUBSET Slot
         /\ DOMAIN container \subseteq DOMAIN container'
         /\ done # left[c] =>
              /\ issued' \in 1..MaxIds /\ issued' = issued + 1
              /\ issued' \in DOMAIN container' /\ container'[issued'] = left[c] \ done
<1>1. MaxIds \in Nat /\ issued \in Nat /\ issued <= MaxIds
  BY ClusterScanAssumption DEF TypeOK
<1>2. CASE done = left[c]
  BY <1>1, <1>2 DEF Scanned, EntriesKept, TypeOK
<1>3. CASE done # left[c]
  <2>1. /\ issued < MaxIds /\ issued' = issued + 1
        /\ container' = [n \in DOMAIN container \cup {issued'} |->
                           IF n = issued' THEN left[c] \ done ELSE container[n]]
    BY <1>3 DEF Scanned
  <2>2. /\ DOMAIN container' = {issued'} \cup DOMAIN container
        /\ container'[issued'] = left[c] \ done
        /\ \A n \in DOMAIN container : n # issued' => container'[n] = container[n]
    BY <2>1
  <2>3. issued' \notin 0..issued /\ issued' \in 1..MaxIds
    BY <1>1, <2>1
  <2>4. DOMAIN container \subseteq 1..issued /\ left[c] \in SUBSET Slot
    BY DEF TypeOK
  <2>5. EntriesKept
    BY <1>1, <2>2, <2>3, <2>4 DEF EntriesKept
  <2>6. DOMAIN container' \subseteq 1..issued'
    BY <1>1, <2>1, <2>2, <2>4
  <2>7. \A n \in DOMAIN container' : container'[n] \in SUBSET Slot
    BY <2>2, <2>4 DEF TypeOK
  <2>8. issued' \in 0..MaxIds /\ issued <= issued' /\ issued' \in DOMAIN container'
    BY <1>1, <2>1, <2>2
  <2> QED BY <2>1, <2>2, <2>3, <2>5, <2>6, <2>7, <2>8
<1> QED BY <1>2, <1>3
-----------------------------------------------------------------------------
(* The steps that keep the container as it is. *)
LEMMA NoEntry ==
  ASSUME TypeOK, container' = container
  PROVE  EntriesKept
BY DEF EntriesKept

(* A call that starts: the whole keyspace lies ahead, nothing behind. *)
LEMMA StartStep ==
  ASSUME IInv, NEW c \in Caller, Start(c)
  PROVE  InvOf(c)'
<1>1. /\ StartsScan(cursor[c]) /\ left'[c] = Slot /\ stable'[c] = content
      /\ UNCHANGED <<content, container, issued, lost, cursor, args, returned>>
  BY DEF Start, IInv, TypeOK
<1>2. /\ StartsScan(cursor[c])' /\ Ahead(cursor[c])' = Slot
  BY <1>1, NoEntry, SameAhead, AheadOf DEF IInv
<1>3. BehindInv(c)'
  BY <1>1 DEF IInv, InvOf, BehindInv, StartsScan
<1>4. FlightInv(c)'
  BY <1>1, <1>2 DEF FlightInv
<1>5. MissedInv(c)'
  BY <1>1, <1>2, ClusterScanAssumption DEF MissedInv, IInv, TypeOK
<1>6. OnceInv(c)'
  BY <1>1 DEF IInv, InvOf, OnceInv, Asked
<1> QED BY <1>3, <1>4, <1>5, <1>6 DEF InvOf

(* A call that goes on reads the entry of its cursor. *)
LEMMA ContinueStep ==
  ASSUME IInv, NEW c \in Caller, Continue(c)
  PROVE  InvOf(c)' /\ container' = container
<1>1. /\ Known(cursor[c]) /\ left'[c] = container[cursor[c].id] /\ container' = container
      /\ UNCHANGED <<content, issued, lost, cursor, args, returned, stable>>
  BY DEF Continue, Resolved, IInv, TypeOK
<1>2. /\ Known(cursor[c])' /\ Ahead(cursor[c])' = container[cursor[c].id]
      /\ Ahead(cursor[c])' = Ahead(cursor[c])
      /\ StartsScan(cursor[c])' <=> StartsScan(cursor[c])
  BY <1>1, NoEntry, SameAhead, AheadOf DEF IInv
<1>3. BehindInv(c)'
  BY <1>1, <1>2 DEF IInv, InvOf, BehindInv
<1>4. FlightInv(c)'
  BY <1>1, <1>2 DEF FlightInv
<1>5. MissedInv(c)' /\ OnceInv(c)'
  BY <1>1, <1>2 DEF IInv, InvOf, MissedInv, OnceInv, Asked
<1> QED BY <1>1, <1>3, <1>4, <1>5 DEF InvOf

(* The scan set out on, and the one taken over. *)
LEMMA NewScanStep ==
  ASSUME IInv, NEW c \in Caller, NEW f \in Filters, NEW from \in {New, Zero},
         NewScan(c, f, from)
  PROVE  InvOf(c)'
<1>1. /\ cursor'[c] = from /\ returned'[c] = [k \in Key |-> 0] /\ stable'[c] = {}
      /\ left'[c] = {}
  BY DEF NewScan, IInv, TypeOK
<1> QED BY <1>1 DEF InvOf, BehindInv, FlightInv, MissedInv, OnceInv

LEMMA TakeOverStep ==
  ASSUME IInv, NEW c \in Caller, NEW d \in Caller, TakeOver(c, d)
  PROVE  InvOf(c)'
<1>1. /\ cursor'[c] = cursor[d] /\ args'[c] = args[d] /\ returned'[c] = returned[d]
      /\ stable'[c] = stable[d] /\ left'[c] = {}
      /\ UNCHANGED <<content, container, issued, lost>>
      /\ cursor'[d] = cursor[d]
  BY DEF TakeOver, IInv, TypeOK
<1>2. /\ Known(cursor[d])' <=> Known(cursor[d])
      /\ Ahead(cursor[d])' = Ahead(cursor[d])
      /\ StartsScan(cursor[d])' <=> StartsScan(cursor[d])
  BY <1>1, NoEntry, SameAhead DEF IInv
<1>3. /\ Known(cursor[c])' <=> Known(cursor[d])
      /\ Ahead(cursor[c])' = Ahead(cursor[d])
      /\ StartsScan(cursor[c])' <=> StartsScan(cursor[d])
  BY <1>1, <1>2 DEF Known, Ahead, StartsScan, is_finished
<1>4. InvOf(d)
  BY DEF IInv
<1>5. BehindInv(c)'
  BY <1>1, <1>3, <1>4 DEF InvOf, BehindInv
<1>6. FlightInv(c)'
  BY <1>1 DEF FlightInv
<1>7. MissedInv(c)' /\ OnceInv(c)'
  BY <1>1, <1>3, <1>4 DEF InvOf, MissedInv, OnceInv, Asked
<1> QED BY <1>5, <1>6, <1>7 DEF InvOf

(* A reply returns what was asked for in the slots done, all of which lay  *)
(* ahead of the cursor, and moves the cursor past them.                    *)
LEMMA ReplyStep ==
  ASSUME IInv, TypeOK', NEW c \in Caller, Reply(c)
  PROVE  InvOf(c)'
<1>1. PICK done \in SUBSET left[c] :
        /\ Scanned(c, done)
        /\ \E v \in KeysValue(Found(c, done)) :
             returned' = [returned EXCEPT ![c] =
                            [k \in Key |-> IF k \in decode_keys(v) THEN @[k] + 1 ELSE @[k]]]
        /\ cursor' = [cursor EXCEPT ![c] = IF done = left[c] THEN FINISHED ELSE Id(issued')]
        /\ left' = [left EXCEPT ![c] = {}]
        /\ UNCHANGED <<content, lost, args, stable>>
  BY DEF Reply
<1>2. /\ done # {} /\ cursor'[c] = (IF done = left[c] THEN FINISHED ELSE Id(issued'))
      /\ left'[c] = {} /\ args'[c] = args[c] /\ stable'[c] = stable[c]
  BY <1>1 DEF Scanned, IInv, TypeOK
<1>3. returned'[c] = [k \in Key |-> IF k \in Found(c, done) THEN returned[c][k] + 1
                                                             ELSE returned[c][k]]
  <2>1. PICK v \in KeysValue(Found(c, done)) :
          returned' = [returned EXCEPT ![c] =
                         [k \in Key |-> IF k \in decode_keys(v) THEN @[k] + 1 ELSE @[k]]]
    BY <1>1
  <2>2. decode_keys(v) = Found(c, done)
    BY KeysDecode
  <2> QED BY <2>1, <2>2 DEF IInv, TypeOK
<1>4. /\ left[c] = Ahead(cursor[c]) /\ left[c] # {}
      /\ StartsScan(cursor[c]) \/ Known(cursor[c])
  BY <1>1, <1>2 DEF IInv, InvOf, FlightInv
<1>5. returned[c] \in [Key -> Nat] /\ Asked(args[c])' = Asked(args[c])
  BY <1>2 DEF IInv, TypeOK, Asked
<1>6. \A k \in Key : k \in Found(c, done) <=>
        k \in content /\ SlotOf[k] \in done /\ k \in Asked(args[c])
  BY DEF Found, ClusterScanArgs, Asked
<1>7. \A k \in Key : SlotOf[k] \in left[c] => returned[c][k] = 0
  BY <1>4, <1>5 DEF IInv, InvOf, BehindInv
<1>8. \A k \in Key : /\ k \in Found(c, done) => returned[c][k] = 0 /\ returned'[c][k] = 1
                     /\ k \notin Found(c, done) => returned'[c][k] = returned[c][k]
  BY <1>1, <1>3, <1>5, <1>6, <1>7
<1>9. OnceInv(c)'
  BY <1>5, <1>6, <1>8 DEF IInv, InvOf, OnceInv
<1>10. FlightInv(c)'
  BY <1>2 DEF FlightInv
<1>11. ASSUME NEW k \in stable[c] \cap Asked(args[c])
       PROVE  returned'[c][k] > 0 \/ SlotOf[k] \in left[c] \ done
  <2>1. k \in Key /\ k \in content
    BY DEF IInv, InvOf, MissedInv, TypeOK
  <2>2. returned[c][k] > 0 \/ SlotOf[k] \in left[c]
    BY <1>4 DEF IInv, InvOf, MissedInv
  <2>3. CASE SlotOf[k] \in done
    BY <1>6, <1>8, <2>1, <2>3
  <2>4. CASE SlotOf[k] \notin done
    <3>1. returned'[c][k] = returned[c][k]
      BY <1>6, <1>8, <2>1, <2>4
    <3> QED BY <2>2, <2>4, <3>1
  <2> QED BY <2>3, <2>4
<1>12. CASE done = left[c]
  <2>1. cursor'[c] = FINISHED
    BY <1>2, <1>12
  <2>2. is_finished(cursor[c])' /\ ~StartsScan(cursor[c])' /\ ~Known(cursor[c])'
    <3>1. FINISHED # New /\ FINISHED # Zero /\ FINISHED.id = 0
      BY DEF FINISHED, New, Zero
    <3>2. 0 \notin DOMAIN container'
      BY DEF TypeOK
    <3> QED BY <2>1, <3>1, <3>2 DEF is_finished, StartsScan, Known
  <2>3. BehindInv(c)'
    BY <2>2 DEF BehindInv
  <2>4. MissedInv(c)'
    BY <1>1, <1>2, <1>5, <1>11, <1>12 DEF MissedInv, IInv, InvOf
  <2> QED BY <1>9, <1>10, <2>3, <2>4 DEF InvOf
<1>13. CASE done # left[c]
  <2>1. /\ cursor'[c] = Id(issued') /\ Id(issued').id = issued'
        /\ issued' \in DOMAIN container' /\ container'[issued'] = left[c] \ done
        /\ issued' \in 1..MaxIds
    BY <1>1, <1>2, <1>13, ScannedFacts DEF IInv, Id
  <2>2. Known(cursor[c])' /\ cursor'[c].id = issued'
    BY <2>1 DEF Known
  <2>3. ~StartsScan(cursor[c])' /\ ~is_finished(cursor[c])'
    <3>1. New.id = 0 /\ Zero.id = 0 /\ FINISHED.id = 0 /\ issued' # 0
      BY <2>1, ClusterScanAssumption DEF New, Zero, FINISHED
    <3> QED BY <2>2, <3>1 DEF StartsScan, is_finished
  <2>4. Ahead(cursor[c])' = left[c] \ done
    BY <2>1, <2>2, <2>3 DEF Ahead
  <2>5. BehindInv(c)'
    <3>1. ASSUME NEW k \in Key, returned'[c][k] > 0 PROVE SlotOf[k] \notin left[c] \ done
      <4>1. CASE k \in Found(c, done)
        BY <1>6, <4>1
      <4>2. CASE k \notin Found(c, done)
        <5>1. returned[c][k] > 0
          BY <1>8, <3>1, <4>2
        <5>2. returned[c][k] # 0
          BY <1>5, <5>1
        <5> QED BY <1>7, <5>2
      <4> QED BY <4>1, <4>2
    <3> QED BY <2>3, <2>4, <3>1 DEF BehindInv
  <2>6. MissedInv(c)'
    BY <1>1, <1>2, <1>5, <1>11, <2>4 DEF MissedInv, IInv, InvOf
  <2> QED BY <1>9, <1>10, <2>5, <2>6 DEF InvOf
<1> QED BY <1>12, <1>13
-----------------------------------------------------------------------------
(* Cursors stay cursors when the core hands out more ids. *)
LEMMA CursorsGrow ==
  ASSUME TypeOK, issued' \in 0..MaxIds, issued <= issued'
  PROVE  /\ Cursors \subseteq Cursors' /\ {New, Zero, FINISHED} \subseteq Cursors'
         /\ issued' # 0 => Id(issued') \in Cursors'
<1>1. issued \in Nat /\ issued' \in Nat
  BY ClusterScanAssumption DEF TypeOK
<1>2. 1..issued \subseteq 1..issued' /\ (issued' # 0 => issued' \in 1..issued')
  BY <1>1
<1> QED BY <1>2 DEF Cursors, Id, New, Zero, FINISHED

(* Every step keeps the types. *)
LEMMA TypeStep ==
  ASSUME IInv, [Next]_vars
  PROVE  TypeOK'
<1>1. TypeOK /\ issued \in 0..MaxIds /\ issued \in Nat
  BY ClusterScanAssumption DEF IInv, TypeOK
<1> USE DEF callVars
<1>2. ASSUME NEW k \in Key, Add(k) \/ Remove(k) PROVE TypeOK'
  BY <1>1, <1>2 DEF TypeOK, Add, Remove, Cursors, Id
<1>3. ASSUME NEW c \in Caller, NEW f \in Filters, NEW from \in {New, Zero},
             NewScan(c, f, from)
      PROVE  TypeOK'
  <2>1. from \in Cursors /\ Cursors' = Cursors
    BY <1>3 DEF NewScan, Cursors, Id
  <2>2. [k \in Key |-> 0] \in [Key -> Nat]
    OBVIOUS
  <2> QED BY <1>1, <1>3, <2>1, <2>2 DEF TypeOK, NewScan
<1>4. ASSUME NEW c \in Caller, NEW d \in Caller, TakeOver(c, d) PROVE TypeOK'
  BY <1>1, <1>4 DEF TypeOK, TakeOver, Cursors, Id
<1>5. ASSUME NEW c \in Caller, Start(c) PROVE TypeOK'
  BY <1>1, <1>5 DEF TypeOK, Start, Cursors, Id
<1>6. ASSUME NEW c \in Caller, Continue(c) PROVE TypeOK'
  <2>1. container[cursor[c].id] \in SUBSET Slot /\ container' = container
    BY <1>1, <1>6 DEF TypeOK, Continue, Known, Resolved
  <2> QED BY <1>1, <1>6, <2>1 DEF TypeOK, Continue, Resolved, Cursors, Id
<1>7. ASSUME NEW c \in Caller, Reply(c) PROVE TypeOK'
  <2>1. PICK done \in SUBSET left[c] :
          /\ Scanned(c, done)
          /\ \E v \in KeysValue(Found(c, done)) :
               returned' = [returned EXCEPT ![c] =
                              [k \in Key |-> IF k \in decode_keys(v) THEN @[k] + 1 ELSE @[k]]]
          /\ cursor' = [cursor EXCEPT ![c] = IF done = left[c] THEN FINISHED
                                                               ELSE Id(issued')]
          /\ left' = [left EXCEPT ![c] = {}]
          /\ UNCHANGED <<content, lost, args, stable>>
    BY <1>7 DEF Reply
  <2>2. /\ issued' \in 0..MaxIds /\ issued <= issued'
        /\ DOMAIN container' \subseteq 1..issued'
        /\ \A n \in DOMAIN container' : container'[n] \in SUBSET Slot
        /\ done # left[c] => issued' \in 1..MaxIds
    BY <1>1, <2>1, ScannedFacts
  <2>3. (IF done = left[c] THEN FINISHED ELSE Id(issued')) \in Cursors'
    BY <1>1, <2>2, CursorsGrow
  <2>4. cursor' \in [Caller -> Cursors']
    BY <1>1, <2>1, <2>2, <2>3, CursorsGrow DEF TypeOK
  <2>5. returned' \in [Caller -> [Key -> Nat]]
    <3>1. PICK v \in KeysValue(Found(c, done)) :
            returned' = [returned EXCEPT ![c] =
                           [k \in Key |-> IF k \in decode_keys(v) THEN @[k] + 1 ELSE @[k]]]
      BY <2>1
    <3>2. [k \in Key |-> IF k \in decode_keys(v) THEN returned[c][k] + 1
                                                 ELSE returned[c][k]] \in [Key -> Nat]
      BY <1>1 DEF TypeOK
    <3> QED BY <1>1, <3>1, <3>2 DEF TypeOK
  <2>6. lost' \subseteq 1..issued'
    BY <1>1, <2>1, <2>2 DEF TypeOK
  <2> QED BY <1>1, <2>1, <2>2, <2>4, <2>5, <2>6 DEF TypeOK
<1>8. ASSUME NEW c \in Caller, Fails(c) PROVE TypeOK'
  <2>1. CASE UNCHANGED <<container, issued>>
    BY <1>1, <1>8, <2>1 DEF TypeOK, Fails, Cursors, Id
  <2>2. ASSUME NEW done \in SUBSET left[c], Scanned(c, done) PROVE TypeOK'
    <3>1. /\ issued' \in 0..MaxIds /\ issued <= issued'
          /\ DOMAIN container' \subseteq 1..issued'
          /\ \A n \in DOMAIN container' : container'[n] \in SUBSET Slot
      BY <1>1, <2>2, ScannedFacts
    <3>2. cursor' \in [Caller -> Cursors']
      BY <1>1, <1>8, <3>1, CursorsGrow DEF TypeOK, Fails
    <3>3. lost' \subseteq 1..issued'
      BY <1>1, <1>8, <3>1 DEF TypeOK, Fails
    <3> QED BY <1>1, <1>8, <3>1, <3>2, <3>3 DEF TypeOK, Fails
  <2> QED BY <1>8, <2>1, <2>2 DEF Fails
<1>9. CASE Restart
  <2>1. DOMAIN container' = {} /\ Cursors' = Cursors
    BY <1>9 DEF Restart, Cursors, Id
  <2> QED BY <1>1, <1>9, <2>1 DEF TypeOK, Restart
<1>10. ASSUME UNCHANGED vars \/ \E c \in Caller : Unknown(c) PROVE TypeOK'
  BY <1>1, <1>10 DEF TypeOK, Unknown, vars, Cursors, Id
<1> QED BY <1>2, <1>3, <1>4, <1>5, <1>6, <1>7, <1>8, <1>9, <1>10 DEF Next

(* A restart forgets the container; a cursor it leaves behind is unknown. *)
LEMMA RestartStep ==
  ASSUME IInv, TypeOK', NEW c \in Caller, Restart
  PROVE  InvOf(c)'
<1>1. /\ cursor'[c] = cursor[c] /\ args'[c] = args[c] /\ returned'[c] = returned[c]
      /\ stable'[c] = stable[c] /\ left'[c] = {} /\ content' = content
      /\ DOMAIN container' = {}
  BY DEF Restart
<1>2. /\ ~Known(cursor[c])'
      /\ StartsScan(cursor[c])' <=> StartsScan(cursor[c])
      /\ is_finished(cursor[c])' <=> is_finished(cursor[c])
  BY <1>1 DEF Known, StartsScan, is_finished
<1>3. Ahead(cursor[c])' = IF is_finished(cursor[c]) THEN {} ELSE Slot
  BY <1>1, <1>2, AheadOf DEF Ahead
<1>4. BehindInv(c)'
  BY <1>1, <1>2 DEF IInv, InvOf, BehindInv
<1>5. FlightInv(c)'
  BY <1>1 DEF FlightInv
<1>6. MissedInv(c)'
  <2>1. MissedInv(c) /\ stable[c] \subseteq Key
    BY DEF IInv, InvOf, TypeOK
  <2>2. is_finished(cursor[c]) => Ahead(cursor[c]) = {}
    BY AheadOf DEF IInv
  <2>3. \A k \in Key : SlotOf[k] \in Slot
    BY ClusterScanAssumption
  <2> QED BY <1>1, <1>3, <2>1, <2>2, <2>3 DEF MissedInv, Asked
<1>7. OnceInv(c)'
  BY <1>1 DEF IInv, InvOf, OnceInv, Asked
<1> QED BY <1>4, <1>5, <1>6, <1>7 DEF InvOf

(* A step of one caller leaves the others their cursors. *)
CallerStep(c) ==
  \/ \E f \in Filters, from \in {New, Zero} : NewScan(c, f, from)
  \/ \E d \in Caller : TakeOver(c, d)
  \/ Start(c) \/ Continue(c) \/ Reply(c) \/ Fails(c)

LEMMA OneCallerStep ==
  ASSUME IInv, TypeOK', NEW c \in Caller, CallerStep(c)
  PROVE  (\A d \in Caller : InvOf(d)') /\ EntriesKept
<1>1. content' = content /\ lost' = lost
  BY DEF CallerStep, NewScan, TakeOver, Start, Continue, Reply, Fails
<1>2. EntriesKept
  <2>1. CASE container' = container
    BY <2>1, NoEntry DEF IInv
  <2>2. CASE container' # container
    <3>1. PICK done \in SUBSET left[c] : Scanned(c, done)
      BY <2>2, ContinueStep DEF CallerStep, NewScan, TakeOver, Start, Reply, Fails
    <3> QED BY <3>1, ScannedFacts DEF IInv
  <2> QED BY <2>1, <2>2
<1>3. ASSUME NEW d \in Caller, d # c PROVE InvOf(d)'
  <2>1. /\ cursor'[d] = cursor[d] /\ args'[d] = args[d] /\ returned'[d] = returned[d]
        /\ left'[d] = left[d] /\ stable'[d] = stable[d]
    <3> USE DEF IInv, TypeOK
    <3>1. CASE \E f \in Filters, from \in {New, Zero} : NewScan(c, f, from)
      BY <1>3, <3>1 DEF NewScan
    <3>2. CASE \E e \in Caller : TakeOver(c, e)
      BY <1>3, <3>2 DEF TakeOver
    <3>3. CASE Start(c)
      BY <1>3, <3>3 DEF Start
    <3>4. CASE Continue(c)
      BY <1>3, <3>4 DEF Continue
    <3>5. CASE Reply(c)
      BY <1>3, <3>5 DEF Reply
    <3>6. CASE Fails(c)
      BY <1>3, <3>6 DEF Fails
    <3> QED BY <3>1, <3>2, <3>3, <3>4, <3>5, <3>6 DEF CallerStep
  <2>2. stable[d] \subseteq content
    BY DEF IInv, InvOf, MissedInv
  <2> QED BY <1>1, <1>2, <2>1, <2>2, SameCursor
<1>4. CASE Fails(c)
  <2>1. /\ cursor'[c] = cursor[c] /\ args'[c] = args[c] /\ returned'[c] = returned[c]
        /\ left'[c] = {} /\ stable'[c] = stable[c]
    BY <1>4 DEF Fails, IInv, TypeOK
  <2>2. stable[c] \subseteq content
    BY DEF IInv, InvOf, MissedInv
  <2>3. InvOf(c)'
    BY <1>1, <1>2, <2>1, <2>2, SameCursor
  <2> QED BY <1>2, <1>3, <2>3
<1>5. CASE ~Fails(c)
  <2>1. InvOf(c)'
    BY <1>5, NewScanStep, TakeOverStep, StartStep, ContinueStep, ReplyStep DEF CallerStep
  <2> QED BY <1>2, <1>3, <2>1
<1> QED BY <1>4, <1>5

(***************************************************************************)
(* A cursor that a caller holds is known, or of an earlier process: an     *)
(* entry is only ever added, and the process takes all with it when it     *)
(* ends.                                                                   *)
(***************************************************************************)
LEMMA ValidStep ==
  ASSUME IInv, TypeOK', [Next]_vars
  PROVE  CursorStaysValid'
<1> SUFFICES ASSUME NEW c \in Caller, cursor'[c].id # 0
             PROVE  cursor'[c].id \in DOMAIN container' \/ cursor'[c].id \in lost'
  BY DEF CursorStaysValid, Known
<1>1. \A d \in Caller : cursor[d].id # 0 =>
        cursor[d].id \in DOMAIN container \/ cursor[d].id \in lost
  BY DEF IInv, CursorStaysValid, Known
<1>2. CASE Restart
  BY <1>1, <1>2 DEF Restart
<1>3. ASSUME NEW e \in Caller, CallerStep(e)
      PROVE  cursor'[c].id \in DOMAIN container' \/ cursor'[c].id \in lost'
  <2>1. lost' = lost /\ DOMAIN container \subseteq DOMAIN container'
    <3>1. EntriesKept
      BY <1>3, OneCallerStep
    <3> QED BY <1>3, <3>1
      DEF EntriesKept, CallerStep, NewScan, TakeOver, Start, Continue, Reply, Fails
  <2>2. ASSUME NEW d \in Caller, cursor'[c] = cursor[d]
        PROVE  cursor'[c].id \in DOMAIN container' \/ cursor'[c].id \in lost'
    BY <1>1, <2>1, <2>2
  <2>3. CASE \E f \in Filters, from \in {New, Zero} : NewScan(e, f, from)
    <3>1. cursor'[c] \in {New, Zero, cursor[c]}
      BY <2>3 DEF NewScan, IInv, TypeOK
    <3>2. New.id = 0 /\ Zero.id = 0
      BY DEF New, Zero
    <3> QED BY <2>2, <3>1, <3>2
  <2>4. CASE \E d \in Caller : TakeOver(e, d)
    <3>1. \E d \in Caller : cursor'[c] = cursor[d]
      BY <2>4 DEF TakeOver, IInv, TypeOK
    <3> QED BY <2>2, <3>1
  <2>5. CASE Start(e) \/ Continue(e) \/ Fails(e)
    <3>1. cursor'[c] = cursor[c]
      BY <2>5 DEF Start, Continue, Fails
    <3> QED BY <2>2, <3>1
  <2>6. CASE Reply(e)
    <3>1. PICK done \in SUBSET left[e] :
            /\ Scanned(e, done)
            /\ cursor' = [cursor EXCEPT ![e] = IF done = left[e] THEN FINISHED
                                                                 ELSE Id(issued')]
      BY <2>6 DEF Reply
    <3>2. \/ cursor'[c] = cursor[c] \/ cursor'[c] = FINISHED
          \/ cursor'[c] = Id(issued') /\ done # left[e]
      BY <3>1 DEF IInv, TypeOK
    <3>3. FINISHED.id = 0 /\ Id(issued').id = issued'
      BY DEF FINISHED, Id
    <3>4. done # left[e] => issued' \in DOMAIN container'
      BY <3>1, ScannedFacts DEF IInv
    <3> QED BY <2>2, <3>2, <3>3, <3>4
  <2> QED BY <1>3, <2>3, <2>4, <2>5, <2>6 DEF CallerStep
<1>4. CASE UNCHANGED <<cursor, container, lost>>
  BY <1>1, <1>4
<1> QED BY <1>2, <1>3, <1>4 DEF Next, CallerStep, Add, Remove, Unknown, vars, callVars

(* The conjunction of the above is an inductive invariant. *)
THEOREM Inductive == Spec => []IInv
<1>1. Init => IInv
  <2> SUFFICES ASSUME Init PROVE IInv
    OBVIOUS
  <2>1. TypeOK
    <3>1. DOMAIN container = {} /\ issued = 0 /\ 0 \in 0..MaxIds
      BY ClusterScanAssumption DEF Init
    <3>2. FINISHED \in Cursors /\ AllKeys \in Filters
      BY DEF Cursors, AllKeys, Filters
    <3> QED BY <3>1, <3>2 DEF Init, TypeOK
  <2>2. CursorStaysValid
    BY DEF Init, CursorStaysValid, FINISHED
  <2>3. ASSUME NEW c \in Caller PROVE InvOf(c)
    BY DEF Init, InvOf, BehindInv, FlightInv, MissedInv, OnceInv
  <2> QED BY <2>1, <2>2, <2>3 DEF IInv
<1>2. IInv /\ [Next]_vars => IInv'
  <2> SUFFICES ASSUME IInv, [Next]_vars PROVE \A c \in Caller : InvOf(c)'
    BY TypeStep, ValidStep DEF IInv
  <2>1. TypeOK'
    BY TypeStep
  <2>2. ASSUME NEW k \in Key, Add(k) \/ Remove(k) PROVE \A c \in Caller : InvOf(c)'
    <3>1. UNCHANGED <<container, issued, cursor, args, returned, left>>
      BY <2>2 DEF Add, Remove, callVars
    <3>2. \A c \in Caller : stable'[c] \subseteq stable[c] /\ stable'[c] \subseteq content'
      BY <2>2 DEF Add, Remove, callVars, IInv, InvOf, MissedInv
    <3>3. EntriesKept
      BY <3>1, NoEntry DEF IInv
    <3> QED BY <3>1, <3>2, <3>3, SameCursor
  <2>3. ASSUME NEW c \in Caller, CallerStep(c) PROVE \A d \in Caller : InvOf(d)'
    BY <2>1, <2>3, OneCallerStep
  <2>4. CASE Restart
    BY <2>1, <2>4, RestartStep
  <2>5. CASE UNCHANGED vars
    <3>1. UNCHANGED <<container, issued, cursor, args, returned, left, stable, content>>
      BY <2>5 DEF vars, callVars
    <3>2. EntriesKept /\ \A c \in Caller : stable[c] \subseteq content
      BY <3>1, NoEntry DEF IInv, InvOf, MissedInv
    <3> QED BY <3>1, <3>2, SameCursor
  <2> QED BY <2>2, <2>3, <2>4, <2>5 DEF Next, CallerStep, Unknown
<1> QED BY <1>1, <1>2, PTL DEF Spec

(* Every variable keeps its type; an id the core has handed out is not     *)
(* handed out again, not even by a process that is restarted.              *)
THEOREM TypeCorrect == Spec => []TypeOK
<1>1. IInv => TypeOK
  BY DEF IInv
<1> QED BY <1>1, Inductive, PTL

(***************************************************************************)
(* A key that was in the cluster ever since the scan began was returned or *)
(* lies ahead of the cursor, whatever calls failed, were repeated or taken *)
(* over; with a finished cursor, it was returned.                          *)
(***************************************************************************)
THEOREM ScanComplete == Spec => []NothingMissed
<1>1. IInv => NothingMissed
  BY DEF IInv, InvOf, MissedInv, NothingMissed
<1> QED BY <1>1, Inductive, PTL

(***************************************************************************)
(* No key comes twice in a scan, not even after a lost reply, and none     *)
(* that was not asked for.                                                 *)
(***************************************************************************)
THEOREM ScanOnce == Spec => []OnceAndAsked
<1>1. IInv => OnceAndAsked
  BY DEF IInv, InvOf, OnceInv, OnceAndAsked
<1> QED BY <1>1, Inductive, PTL

(* An id a caller holds is known for as long as its process lives. *)
THEOREM CursorsValid == Spec => []CursorStaysValid
<1>1. IInv => CursorStaysValid
  BY DEF IInv
<1> QED BY <1>1, Inductive, PTL

(***************************************************************************)
(* A call may be repeated with the cursor it was given: no step changes    *)
(* the slots an id stands for, or drops an entry short of a restart.       *)
(***************************************************************************)
THEOREM EntriesAreFixed == Spec => [][EntriesKept \/ Restart]_vars
<1>1. IInv /\ [Next]_vars => [EntriesKept \/ Restart]_vars
  <2> SUFFICES ASSUME IInv, Next, ~Restart PROVE EntriesKept
    BY DEF vars
  <2>1. TypeOK'
    BY TypeStep
  <2>2. ASSUME NEW c \in Caller, CallerStep(c) PROVE EntriesKept
    BY <2>1, <2>2, OneCallerStep
  <2>3. CASE container' = container
    BY <2>3, NoEntry DEF IInv
  <2> QED BY <2>2, <2>3 DEF Next, CallerStep, Add, Remove, Unknown, vars
<1> QED BY <1>1, Inductive, PTL DEF Spec
=============================================================================
