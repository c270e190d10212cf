--------------------------- MODULE ScanIter_proofs ---------------------------
(***************************************************************************)
(* Proofs about ScanIter for any items, any buckets, any pattern and any   *)
(* set of items that do not decode.                                        *)
(***************************************************************************)
EXTENDS ScanIter, SequenceTheorems, TLAPS

LEMMA PairIsSeq ==
  ASSUME NEW S, NEW x \in S, NEW y \in S
  PROVE  <<x, y>> \in Seq(S) /\ Len(<<x, y>>) = 2 /\ <<x, y>>[1] = x
OBVIOUS

(* The shape of a page request. *)
LEMMA CommandWords ==
  ASSUME NEW k \in Kinds, NEW m \in BOOLEAN, NEW c
  PROVE  LET cmd == to_cmd(PageSpec(k, m), c)
             pos == IF k = "SCAN" THEN 2 ELSE 3
         IN /\ Len(cmd) = pos + (IF m THEN 2 ELSE 0)
            /\ cmd[1] = Word(k)
            /\ cmd[pos] = Cursor(c)
<1> DEFINE S == {Word(k), Word("key"), Word("MATCH"), Word("pattern"), Cursor(c)}
           p == PageSpec(k, m).prefix
           q == <<Cursor(c)>>
           r == PageSpec(k, m).suffix
<1>1. /\ p \in Seq(S) /\ p[1] = Word(k)
      /\ Len(p) = IF k = "SCAN" THEN 1 ELSE 2
  <2>1. CASE k = "SCAN"
    <3>1. p = <<Word(k)>>
      BY <2>1 DEF PageSpec
    <3>2. Word(k) \in S
      OBVIOUS
    <3> HIDE DEF p, S
    <3>3. p \in Seq(S) /\ Len(p) = 1 /\ p[1] = Word(k)
      BY <3>1, <3>2
    <3> QED BY <2>1, <3>3
  <2>2. CASE k # "SCAN"
    <3>1. p = <<Word(k), Word("key")>>
      BY <2>2 DEF PageSpec
    <3>2. Word(k) \in S /\ Word("key") \in S
      OBVIOUS
    <3> HIDE DEF p, S
    <3>3. p \in Seq(S) /\ Len(p) = 2 /\ p[1] = Word(k)
      BY <3>1, <3>2, PairIsSeq
    <3> QED BY <2>2, <3>3
  <2> QED BY <2>1, <2>2
<1>2. q \in Seq(S) /\ Len(q) = 1 /\ q[1] = Cursor(c)
  OBVIOUS
<1>3. r \in Seq(S) /\ Len(r) = IF m THEN 2 ELSE 0
  <2>1. CASE m
    <3>1. r = <<Word("MATCH"), Word("pattern")>>
      BY <2>1 DEF PageSpec
    <3> HIDE DEF r
    <3> QED BY <2>1, <3>1, PairIsSeq
  <2>2. CASE ~m
    <3>1. r = <<>>
      BY <2>2 DEF PageSpec
    <3> QED BY <2>2, <3>1
  <2> QED BY <2>1, <2>2
<1> HIDE DEF S, p, q, r
<1>4. /\ p \o q \in Seq(S) /\ Len(p \o q) = Len(p) + Len(q)
      /\ \A i \in 1..Len(p) + Len(q) :
           (p \o q)[i] = IF i <= Len(p) THEN p[i] ELSE q[i - Len(p)]
  BY <1>1, <1>2, ConcatProperties, Zenon
<1>5. /\ Len((p \o q) \o r) = Len(p \o q) + Len(r)
      /\ \A i \in 1..Len(p \o q) + Len(r) :
           ((p \o q) \o r)[i] = IF i <= Len(p \o q) THEN (p \o q)[i]
                                ELSE r[i - Len(p \o q)]
  <2> DEFINE u == p \o q
  <2>1. u \in Seq(S) /\ r \in Seq(S)
    BY <1>3, <1>4
  <2> HIDE DEF u
  <2>2. /\ Len(u \o r) = Len(u) + Len(r)
        /\ \A i \in 1..Len(u) + Len(r) :
             (u \o r)[i] = IF i <= Len(u) THEN u[i] ELSE r[i - Len(u)]
    BY <2>1, ConcatProperties, Zenon
  <2> QED BY <2>2, Zenon DEF u
<1>6. to_cmd(PageSpec(k, m), c) = (p \o q) \o r
  BY DEF to_cmd, p, q, r
<1>7. Len(p) \in {1, 2} /\ Len(r) \in {0, 2}
  BY <1>1, <1>3
<1>8. (p \o q)[1] = Word(k) /\ (p \o q)[Len(p) + 1] = Cursor(c)
  BY <1>1, <1>2, <1>4, <1>7
<1>9. ((p \o q) \o r)[1] = Word(k) /\ ((p \o q) \o r)[Len(p) + 1] = Cursor(c)
  BY <1>2, <1>4, <1>5, <1>7, <1>8
<1> QED BY <1>1, <1>2, <1>3, <1>4, <1>5, <1>6, <1>9

(* What a page request asks for: the words say it and nothing else fits. *)
LEMMA RequestIsRead ==
  ASSUME NEW s \in PageSpecs, NEW c, NEW kind \in Kinds, NEW match \in BOOLEAN,
         NEW d, Accepts(to_cmd(s, c), kind, match, d)
  PROVE  d = c /\ (match <=> s.suffix # <<>>)
<1>1. PICK k \in Kinds, m \in BOOLEAN : s = PageSpec(k, m)
  BY DEF PageSpecs
<1>2. kind = k
  <2>1. Word(kind) = Word(k)
    BY <1>1, CommandWords DEF Accepts
  <2> QED BY <2>1 DEF Word
<1>3. Cursor(d) = Cursor(c)
  BY <1>1, <1>2, CommandWords DEF Accepts
<1>4. match <=> m
  <2>1. Len(to_cmd(s, c)) = (IF k = "SCAN" THEN 2 ELSE 3) + (IF m THEN 2 ELSE 0)
    BY <1>1, CommandWords
  <2>2. Len(to_cmd(s, c)) = (IF k = "SCAN" THEN 2 ELSE 3) + (IF match THEN 2 ELSE 0)
    BY <1>2 DEF Accepts
  <2> QED BY <2>1, <2>2
<1>5. m <=> s.suffix # <<>>
  BY <1>1 DEF PageSpec
<1> QED BY <1>3, <1>4, <1>5 DEF Cursor
-----------------------------------------------------------------------------
(* The buckets before the cursor are the ones already visited. *)
Visited(x) == cursor = 0 \/ Bucket[x] < cursor

(***************************************************************************)
(* What NothingMissed and NoRepeat rest on: items returned or in the batch *)
(* lie in visited buckets, stable items are on the server, and a request   *)
(* in flight is for the page at the cursor, with the batch used up.        *)
(***************************************************************************)
Support ==
  /\ \A x \in Item : yielded[x] > 0 \/ x \in batch => Visited(x)
  /\ stable \subseteq content
  /\ pc \in {"none", "starting"} =>
       cursor = 0 /\ batch = {} /\ \A x \in Item : yielded[x] = 0
  /\ pc = "fetching" => cursor # 0 /\ batch = {}
  /\ pc \in {"starting", "fetching"} => request = to_cmd(spec, cursor)

IInv == TypeOK /\ NothingMissed /\ NoRepeat /\ Support

(* A reply to the request in flight is a page at the cursor. *)
LEMMA ReplyIsPage ==
  ASSUME TypeOK, request = to_cmd(spec, cursor),
         NEW items, NEW next, Reply(items, next)
  PROVE  \E w \in 1..Buckets :
           /\ items = {x \in content : /\ Bucket[x] \in cursor .. cursor + w - 1
                                       /\ x \in Wanted}
           /\ next = IF cursor + w < Buckets THEN cursor + w ELSE 0
<1>1. PICK kind \in Kinds, match \in BOOLEAN, c \in 0..Buckets - 1, w \in 1..Buckets :
        /\ Accepts(request, kind, match, c)
        /\ items = PageItems(match, c, w)
        /\ next = PageNext(c, w)
  BY DEF Reply
<1>2. c = cursor /\ (match <=> spec.suffix # <<>>)
  BY <1>1, RequestIsRead DEF TypeOK
<1>3. \A x \in content : (match => x \in Matching) <=> x \in Wanted
  BY <1>2 DEF Wanted, TypeOK
<1> QED
  BY <1>1, <1>2, <1>3 DEF PageItems, PageNext

(* A page that arrives moves the cursor past the buckets it covers. *)
LEMMA PageStep ==
  ASSUME IInv, pc \in {"starting", "fetching"},
         NEW items \in SUBSET content, NEW next \in 0..Buckets - 1,
         Reply(items, next), cursor' = next, batch' = items,
         UNCHANGED <<content, spec, histVars>>
  PROVE  /\ \A x \in stable \cap Wanted :
              yielded[x] > 0 \/ x \in batch' \/ (cursor' # 0 /\ Bucket[x] >= cursor')
         /\ \A x \in batch' : yielded[x] = 0
         /\ \A x \in Item : yielded[x] > 0 \/ x \in batch' => Visited(x)'
<1>0. /\ TypeOK /\ NothingMissed /\ Support /\ request = to_cmd(spec, cursor)
      /\ batch = {}
  BY DEF IInv, Support
<1>1. PICK w \in 1..Buckets :
        /\ items = {x \in content : /\ Bucket[x] \in cursor .. cursor + w - 1
                                    /\ x \in Wanted}
        /\ next = IF cursor + w < Buckets THEN cursor + w ELSE 0
  BY <1>0, ReplyIsPage
<1>2. /\ cursor \in Nat /\ Buckets \in Nat
      /\ \A x \in Item : Bucket[x] \in 0..Buckets - 1
  BY <1>0, ScanAssumption DEF TypeOK
<1>3. content \subseteq Item /\ stable \subseteq content
  BY <1>0 DEF TypeOK, Support
<1>4. \A x \in Item : yielded[x] > 0 => Visited(x)
  BY <1>0 DEF Support
<1>5. pc = "starting" => cursor = 0 /\ \A x \in Item : yielded[x] = 0
  BY <1>0 DEF Support
<1>6. pc = "fetching" => cursor # 0
  BY <1>0 DEF Support
<1>7. \A x \in Item : yielded[x] \in Nat
  BY <1>0 DEF TypeOK
<1>8. ASSUME NEW x \in stable \cap Wanted, ~(yielded[x] > 0)
      PROVE  Bucket[x] >= cursor
  BY <1>0, <1>2, <1>3, <1>5, <1>8 DEF NothingMissed
<1>9. ASSUME NEW x \in Item, Bucket[x] >= cursor PROVE yielded[x] = 0
  BY <1>9, <1>2, <1>4, <1>5, <1>6, <1>7 DEF Visited
<1>10. ASSUME NEW x \in stable \cap Wanted, ~(yielded[x] > 0), x \notin items
       PROVE  next # 0 /\ Bucket[x] >= next
  BY <1>1, <1>2, <1>3, <1>8, <1>10
<1>11. \A x \in items : yielded[x] = 0
  BY <1>1, <1>2, <1>3, <1>9
<1>12. ASSUME NEW x \in Item, yielded[x] > 0 \/ x \in items
       PROVE  next = 0 \/ Bucket[x] < next
  BY <1>1, <1>2, <1>4, <1>5, <1>6, <1>12 DEF Visited
<1> QED
  BY <1>10, <1>11, <1>12 DEF Visited

(* PageSpecs are closed under the constructor; the request follows the page. *)
LEMMA TypeStep ==
  ASSUME IInv, [Next]_vars
  PROVE  TypeOK'
<1> USE DEF iterVars, histVars
<1>0. TypeOK /\ Support
  BY DEF IInv
<1>1. CASE UNCHANGED vars
  BY <1>0, <1>1 DEF TypeOK, vars
<1>2. ASSUME NEW x \in Item, Add(x) \/ Remove(x) PROVE TypeOK'
  BY <1>0, <1>2 DEF TypeOK, Add, Remove
<1>3. ASSUME NEW kind \in Kinds, NEW match \in BOOLEAN, New(kind, match)
      PROVE  TypeOK'
  <2>1. cursor = 0 /\ spec' \in PageSpecs
    BY <1>0, <1>3 DEF New, Support, PageSpecs
  <2> QED BY <1>0, <1>3, <2>1 DEF TypeOK, New
<1>4. CASE NewOk
  BY <1>0, <1>4 DEF TypeOK, NewOk
<1>5. CASE PageOk
  BY <1>0, <1>5 DEF TypeOK, PageOk
<1>6. CASE NewFails \/ PageFails \/ Cancel
  BY <1>0, <1>6 DEF TypeOK, NewFails, PageFails, Cancel
<1>7. CASE Call \/ ReturnNone \/ Fetch
  BY <1>0, <1>7 DEF TypeOK, Call, ReturnNone, Fetch
<1>8. ASSUME NEW x \in Item, ReturnItem(x) PROVE TypeOK'
  BY <1>0, <1>8 DEF TypeOK, ReturnItem
<1> QED
  BY <1>1, <1>2, <1>3, <1>4, <1>5, <1>6, <1>7, <1>8 DEF Next, Step

(* Changes of the collection by others. *)
LEMMA OthersStep ==
  ASSUME IInv, NEW x \in Item, Add(x) \/ Remove(x)
  PROVE  NothingMissed' /\ NoRepeat' /\ Support'
<1> USE DEF iterVars, histVars
<1>1. stable' \subseteq stable /\ stable' \subseteq content'
  BY DEF Add, Remove, IInv, Support, TypeOK
<1>2. UNCHANGED <<spec, cursor, batch, pc, request, yielded>>
  BY DEF Add, Remove
<1> QED
  BY <1>1, <1>2 DEF IInv, NothingMissed, NoRepeat, Support, Visited, Wanted

LEMMA InvStep ==
  ASSUME IInv, [Next]_vars
  PROVE  NothingMissed' /\ NoRepeat' /\ Support'
<1> USE DEF iterVars, histVars
<1>0. TypeOK /\ NothingMissed /\ NoRepeat /\ Support
  BY DEF IInv
<1>1. CASE UNCHANGED vars
  BY <1>0, <1>1 DEF vars, NothingMissed, NoRepeat, Support, Visited, Wanted
<1>2. ASSUME NEW kind \in Kinds, NEW match \in BOOLEAN, New(kind, match)
      PROVE  NothingMissed' /\ NoRepeat' /\ Support'
  BY <1>0, <1>2 DEF New, NothingMissed, NoRepeat, Support, Visited
<1>3. CASE NewOk \/ PageOk
  <2>1. PICK items \in SUBSET content, next \in 0..Buckets - 1 :
          /\ Reply(items, next) /\ cursor' = next /\ batch' = items
    BY <1>3 DEF NewOk, PageOk
  <2>2. /\ pc \in {"starting", "fetching"} /\ pc' \in {"ready", "looping"}
        /\ UNCHANGED <<content, spec, yielded, stable, ended>>
    BY <1>3 DEF NewOk, PageOk
  <2>3. /\ \A x \in stable \cap Wanted :
             yielded[x] > 0 \/ x \in batch' \/ (cursor' # 0 /\ Bucket[x] >= cursor')
        /\ \A x \in batch' : yielded[x] = 0
        /\ \A x \in Item : yielded[x] > 0 \/ x \in batch' => Visited(x)'
    BY <2>1, <2>2, PageStep
  <2>4. NothingMissed'
    BY <2>2, <2>3 DEF NothingMissed, Wanted
  <2>5. NoRepeat'
    BY <1>0, <2>2, <2>3 DEF NoRepeat
  <2>6. Support'
    BY <1>0, <2>2, <2>3 DEF Support
  <2> QED BY <2>4, <2>5, <2>6
<1>4. CASE NewFails \/ PageFails \/ Cancel
  BY <1>0, <1>4 DEF NewFails, PageFails, Cancel, NothingMissed, NoRepeat, Support,
                    Visited, Wanted
<1>5. CASE Call \/ ReturnNone \/ Fetch
  BY <1>0, <1>5 DEF Call, ReturnNone, Fetch, NothingMissed, NoRepeat, Support,
                    Visited, Wanted
<1>6. ASSUME NEW x \in Item, ReturnItem(x)
      PROVE  NothingMissed' /\ NoRepeat' /\ Support'
  <2>1. /\ x \in batch /\ batch' = batch \ {x} /\ yielded[x] = 0 /\ yielded'[x] = 1
        /\ \A y \in Item : y # x => yielded'[y] = yielded[y]
        /\ UNCHANGED <<content, spec, cursor, request, stable>>
        /\ pc = "looping" /\ pc' = "ready"
    BY <1>0, <1>6 DEF ReturnItem, NoRepeat, TypeOK
  <2>2. NothingMissed'
    BY <1>0, <2>1 DEF NothingMissed, Wanted, TypeOK
  <2>3. NoRepeat'
    BY <1>0, <2>1 DEF NoRepeat, TypeOK
  <2>4. Support'
    BY <1>0, <2>1 DEF Support, Visited, TypeOK
  <2> QED BY <2>2, <2>3, <2>4
<1> QED
  BY <1>1, <1>2, <1>3, <1>4, <1>5, <1>6, OthersStep DEF Next, Step

(* The conjunction of the above is an inductive invariant. *)
THEOREM Inductive == Spec => []IInv
<1>1. Init => IInv
  <2> SUFFICES ASSUME Init PROVE IInv
    OBVIOUS
  <2>1. TypeOK
    <3>1. spec \in PageSpecs
      <4>1. \A k \in Kinds, m \in BOOLEAN : PageSpec(k, m) \in PageSpecs
        BY DEF PageSpecs
      <4>2. "SCAN" \in Kinds
        BY DEF Kinds
      <4>3. PageSpec("SCAN", FALSE) \in PageSpecs
        BY <4>1, <4>2, Zenon
      <4> QED BY <4>3 DEF Init
    <3>2. 0 \in 0..Buckets - 1
      BY ScanAssumption
    <3> QED BY <3>1, <3>2 DEF Init, TypeOK
  <2>2. NothingMissed /\ NoRepeat
    BY DEF Init, NothingMissed, NoRepeat
  <2>3. Support
    BY DEF Init, Support
  <2> QED BY <2>1, <2>2, <2>3 DEF IInv
<1>2. IInv /\ [Next]_vars => IInv'
  BY TypeStep, InvStep DEF IInv
<1> QED BY <1>1, <1>2, PTL DEF Spec

(* Every variable of the iterator keeps its type. *)
THEOREM TypeCorrect == Spec => []TypeOK
<1>1. IInv => TypeOK
  BY DEF IInv
<1> QED BY <1>1, Inductive, PTL

(***************************************************************************)
(* No item present throughout is missed, whatever pages fail or are        *)
(* dropped and whatever other clients add or remove meanwhile.             *)
(***************************************************************************)
THEOREM ScanComplete == Spec => []NothingMissed
<1>1. IInv => NothingMissed
  BY DEF IInv
<1> QED BY <1>1, Inductive, PTL

(* No item is returned twice while the table keeps its buckets. *)
THEOREM ScanOnce == Spec => []NoRepeat
<1>1. IInv => NoRepeat
  BY DEF IInv
<1> QED BY <1>1, Inductive, PTL
=============================================================================
