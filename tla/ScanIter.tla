------------------------------ MODULE ScanIter ------------------------------
(***************************************************************************)
(* The cursor-driven scan iterators (commands/scan.rs and the scan*        *)
(* constructors of commands/core.rs) against a collection that other       *)
(* clients change between the pages.                                       *)
(*                                                                         *)
(* The server is modelled from what SCAN replies mean to the iterator: the *)
(* items sit in buckets 0 .. Buckets-1, a page covers one or more buckets  *)
(* from the cursor on and returns the items that match, in no particular   *)
(* order, with the next cursor, or 0 after the last bucket.  The async and *)
(* the blocking iterator have the same loop; only the async one can be     *)
(* dropped while a page is in flight.                                      *)
(***************************************************************************)
EXTENDS Integers, Sequences

CONSTANTS Item,         \* what the collection may hold
          Buckets,      \* number of buckets
          Bucket,       \* the bucket of each item
          Matching,     \* the items the MATCH pattern admits
          Undecodable   \* the items that do not convert to the caller's type

ASSUME ScanAssumption ==
  /\ Buckets \in Nat \ {0}
  /\ Bucket \in [Item -> 0..Buckets - 1]
  /\ Matching \subseteq Item
  /\ Undecodable \subseteq Item

VARIABLES
  content,    \* the collection, on the server
  spec,       \* PageSpec: the words before and after the cursor
  cursor,     \* the cursor of the next page, 0 when there is none
  batch,      \* the items of the current page not yet returned
  pc,         \* where the caller is
  request,    \* the page request in flight
  yielded,    \* history: how often each item was returned
  stable,     \* history: the items present ever since the iteration began
  ended       \* history: next_item has returned None

iterVars == <<spec, cursor, batch>>
histVars == <<yielded, stable, ended>>
vars == <<content, iterVars, pc, request, histVars>>

Kinds == {"SCAN", "HSCAN", "SSCAN", "ZSCAN"}
-----------------------------------------------------------------------------
(***************************************************************************)
(* The command words: scan and scan_match have no key, the others one; the *)
(* *_match variants add MATCH pattern.  A word is a tagged record.         *)
(***************************************************************************)
Word(w)   == [word |-> w]
Cursor(c) == [cursor |-> c]

PageSpec(kind, match) ==
  [prefix |-> IF kind = "SCAN" THEN <<Word(kind)>> ELSE <<Word(kind), Word("key")>>,
   suffix |-> IF match THEN <<Word("MATCH"), Word("pattern")>> ELSE <<>>]

to_cmd(s, c) == s.prefix \o <<Cursor(c)>> \o s.suffix

PageSpecs == {PageSpec(k, m) : k \in Kinds, m \in BOOLEAN}

(* The server accepts KIND [key] cursor [MATCH pattern] and nothing else. *)
Accepts(cmd, kind, match, c) ==
  LET pos == IF kind = "SCAN" THEN 2 ELSE 3
  IN /\ Len(cmd) = pos + (IF match THEN 2 ELSE 0)
     /\ cmd[1] = Word(kind)
     /\ cmd[pos] = Cursor(c)
     /\ match => cmd[pos + 1] = Word("MATCH")

(* The items on a page of width w from bucket c, and the cursor after it. *)
PageItems(match, c, w) ==
  {x \in content : Bucket[x] \in c .. c + w - 1 /\ (match => x \in Matching)}

PageNext(c, w) == IF c + w < Buckets THEN c + w ELSE 0

(* items and next are a reply the server may give to the request now. *)
Reply(items, next) ==
  \E kind \in Kinds, match \in BOOLEAN, c \in 0..Buckets - 1, w \in 1..Buckets :
    /\ Accepts(request, kind, match, c)
    /\ items = PageItems(match, c, w)
    /\ next = PageNext(c, w)
-----------------------------------------------------------------------------
Init ==
  /\ content \in SUBSET Item
  /\ spec = PageSpec("SCAN", FALSE)
  /\ cursor = 0
  /\ batch = {}
  /\ pc = "none"
  /\ request = <<>>
  /\ yielded = [x \in Item |-> 0]
  /\ stable = {}
  /\ ended = FALSE

(* Other clients change the collection at any time. *)
Add(x) ==
  /\ x \notin content
  /\ content' = content \cup {x}
  /\ UNCHANGED <<iterVars, pc, request, histVars>>

Remove(x) ==
  /\ x \in content
  /\ content' = content \ {x}
  /\ stable' = stable \ {x}
  /\ UNCHANGED <<iterVars, pc, request, yielded, ended>>

(***************************************************************************)
(* ScanIter::new fetches the first page with cursor 0; an error, or an     *)
(* item that does not decode, is reported and leaves no iterator.          *)
(***************************************************************************)
New(kind, match) ==
  /\ pc = "none"
  /\ spec' = PageSpec(kind, match)
  /\ request' = to_cmd(spec', 0)
  /\ stable' = content
  /\ pc' = "starting"
  /\ UNCHANGED <<content, cursor, batch, yielded, ended>>

Decodes(items) == items \cap Undecodable = {}

NewOk == \E items \in SUBSET content, next \in 0..Buckets - 1 :
  /\ pc = "starting"
  /\ Reply(items, next) /\ Decodes(items)
  /\ cursor' = next
  /\ batch' = items
  /\ pc' = "ready"
  /\ request' = <<>>
  /\ UNCHANGED <<content, spec, histVars>>

NewFails ==
  /\ pc = "starting"
  /\ pc' = "none"
  /\ request' = <<>>
  /\ UNCHANGED <<content, iterVars, histVars>>

(* next_item is called. *)
Call ==
  /\ pc = "ready"
  /\ pc' = "looping"
  /\ UNCHANGED <<content, iterVars, request, histVars>>

(* An item is left in the batch: return it. *)
ReturnItem(x) ==
  /\ pc = "looping"
  /\ x \in batch
  /\ batch' = batch \ {x}
  /\ yielded' = [yielded EXCEPT ![x] = @ + 1]
  /\ pc' = "ready"
  /\ UNCHANGED <<content, spec, cursor, request, stable, ended>>

(* The batch is used up and the cursor has wrapped: return None. *)
ReturnNone ==
  /\ pc = "looping"
  /\ batch = {} /\ cursor = 0
  /\ ended' = TRUE
  /\ pc' = "ready"
  /\ UNCHANGED <<content, iterVars, request, yielded, stable>>

(* Mutant of Fetch: every page is requested from the start. *)
FetchFromStart ==
  /\ pc = "looping"
  /\ batch = {} /\ cursor # 0
  /\ request' = to_cmd(spec, 0)
  /\ pc' = "fetching"
  /\ UNCHANGED <<content, iterVars, histVars>>

(* Otherwise the next page is requested. *)
Fetch ==
  /\ pc = "looping"
  /\ batch = {} /\ cursor # 0
  /\ request' = to_cmd(spec, cursor)
  /\ pc' = "fetching"
  /\ UNCHANGED <<content, iterVars, histVars>>

(* Mutants of PageOk: the cursor stays where it was, always or on empty pages. *)
PageOkKeepsCursor == \E items \in SUBSET content, next \in 0..Buckets - 1 :
  /\ pc = "fetching"
  /\ Reply(items, next) /\ Decodes(items)
  /\ batch' = items
  /\ pc' = "looping"
  /\ request' = <<>>
  /\ UNCHANGED <<content, cursor, spec, histVars>>

PageOkStaysIfEmpty == \E items \in SUBSET content, next \in 0..Buckets - 1 :
  /\ pc = "fetching"
  /\ Reply(items, next) /\ Decodes(items)
  /\ cursor' = IF items = {} THEN cursor ELSE next
  /\ batch' = items
  /\ pc' = "looping"
  /\ request' = <<>>
  /\ UNCHANGED <<content, spec, histVars>>

PageOk == \E items \in SUBSET content, next \in 0..Buckets - 1 :
  /\ pc = "fetching"
  /\ Reply(items, next) /\ Decodes(items)
  /\ cursor' = next
  /\ batch' = items
  /\ pc' = "looping"
  /\ request' = <<>>
  /\ UNCHANGED <<content, spec, histVars>>

(* Mutant of PageFails: the cursor is assigned before the items are decoded. *)
PageFailsAdvances == \E items \in SUBSET content, next \in 0..Buckets - 1 :
  /\ pc = "fetching"
  /\ Reply(items, next) /\ ~Decodes(items)
  /\ cursor' = next
  /\ ended' = TRUE
  /\ pc' = "ready"
  /\ request' = <<>>
  /\ UNCHANGED <<content, spec, batch, yielded, stable>>

(* `.ok()?` on the reply or on its decoding: None, with nothing assigned. *)
PageFails ==
  /\ pc = "fetching"
  /\ ended' = TRUE
  /\ pc' = "ready"
  /\ request' = <<>>
  /\ UNCHANGED <<content, iterVars, yielded, stable>>

(* The async caller drops next_item while the page is in flight. *)
Cancel ==
  /\ pc = "fetching"
  /\ pc' = "ready"
  /\ request' = <<>>
  /\ UNCHANGED <<content, iterVars, histVars>>

(* A call's own steps; every request is answered, one way or the other. *)
Step ==
  \/ NewOk \/ NewFails \/ ReturnNone \/ Fetch \/ PageOk \/ PageFails
  \/ \E x \in Item : ReturnItem(x)

Next ==
  \/ \E x \in Item : Add(x) \/ Remove(x)
  \/ \E kind \in Kinds, match \in BOOLEAN : New(kind, match)
  \/ Call
  \/ Step
  \/ Cancel

Spec == Init /\ [][Next]_vars

(* A call that can go on does: the task is polled and requests end. *)
FairSpec == Spec /\ WF_vars(Step)
-----------------------------------------------------------------------------
(* Every variable has its type; a request is in flight only while awaited. *)
TypeOK ==
  /\ content \in SUBSET Item
  /\ spec \in PageSpecs
  /\ cursor \in 0..Buckets - 1
  /\ batch \in SUBSET Item
  /\ pc \in {"none", "starting", "ready", "looping", "fetching"}
  /\ request \in {<<>>, to_cmd(spec, cursor)}
  /\ yielded \in [Item -> Nat]
  /\ stable \in SUBSET Item
  /\ ended \in BOOLEAN

(* The items this iteration is about. *)
Wanted == IF spec.suffix = <<>> THEN Item ELSE Matching

(***************************************************************************)
(* Nothing is missed: an item in the collection ever since the scan* call  *)
(* has been returned, is in the current batch, or lies in a bucket the     *)
(* cursor has yet to reach -- whatever pages failed or were dropped on the *)
(* way (next_item leaves cursor and batch alone then).  In particular when *)
(* the cursor is back at 0 and the batch is used up, all were returned.    *)
(***************************************************************************)
NothingMissed ==
  pc \notin {"none", "starting"} =>
    \A x \in stable \cap Wanted :
      \/ yielded[x] > 0
      \/ x \in batch
      \/ cursor # 0 /\ Bucket[x] >= cursor

(***************************************************************************)
(* On a table that is not rehashed no item is returned twice: a failed or  *)
(* dropped page fetch is repeated from the cursor of that page, after the  *)
(* batch before it was used up.                                            *)
(***************************************************************************)
NoRepeat ==
  /\ \A x \in Item : yielded[x] <= 1
  /\ \A x \in batch : yielded[x] = 0

(***************************************************************************)
(* Every scan* and next_item call ends, even over any run of empty pages   *)
(* (the loop in next_item fetches until an item or the end).               *)
(***************************************************************************)
CallsEnd == pc \in {"starting", "looping", "fetching"} ~> pc \in {"none", "ready"}

(***************************************************************************)
(* "a failure while fetching a later page ends the iteration": once        *)
(* next_item has returned None it returns no item any more.                *)
(***************************************************************************)
NoneIsFinal == [][ended => yielded' = yielded]_vars
=============================================================================
