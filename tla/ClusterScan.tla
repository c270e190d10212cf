---------------------------- MODULE ClusterScan ----------------------------
(***************************************************************************)
(* cluster_scan of GlideClusterClient: callers walk the keyspace of a      *)
(* cluster with opaque cursors.  What a cursor stands for, the slots still *)
(* to be scanned, is kept by glide-core in a container of the whole        *)
(* process; a cursor is only the id of an entry there, and nothing in this *)
(* crate ever removes one.                                                 *)
(*                                                                         *)
(* The core is modelled from how the code uses it: a call covers some of   *)
(* the slots left, answers with the keys found there and with the id of a  *)
(* new entry for the slots that remain, or with "finished".  A slot stands *)
(* for the core's unit of progress.                                        *)
(***************************************************************************)
EXTENDS Naturals, FiniteSets

CONSTANTS Caller,     \* tasks that scan
          Key,        \* what the cluster may hold
          Slot,       \* units of progress
          SlotOf,     \* the slot of each key
          Matching,   \* the keys the MATCH pattern admits
          Typed,      \* the keys of the requested object type
          MaxIds      \* bound on the ids the core hands out

ASSUME ClusterScanAssumption ==
  /\ SlotOf \in [Key -> Slot]
  /\ Matching \subseteq Key
  /\ Typed \subseteq Key
  /\ MaxIds \in Nat

VARIABLES
  content,    \* the keys in the cluster
  container,  \* the core's container: the slots left, for each id
  issued,     \* how many ids the core has handed out
  lost,       \* history: ids of earlier processes
  cursor,     \* the ClusterScanCursor each caller holds
  args,       \* the filter of each caller's scan
  left,       \* the slots left of the call in flight, {} when there is none
  returned,   \* history: how often each key was returned in the present scan
  stable      \* history: the keys present since the present scan began

callVars == <<cursor, args, left, returned, stable>>
vars == <<content, container, issued, lost, callVars>>
-----------------------------------------------------------------------------
(***************************************************************************)
(* ClusterScanCursor is a string: empty when new, "finished" at the end,   *)
(* and otherwise an id, which from_id and id turn into text and back.      *)
(***************************************************************************)
New      == [id |-> 0, text |-> ""]
Zero     == [id |-> 0, text |-> "0"]
FINISHED == [id |-> 0, text |-> "finished"]
Id(n)    == [id |-> n, text |-> "id"]

is_finished(c) == c = FINISHED

Filters == [match_pattern : BOOLEAN, object_type : BOOLEAN]
AllKeys == [match_pattern |-> FALSE, object_type |-> FALSE]

(* What the caller asked for. *)
Asked(f) == {k \in Key : /\ f.match_pattern => k \in Matching
                         /\ f.object_type => k \in Typed}

(* The arguments built from the options; COUNT only sets the page size. *)
ClusterScanArgs(f) == [match_pattern |-> f.match_pattern, object_type |-> f.object_type]

(***************************************************************************)
(* The keys of a reply come as an array; none may come as Nil, and one as  *)
(* a bare value.                                                           *)
(***************************************************************************)
KeysValue(ks) ==
  {[tag |-> "Array", items |-> ks]}
    \cup (IF ks = {} THEN {[tag |-> "Nil", items |-> {}]} ELSE {})
    \cup (IF Cardinality(ks) = 1 THEN {[tag |-> "Other", items |-> ks]} ELSE {})

(* Mutant of decode_keys: only arrays hold keys. *)
decode_keys_array(v) == IF v.tag = "Array" THEN v.items ELSE {}

decode_keys(v) == IF v.tag = "Nil" THEN {} ELSE v.items

(* Mutant of StartsScan: a finished cursor starts over. *)
StartsScanFinished(c) == c.id = 0

(* An empty cursor, or "0", starts a scan. *)
StartsScan(c) == c = New \/ c = Zero

Known(c) == c.id \in DOMAIN container

(* Mutants of Resolved: the lookup takes the entry out of the container; the *)
(* id is taken for the state it names.                                       *)
ResolvedOnce(c) == [slots |-> container[c.id],
                    container |-> [n \in DOMAIN container \ {c.id} |-> container[n]]]

ResolvedItself(c) == [slots |-> {c}, container |-> container]

(* get_cluster_scan_cursor: the entry is read and stays where it is. *)
Resolved(c) == [slots |-> container[c.id], container |-> container]
-----------------------------------------------------------------------------
Init ==
  /\ content \in SUBSET Key
  /\ container = <<>>
  /\ issued = 0
  /\ lost = {}
  /\ cursor = [c \in Caller |-> FINISHED]
  /\ args = [c \in Caller |-> AllKeys]
  /\ left = [c \in Caller |-> {}]
  /\ returned = [c \in Caller |-> [k \in Key |-> 0]]
  /\ stable = [c \in Caller |-> {}]

(* Other clients change the keyspace at any time. *)
Add(k) ==
  /\ k \notin content
  /\ content' = content \cup {k}
  /\ UNCHANGED <<container, issued, lost, callVars>>

Remove(k) ==
  /\ k \in content
  /\ content' = content \ {k}
  /\ stable' = [c \in Caller |-> stable[c] \ {k}]
  /\ UNCHANGED <<container, issued, lost, cursor, args, left, returned>>

(* The caller sets out on a scan: ClusterScanCursor::new, or from_id("0"). *)
NewScan(c, f, from) ==
  /\ left[c] = {}
  /\ StartsScan(from)
  /\ cursor' = [cursor EXCEPT ![c] = from]
  /\ args' = [args EXCEPT ![c] = f]
  /\ returned' = [returned EXCEPT ![c] = [k \in Key |-> 0]]
  /\ stable' = [stable EXCEPT ![c] = {}]
  /\ UNCHANGED <<content, container, issued, lost, left>>

(* The caller goes on with another's scan: from_id of the id it was given. *)
TakeOver(c, d) ==
  /\ c # d /\ left[c] = {}
  /\ cursor' = [cursor EXCEPT ![c] = cursor[d]]
  /\ args' = [args EXCEPT ![c] = args[d]]
  /\ returned' = [returned EXCEPT ![c] = returned[d]]
  /\ stable' = [stable EXCEPT ![c] = stable[d]]
  /\ UNCHANGED <<content, container, issued, lost, left>>

(***************************************************************************)
(* cluster_scan is called with the cursor the caller holds: a finished one *)
(* too, if the caller does not look.  Up to the await of the core.         *)
(***************************************************************************)
Start(c) ==
  /\ left[c] = {}
  /\ StartsScan(cursor[c])
  /\ left' = [left EXCEPT ![c] = Slot]
  /\ stable' = [stable EXCEPT ![c] = content]
  /\ UNCHANGED <<content, container, issued, lost, cursor, args, returned>>

Continue(c) ==
  /\ left[c] = {}
  /\ ~StartsScan(cursor[c]) /\ Known(cursor[c])
  /\ left' = [left EXCEPT ![c] = Resolved(cursor[c]).slots]
  /\ container' = Resolved(cursor[c]).container
  /\ UNCHANGED <<content, issued, lost, cursor, args, returned, stable>>

(* The core knows no such cursor: the error is returned, nothing is sent. *)
Unknown(c) ==
  /\ left[c] = {}
  /\ ~StartsScan(cursor[c]) /\ ~Known(cursor[c])
  /\ UNCHANGED vars

(* The core scans the slots done; when some are left, they get an id. *)
Scanned(c, done) ==
  /\ done # {} /\ done \subseteq left[c]
  /\ IF done = left[c]
     THEN UNCHANGED <<container, issued>>
     ELSE /\ issued < MaxIds
          /\ issued' = issued + 1
          /\ container' = [n \in DOMAIN container \cup {issued'} |->
                             IF n = issued' THEN left[c] \ done ELSE container[n]]

Found(c, done) ==
  {k \in content : SlotOf[k] \in done /\ k \in Asked(ClusterScanArgs(args[c]))}

(* The reply [cursor, keys] arrives and decodes. *)
Reply(c) == \E done \in SUBSET left[c] :
  /\ Scanned(c, done)
  /\ \E v \in KeysValue(Found(c, done)) :
       returned' = [returned EXCEPT ![c] =
                      [k \in Key |-> IF k \in decode_keys(v) THEN @[k] + 1 ELSE @[k]]]
  /\ cursor' = [cursor EXCEPT ![c] = IF done = left[c] THEN FINISHED ELSE Id(issued')]
  /\ left' = [left EXCEPT ![c] = {}]
  /\ UNCHANGED <<content, lost, args, stable>>

(***************************************************************************)
(* The call fails or is dropped: before the core scanned, or after, when   *)
(* the reply is lost or has another shape than two items that decode.      *)
(***************************************************************************)
Fails(c) ==
  /\ left[c] # {}
  /\ \/ UNCHANGED <<container, issued>>
     \/ \E done \in SUBSET left[c] : Scanned(c, done)
  /\ left' = [left EXCEPT ![c] = {}]
  /\ UNCHANGED <<content, lost, cursor, args, returned, stable>>

(* The process is restarted; callers have kept the ids of their cursors. *)
Restart ==
  /\ lost' = lost \cup DOMAIN container
  /\ container' = <<>>
  /\ left' = [c \in Caller |-> {}]
  /\ UNCHANGED <<content, issued, cursor, args, returned, stable>>

Next ==
  \/ \E k \in Key : Add(k) \/ Remove(k)
  \/ \E c \in Caller : \/ \E f \in Filters, from \in {New, Zero} : NewScan(c, f, from)
                       \/ \E d \in Caller : TakeOver(c, d)
                       \/ Start(c) \/ Continue(c) \/ Unknown(c) \/ Reply(c) \/ Fails(c)
  \/ Restart

Spec == Init /\ [][Next]_vars
-----------------------------------------------------------------------------
Cursors == {New, Zero, FINISHED} \cup {Id(n) : n \in 1..issued}

(* Every variable has its type; ids come from the core and are never reused. *)
TypeOK ==
  /\ content \in SUBSET Key
  /\ issued \in 0..MaxIds
  /\ DOMAIN container \subseteq 1..issued
  /\ \A n \in DOMAIN container : container[n] \in SUBSET Slot
  /\ lost \subseteq 1..issued
  /\ cursor \in [Caller -> Cursors]
  /\ args \in [Caller -> Filters]
  /\ left \in [Caller -> SUBSET Slot]
  /\ returned \in [Caller -> [Key -> Nat]]
  /\ stable \in [Caller -> SUBSET Key]

(* The slots that a cursor has still to visit. *)
Ahead(c) == CASE StartsScan(c) -> Slot
              [] is_finished(c) -> {}
              [] Known(c) -> container[c.id]
              [] OTHER -> Slot      \* of an earlier process: the scan cannot end

(***************************************************************************)
(* Nothing is missed: a key that was in the cluster ever since the scan    *)
(* began was returned or lies ahead of the cursor, whatever calls failed,  *)
(* were dropped, repeated or taken over.  When is_finished holds, all of   *)
(* them were returned.                                                     *)
(***************************************************************************)
NothingMissed ==
  \A c \in Caller : \A k \in stable[c] \cap Asked(args[c]) :
    returned[c][k] > 0 \/ SlotOf[k] \in Ahead(cursor[c])

(***************************************************************************)
(* No key comes twice in a scan, not even after a lost reply, and none     *)
(* that was not asked for: a finished or unknown cursor is an error and    *)
(* does not start the scan over.                                           *)
(***************************************************************************)
OnceAndAsked ==
  \A c \in Caller, k \in Key :
    /\ returned[c][k] <= 1
    /\ returned[c][k] > 0 => k \in Asked(args[c])

(***************************************************************************)
(* A call may be repeated with the cursor it was given (the tests wrap     *)
(* cluster_scan in retry_transient!): an id stays known for as long as the *)
(* process lives, and stands for the same slots.                           *)
(***************************************************************************)
CursorStaysValid ==
  \A c \in Caller : cursor[c].id # 0 => Known(cursor[c]) \/ cursor[c].id \in lost
=============================================================================
