------------------------------ MODULE Streams ------------------------------
(***************************************************************************)
(* The typed stream commands at work: consumers of one group add, read,    *)
(* claim, acknowledge and delete entries of a stream through StreamCodec   *)
(* and StreamServer.  Any reply may be lost on its way back, and the       *)
(* consumer then does not know what the server did.                        *)
(***************************************************************************)
EXTENDS StreamServer

CONSTANTS
  Consumer,        \* consumers of the group
  Requests,        \* for each consumer, the calls it makes that change the server
  Queries,         \* the calls that do not
  Sweeper,         \* the consumers that sweep and query
  MaxId            \* bound on ids added

Id == 1..MaxId

(***************************************************************************)
(* The requests of each method, as the types of its arguments allow them:  *)
(* entries are added with the id "*", and what a method leaves to the      *)
(* server has the server's default.  Time is 0 or 1, recent or past.       *)
(***************************************************************************)
Count == Option(Nat \ {0})
TrimSet(strategies, limits) ==
  [strategy : strategies, exact : BOOLEAN, threshold : Nat, limit : limits]
AddSet(method, makes, trims) ==
  [method : {method}, cmd : {"XADD"}, key : {k1}, id : {"*"}, fields : Seq(STRING \X STRING),
   make_stream : makes, trim : trims]
RangeSet(method, cmd) == [method : {method}, cmd : {cmd}, key : {k1}, start : Nat, end : Nat]
CreateSet(method, reads) ==
  [method : {method}, cmd : {"XGROUP_CREATE"}, key : {k1}, group : {g}, id : 0..MaxId,
   make_stream : BOOLEAN, entries_read : reads]
ConsumerSet(method, cmd) ==
  [method : {method}, cmd : {cmd}, key : {k1}, group : {g}, consumer : Consumer]
ClaimSet(method, justid) ==
  [method : {method}, cmd : {"XCLAIM"}, key : {k1}, group : {g}, consumer : Consumer,
   min_idle : Nat, ids : Seq(Nat), idle : Option(0..1), idle_unix_time : {None},
   retry_count : Option(Nat), is_force : BOOLEAN, justid : {justid}]
AutoClaimSet(method, justid) ==
  [method : {method}, cmd : {"XAUTOCLAIM"}, key : {k1}, group : {g}, consumer : Consumer,
   min_idle : Nat, start : Nat, count : Count, justid : {justid}]
TrimCallSet(method, strategy) ==
  [method : {method}, cmd : {"XTRIM"}, key : {k1},
   trim : {o \in Option(TrimSet({strategy}, {None})) : o # None}]
InfoSet(method, full, counts) ==
  [method : {method}, cmd : {"XINFO_STREAM"}, key : {k1}, full : {full}, count : counts]
ReadSet ==
  {r \in [method : {"xread"}, cmd : {"XREAD"}, keys : Seq({k1, k2}), ids : Seq(Nat), count : Count,
          block_ms : Option(Nat)] : Len(r.keys) = Len(r.ids)}
ReadGroupSet ==
  [method : {"xreadgroup"}, cmd : {"XREADGROUP"}, keys : {<<k1>>},
   ids : {s \in Seq(Nat \cup {New}) : Len(s) = 1}, group : {g}, consumer : Consumer,
   count : Count, block_ms : Option(Nat), no_ack : BOOLEAN]
PendingRangeSet ==
  [method : {"xpending_range"}, cmd : {"XPENDING"}, key : {k1}, group : {g}, idle : Option(Nat),
   start : Nat, end : Nat, count : Nat, consumer : Option(Consumer)]

StreamRequest ==
       AddSet("xadd", {TRUE}, {None})
  \cup AddSet("xadd_options", BOOLEAN, Option(TrimSet({"MAXLEN", "MINID"}, Option(Nat))))
  \cup [method : {"xlen"}, cmd : {"XLEN"}, key : {k1, k2}]
  \cup [method : {"xdel"}, cmd : {"XDEL"}, key : {k1}, ids : Seq(Nat)]
  \cup TrimCallSet("xtrim_maxlen", "MAXLEN")
  \cup TrimCallSet("xtrim_minid", "MINID")
  \cup RangeSet("xrange", "XRANGE")
  \cup RangeSet("xrevrange", "XREVRANGE")
  \cup ReadSet
  \cup ReadGroupSet
  \cup CreateSet("xgroup_create", {None})
  \cup CreateSet("xgroup_create_options", Option(Nat))
  \cup [method : {"xgroup_destroy"}, cmd : {"XGROUP_DESTROY"}, key : {k1}, group : {g}]
  \cup ConsumerSet("xgroup_create_consumer", "XGROUP_CREATECONSUMER")
  \cup ConsumerSet("xgroup_del_consumer", "XGROUP_DELCONSUMER")
  \cup [method : {"xgroup_set_id"}, cmd : {"XGROUP_SETID"}, key : {k1}, group : {g}, id : 0..MaxId,
        entries_read : Option(Nat)]
  \cup [method : {"xsetid"}, cmd : {"XSETID"}, key : {k1}, id : 0..MaxId, entries_added : Option(Nat),
        max_deleted_id : Option(Nat)]
  \cup [method : {"xack"}, cmd : {"XACK"}, key : {k1}, group : {g}, ids : Seq(Nat)]
  \cup ClaimSet("xclaim", FALSE)
  \cup ClaimSet("xclaim_justid", TRUE)
  \cup AutoClaimSet("xautoclaim", FALSE)
  \cup AutoClaimSet("xautoclaim_justid", TRUE)
  \cup [method : {"xpending"}, cmd : {"XPENDING"}, key : {k1}, group : {g}]
  \cup PendingRangeSet
  \cup InfoSet("xinfo_stream", FALSE, {None})
  \cup InfoSet("xinfo_stream_full", TRUE, Option(Nat))
  \cup [method : {"xinfo_groups"}, cmd : {"XINFO_GROUPS"}, key : {k1}]
  \cup [method : {"xinfo_consumers"}, cmd : {"XINFO_CONSUMERS"}, key : {k1}, group : {g}]

ASSUME StreamsAssumption ==
  /\ MaxId \in Nat \ {0} /\ MaxDeliveries \in Nat \ {0}
  /\ Sweeper \subseteq Consumer
  /\ Requests \in [Consumer -> SUBSET StreamRequest] /\ Queries \subseteq StreamRequest

VARIABLES
  settled,   \* history: ids whose content the group gave some consumer, or that
             \* a consumer asked to have no guarantee for
  sweep      \* for each consumer, its XAUTOCLAIM sweep

vars == <<old, db, settled, sweep>>

NoSweep == [phase |-> "off", cursor |-> 0, targets |-> {}]

Init ==
  /\ old \in BOOLEAN
  /\ db = EmptyDb
  /\ settled = {}
  /\ sweep = [c \in Consumer |-> NoSweep]
-----------------------------------------------------------------------------
(* A page of a sweep. *)
Page(c, cursor, justid) ==
  [method |-> IF justid THEN "xautoclaim_justid" ELSE "xautoclaim", cmd |-> "XAUTOCLAIM",
   key |-> k1, group |-> g, consumer |-> c, min_idle |-> 1, start |-> cursor,
   count |-> Some(1), justid |-> justid]

AllRequests == Queries \cup (UNION {Requests[c] : c \in Consumer})
               \cup {Page(c, n, b) : c \in Sweeper, n \in 0..MaxId, b \in BOOLEAN}

(* What the server reads from the command of each. *)
Meaning == [r \in AllRequests |-> Parse(Encode(r))]

(* The ids a result of the group gives the content of. *)
IdsIn(method, result) ==
  LET es == CASE method = "xreadgroup" /\ result # <<>> -> result[1][2]
              [] method = "xclaim" -> result
              [] method = "xautoclaim" -> result[2]
              [] OTHER -> <<>>
  IN {es[i][1] : i \in {j \in DOMAIN es : es[j][2] # <<>>}}

(* The ids a request gives up the guarantee for: read without acknowledgement, *)
(* pending for a consumer that is deleted, or skipped by an id set by hand.    *)
RiskedBy(r, d) ==
  CASE r.method = "xreadgroup" /\ r.no_ack -> {i \in Id : db.group.last < i /\ i <= d.group.last}
    [] r.method = "xgroup_del_consumer" -> {i \in DOMAIN Pel : Pel[i].owner = r.consumer}
    [] r.method \in {"xgroup_create", "xgroup_create_options", "xgroup_set_id"} -> 1..r.id
    [] r.method = "xsetid" -> (r.id + 1)..db.group.last
    [] OTHER -> {}

(* The targets of a sweep are still pending and idle, or already its own. *)
StillTargets(c, pel) ==
  {i \in sweep[c].targets \cap DOMAIN pel :
     pel[i].owner = c \/ (pel[i].owner = Pel[i].owner /\ pel[i].idle >= 1)}

(* One call: the command is served, and its reply arrives or is lost.  Here *)
(* an old server uses RESP2 and a new one RESP3; TypedCall has all pairs.   *)
Exchange(c, r, arrives, page) ==
  LET res == Serve(Meaning[r])
      result == Decode(r.method, AsValue(res.kind, res.view, ~old))
      got == arrives /\ res.kind # "error"
  IN /\ res.db.next <= MaxId + 1
     /\ db' = res.db
     /\ settled' = settled \cup (IF got THEN IdsIn(r.method, result) ELSE {})
                          \cup (IF res.kind # "error" THEN RiskedBy(r, res.db) ELSE {})
     /\ sweep' = [x \in Consumer |->
          LET s == IF sweep[x].phase = "on"
                   THEN [sweep[x] EXCEPT !.targets = StillTargets(x, res.db.group.pel)]
                   ELSE NoSweep
          IN IF x = c /\ page /\ got
             THEN [s EXCEPT !.cursor = result[1], !.phase = IF result[1] = 0 THEN "done" ELSE "on"]
             ELSE s]
     /\ UNCHANGED old

(* A consumer acknowledges only what it, or another it works with, was given. *)
Call(c, r, arrives) ==
  /\ r.method = "xack" => ToSet(r.ids) \subseteq settled
  /\ Exchange(c, r, arrives, FALSE)

(* A sweep: XAUTOCLAIM from 0, from each cursor returned, until that is 0 again; *)
(* a page whose reply was lost is asked for again.                              *)
SweepStart(c) ==
  /\ sweep[c].phase # "on"
  /\ \E i \in DOMAIN Pel : Pel[i].idle >= 1
  /\ sweep' = [sweep EXCEPT ![c] = [phase |-> "on", cursor |-> 0,
                                    targets |-> {i \in DOMAIN Pel : Pel[i].idle >= 1}]]
  /\ UNCHANGED <<old, db, settled>>

SweepPage(c, justid, arrives) ==
  /\ sweep[c].phase = "on"
  /\ Exchange(c, Page(c, sweep[c].cursor, justid), arrives, TRUE)

(* Time passes: what is pending becomes idle. *)
Tick ==
  /\ \E i \in DOMAIN Pel : Pel[i].idle = 0
  /\ db' = WithPel([i \in DOMAIN Pel |-> [Pel[i] EXCEPT !.idle = 1]])
  /\ UNCHANGED <<old, settled, sweep>>

Next ==
  \/ \E c \in Consumer, arrives \in BOOLEAN : \E r \in Requests[c] : Call(c, r, arrives)
  \/ \E c \in Sweeper, r \in Queries : Call(c, r, TRUE)
  \/ \E c \in Sweeper : \/ SweepStart(c)
                        \/ \E justid, arrives \in BOOLEAN : SweepPage(c, justid, arrives)
  \/ Tick

Spec == Init /\ [][Next]_vars
-----------------------------------------------------------------------------
(* Every variable has its type. *)
TypeOK ==
  /\ old \in BOOLEAN
  /\ db.next \in 1..(MaxId + 1) /\ db.entries[k1] \subseteq Id /\ db.exists \in BOOLEAN
  /\ db.group.last \in 0..MaxId /\ db.group.consumers \subseteq Consumer
  /\ DOMAIN Pel \subseteq Id
  /\ \A i \in DOMAIN Pel : Pel[i] \in [owner : Consumer, idle : 0..1, n : 0..MaxDeliveries]
  /\ settled \subseteq Id
  /\ sweep \in [Consumer -> [phase : {"off", "on", "done"}, cursor : 0..MaxId, targets : SUBSET Id]]

(***************************************************************************)
(* A typed call means what it says, in every state of the server: the      *)
(* server reads from the command exactly the arguments and options of the  *)
(* request, and the decoded result is what the server answered, whether    *)
(* the reply is of RESP2 or RESP3, of an old or a new server, and with the *)
(* entries that were deleted while pending.                                *)
(***************************************************************************)
TypedCall ==
  \A r \in AllRequests :
    LET m == Meaning[r]
        res == Serve(m)
    IN /\ m = [f \in DOMAIN m |-> r[f]]
       /\ res.kind # "error" => \A resp3 \in BOOLEAN :
            Decode(r.method, AsValue(res.kind, res.view, resp3)) = res.view

(***************************************************************************)
(* Nothing the group delivered is lost with a reply: an entry it is past   *)
(* is still pending, so that it can be read again or claimed, unless its   *)
(* content arrived at a consumer or a call asked for no guarantee.         *)
(***************************************************************************)
NothingLost ==
  db.group.exists => \A i \in db.entries[k1] :
    i <= db.group.last => i \in DOMAIN Pel \cup settled

(***************************************************************************)
(* A sweep that ended with the cursor 0 claimed everything that was idle   *)
(* when it began and that nobody else touched, across lost replies, pages  *)
(* asked for twice and entries deleted meanwhile.                          *)
(***************************************************************************)
SweepIsComplete ==
  \A c \in Consumer : sweep[c].phase = "done" =>
    \A i \in sweep[c].targets \cap DOMAIN Pel : Pel[i].owner = c
=============================================================================
