---------------------------- MODULE StreamServer ----------------------------
(***************************************************************************)
(* The server and the core as the typed stream commands see them; external *)
(* to the repository.  The server parses the items of a command by         *)
(* position and keyword and serves one command at a time on a stream with  *)
(* one consumer group, beside a second stream that never changes.  Ids are *)
(* numbers.  The reply has the shape of RESP2, or of RESP3 as the core     *)
(* normalises it, and that of servers before 7.0 or of later ones.         *)
(***************************************************************************)
EXTENDS StreamCodec, FiniteSets

CONSTANTS
  k1, k2, g,       \* the stream written to, the other stream, the group of the first
  MaxDeliveries    \* bound on the delivery count that is kept

VARIABLES
  old,       \* the server is older than 7.0
  db         \* next id, entries of each key, whether k1 exists, the group of k1

New == -1              \* the id ">"
NoGroup == [exists |-> FALSE, last |-> 0, pel |-> <<>>, consumers |-> {}]
EmptyDb == [next |-> 1, entries |-> [k \in {k1, k2} |-> IF k = k1 THEN {} ELSE {1}], exists |-> FALSE, group |-> NoGroup]

Take(s, o) == IF o = None THEN s ELSE SubSeq(s, 1, Min({o[1], Len(s)}))

(* The fields of an entry: one or two of them. *)
Fields(id) == IF id % 2 = 0 THEN <<<<"f", id>>>> ELSE <<<<"f", id>>, <<"h", id>>>>
-----------------------------------------------------------------------------
(***************************************************************************)
(* Parsing.  Positional arguments are bound in order, options by keyword;  *)
(* options stand together, after a number of arguments fixed for the       *)
(* command.                                                                *)
(***************************************************************************)
OptionsAt(cmd) == {i \in 2..Len(cmd) : cmd[i][1] # "arg"}

OptionsAfter(n, cmd) == OptionsAt(cmd) \in {{}, (n + 2)..(n + 1 + Cardinality(OptionsAt(cmd)))}

ArgsOf(cmd) ==
  LET n == Cardinality(OptionsAt(cmd))
      behind(i) == \E j \in OptionsAt(cmd) : j <= i + 1
  IN [i \in 1..(Len(cmd) - 1 - n) |-> cmd[IF behind(i) THEN i + 1 + n ELSE i + 1][2]]

Items(cmd, word) == {x \in ToSet(cmd) : x[1] = word}
Has(cmd, word) == Items(cmd, word) # {}
Item(cmd, word) == CHOOSE x \in Items(cmd, word) : TRUE
Opt(cmd, word) == IF Has(cmd, word) THEN Some(Item(cmd, word)[2]) ELSE None

TrimOf(cmd) ==
  LET strategy == IF Has(cmd, "MAXLEN") THEN "MAXLEN" ELSE "MINID"
  IN IF Has(cmd, strategy)
     THEN Some([strategy |-> strategy, exact |-> Item(cmd, strategy)[2] # "~",
                threshold |-> Item(cmd, strategy)[3], limit |-> Opt(cmd, "LIMIT")])
     ELSE None

WellFormed(cmd) ==
  LET name == cmd[1][1]
      n == Len(ArgsOf(cmd))
  IN CASE name = "XADD" -> OptionsAfter(1, cmd)
       [] name \in {"XREAD", "XREADGROUP"} -> OptionsAfter(0, cmd) /\ cmd[Len(cmd) - n][1] = "STREAMS"
       [] name = "XPENDING" -> OptionsAfter(2, cmd)
       [] OTHER -> OptionsAfter(n, cmd)

Understood(cmd) ==
  LET name == cmd[1][1]
      a == ArgsOf(cmd)
      from(i) == SubSeq(a, i, Len(a))
      half == Len(a) \div 2
      opt(word) == Opt(cmd, word)
      has(word) == Has(cmd, word)
  IN CASE name = "XADD" ->
              [cmd |-> name, key |-> a[1], id |-> a[2], fields |-> Alternating(from(3)),
               make_stream |-> ~has("NOMKSTREAM"), trim |-> TrimOf(cmd)]
       [] name \in {"XLEN", "XINFO_GROUPS"} -> [cmd |-> name, key |-> a[1]]
       [] name = "XDEL" -> [cmd |-> name, key |-> a[1], ids |-> from(2)]
       [] name = "XTRIM" -> [cmd |-> name, key |-> a[1], trim |-> TrimOf(cmd)]
       [] name = "XRANGE" -> [cmd |-> name, key |-> a[1], start |-> a[2], end |-> a[3]]
       [] name = "XREVRANGE" -> [cmd |-> name, key |-> a[1], end |-> a[2], start |-> a[3]]
       [] name = "XREAD" -> [cmd |-> name, keys |-> SubSeq(a, 1, half), ids |-> from(half + 1),
                             count |-> opt("COUNT"), block_ms |-> opt("BLOCK")]
       [] name = "XREADGROUP" ->
              [cmd |-> name, keys |-> SubSeq(a, 1, half), ids |-> from(half + 1),
               group |-> Item(cmd, "GROUP")[2], consumer |-> Item(cmd, "GROUP")[3],
               count |-> opt("COUNT"), block_ms |-> opt("BLOCK"), no_ack |-> has("NOACK")]
       [] name = "XGROUP_CREATE" ->
              [cmd |-> name, key |-> a[1], group |-> a[2], id |-> a[3],
               make_stream |-> has("MKSTREAM"), entries_read |-> opt("ENTRIESREAD")]
       [] name = "XGROUP_SETID" ->
              [cmd |-> name, key |-> a[1], group |-> a[2], id |-> a[3],
               entries_read |-> opt("ENTRIESREAD")]
       [] name \in {"XGROUP_CREATECONSUMER", "XGROUP_DELCONSUMER"} ->
              [cmd |-> name, key |-> a[1], group |-> a[2], consumer |-> a[3]]
       [] name = "XSETID" -> [cmd |-> name, key |-> a[1], id |-> a[2],
                              entries_added |-> opt("ENTRIESADDED"),
                              max_deleted_id |-> opt("MAXDELETEDID")]
       [] name = "XACK" -> [cmd |-> name, key |-> a[1], group |-> a[2], ids |-> from(3)]
       [] name = "XCLAIM" ->
              [cmd |-> name, key |-> a[1], group |-> a[2], consumer |-> a[3], min_idle |-> a[4],
               ids |-> from(5), idle |-> opt("IDLE"), idle_unix_time |-> opt("TIME"),
               justid |-> has("JUSTID"), retry_count |-> opt("RETRYCOUNT"), is_force |-> has("FORCE")]
       [] name = "XAUTOCLAIM" ->
              [cmd |-> name, key |-> a[1], group |-> a[2], consumer |-> a[3], min_idle |-> a[4],
               start |-> a[5], count |-> opt("COUNT"), justid |-> has("JUSTID")]
       [] name = "XPENDING" /\ Len(a) > 2 ->
              [cmd |-> name, key |-> a[1], group |-> a[2], idle |-> opt("IDLE"), start |-> a[3],
               end |-> a[4], count |-> a[5], consumer |-> from(6)]
       [] name \in {"XPENDING", "XGROUP_DESTROY", "XINFO_CONSUMERS"} /\ Len(a) <= 2 ->
              [cmd |-> name, key |-> a[1], group |-> a[2]]
       [] name = "XINFO_STREAM" ->
              [cmd |-> name, key |-> a[1], full |-> has("FULL"), count |-> opt("COUNT")]

Parse(cmd) == IF WellFormed(cmd) THEN Understood(cmd) ELSE [cmd |-> "syntax_error"]
-----------------------------------------------------------------------------
(* Serving a parsed command: the server afterwards, and what it answers. *)
Reply(d, kind, view) == [db |-> d, kind |-> kind, view |-> view]
Error == Reply(db, "error", None)
Entries(ids) == [i \in DOMAIN ids |->
                  <<ids[i], IF ids[i] \in db.entries[k1] THEN Fields(ids[i]) ELSE <<>>>>]
Pel == db.group.pel
WithPel(pel) == [db EXCEPT !.group.pel = pel]
Pending(owner, idle, n) == [owner |-> owner, idle |-> idle, n |-> Min({n, MaxDeliveries})]
Without(pel, ids) == [i \in DOMAIN pel \ ids |-> pel[i]]

(* An approximate trim removes whole nodes only, none of a short stream. *)
Trimmed(S, t) ==
  CASE ~t.exact -> S
    [] t.exact /\ t.strategy = "MINID" -> {i \in S : i >= t.threshold}
    [] t.exact /\ t.strategy = "MAXLEN" -> {i \in S : Cardinality({j \in S : j >= i}) <= t.threshold}

Add(m) ==
  LET S == db.entries[k1] \cup {db.next}
      T == IF m.trim = None THEN S ELSE Trimmed(S, m.trim[1])
  IN IF m.trim # None /\ m.trim[1].exact /\ m.trim[1].limit # None THEN Error
     ELSE IF ~m.make_stream /\ ~db.exists THEN Reply(db, "opt", None)
     ELSE Reply([db EXCEPT !.next = @ + 1, !.entries[k1] = T, !.exists = TRUE],
                "opt", Some(db.next))

Deleted(S) == Reply([db EXCEPT !.entries[k1] = @ \ S], "int", Cardinality(S \cap db.entries[k1]))

(* XREADGROUP: new entries become pending; an id asks for the consumer's own pending ones. *)
ReadGroup(m) ==
  LET mine == {i \in DOMAIN Pel : Pel[i].owner = m.consumer /\ i > m.ids[1]}
      new == {i \in db.entries[k1] : i > db.group.last}
      ids == Take(Sorted(IF m.ids[1] = New THEN new ELSE mine), m.count)
      got == ToSet(ids)
      pel == [i \in DOMAIN Pel \cup got |->
                IF i \notin got THEN Pel[i]
                ELSE Pending(m.consumer, 0, IF i \in DOMAIN Pel THEN Pel[i].n + 1 ELSE 1)]
      d == [db EXCEPT !.group.consumers = @ \cup {m.consumer},
                      !.group.last = IF m.ids[1] = New /\ ids # <<>> THEN ids[Len(ids)] ELSE @,
                      !.group.pel = IF m.ids[1] = New /\ m.no_ack THEN @ ELSE pel]
      view == IF m.ids[1] = New /\ ids = <<>> THEN <<>> ELSE <<<<k1, Entries(ids)>>>>
  IN Reply(d, "streams", view)

(* XCLAIM and XAUTOCLAIM: the ids change owner; deleted ones leave the list since 7.0. *)
Claimed(m, ids, idle, n(_)) ==
  LET gone == IF old THEN {} ELSE ids \ db.entries[k1]
  IN [[WithPel([i \in (DOMAIN Pel \cup ids) \ gone |->
                 IF i \in ids THEN Pending(m.consumer, idle, n(i)) ELSE Pel[i]])
        EXCEPT !.group.consumers = @ \cup {m.consumer}] EXCEPT !.exists = TRUE]

Deliveries(m, i) == IF i \notin DOMAIN Pel THEN (IF m.justid THEN 0 ELSE 1)
                    ELSE IF m.justid THEN Pel[i].n ELSE Pel[i].n + 1

Claim(m) ==
  LET ids == {i \in ToSet(m.ids) : \/ i \in DOMAIN Pel /\ Pel[i].idle >= m.min_idle
                                   \/ m.is_force /\ i \notin DOMAIN Pel /\ i \in db.entries[k1]}
      n(i) == IF m.retry_count # None THEN m.retry_count[1] ELSE Deliveries(m, i)
      d == Claimed(m, ids, IF m.idle # None THEN m.idle[1] ELSE 0, n)
      shown == Sorted(IF old /\ m.justid THEN ids ELSE ids \cap db.entries[k1])
  IN Reply(d, IF m.justid THEN "ids" ELSE "claimed", IF m.justid THEN shown ELSE Entries(shown))

AutoClaim(m) ==
  LET ids == Take(Sorted({i \in DOMAIN Pel : i >= m.start /\ Pel[i].idle >= m.min_idle}), m.count)
      rest == {i \in DOMAIN Pel : ids # <<>> /\ i > ids[Len(ids)]}
      cursor == IF rest = {} THEN 0 ELSE Sorted(rest)[1]
      gone == ToSet(ids) \ db.entries[k1]
      kept == Sorted(ToSet(ids) \ gone)
      shown == IF m.justid /\ old THEN ids ELSE kept
  IN Reply(Claimed(m, ToSet(ids), 0, LAMBDA i : Deliveries(m, i)),
           IF m.justid THEN "autoclaim_ids" ELSE "autoclaim",
           <<cursor, IF m.justid THEN shown ELSE Entries(shown), IF old THEN <<>> ELSE Sorted(gone)>>)

PendingSummary ==
  LET ids == Sorted(DOMAIN Pel)
      owned(c) == Cardinality({i \in DOMAIN Pel : Pel[i].owner = c})
      owners == SetToSeq({Pel[i].owner : i \in DOMAIN Pel})
  IN [count |-> Len(ids), min_id |-> IF ids = <<>> THEN None ELSE Some(ids[1]),
      max_id |-> IF ids = <<>> THEN None ELSE Some(ids[Len(ids)]),
      consumers |-> [i \in DOMAIN owners |-> <<owners[i], owned(owners[i])>>]]

PendingRange(m) ==
  LET ids == Take(Sorted({i \in DOMAIN Pel :
                     /\ m.start <= i /\ i <= m.end
                     /\ m.idle # None => Pel[i].idle >= m.idle[1]
                     /\ m.consumer # None => Pel[i].owner = m.consumer[1]}), Some(m.count))
  IN [j \in DOMAIN ids |-> [id |-> ids[j], consumer |-> Pel[ids[j]].owner,
                            idle_ms |-> Pel[ids[j]].idle, delivery_count |-> Pel[ids[j]].n]]

GroupInfo == <<<<"name", Bulk(g)>>, <<"pending", Integer(Cardinality(DOMAIN Pel))>>>>
ConsumerInfo(c) == <<<<"name", Bulk(c)>>,
                     <<"pending", Integer(Cardinality({i \in DOMAIN Pel : Pel[i].owner = c}))>>>>

NeedsGroup == {"XREADGROUP", "XACK", "XCLAIM", "XAUTOCLAIM", "XPENDING", "XGROUP_SETID",
               "XGROUP_CREATECONSUMER", "XGROUP_DELCONSUMER", "XINFO_CONSUMERS"}

Executed(m) ==
  CASE m.cmd = "XADD" -> Add(m)
    [] m.cmd = "XLEN" -> Reply(db, "int", Cardinality(db.entries[m.key]))
    [] m.cmd = "XDEL" -> Deleted(ToSet(m.ids))
    [] m.cmd = "XTRIM" -> Deleted(db.entries[k1] \ Trimmed(db.entries[k1], m.trim[1]))
    [] m.cmd \in {"XRANGE", "XREVRANGE"} ->
         LET ids == Sorted({i \in db.entries[k1] : m.start <= i /\ i <= m.end})
         IN Reply(db, "entries", Entries(IF m.cmd = "XRANGE" THEN ids ELSE Reverse(ids)))
    [] m.cmd = "XREAD" ->
         LET ids(j) == Take(Sorted({i \in db.entries[m.keys[j]] : i > m.ids[j]}), m.count)
             some == Sorted({j \in DOMAIN m.keys : ids(j) # <<>>})
         IN Reply(db, "streams", Each(LAMBDA j : <<m.keys[j],
                     [i \in DOMAIN ids(j) |-> <<ids(j)[i], Fields(ids(j)[i])>>]>>, some))
    [] m.cmd = "XREADGROUP" -> ReadGroup(m)
    [] m.cmd = "XGROUP_CREATE" ->
         IF db.group.exists \/ (~db.exists /\ ~m.make_stream) THEN Error
         ELSE Reply([db EXCEPT !.exists = TRUE,
                       !.group = [NoGroup EXCEPT !.exists = TRUE, !.last = m.id]], "unit", None)
    [] m.cmd = "XGROUP_SETID" -> Reply([db EXCEPT !.group.last = m.id], "unit", None)
    [] m.cmd = "XGROUP_DESTROY" -> Reply([db EXCEPT !.group = NoGroup], "bool", db.group.exists)
    [] m.cmd = "XGROUP_CREATECONSUMER" ->
         Reply([db EXCEPT !.group.consumers = @ \cup {m.consumer}], "bool",
               m.consumer \notin db.group.consumers)
    [] m.cmd = "XGROUP_DELCONSUMER" ->
         LET lost == {i \in DOMAIN Pel : Pel[i].owner = m.consumer}
         IN Reply([WithPel(Without(Pel, lost)) EXCEPT !.group.consumers = @ \ {m.consumer}],
                  "int", Cardinality(lost))
    [] m.cmd = "XSETID" ->
         IF ~db.exists \/ \E i \in db.entries[k1] : i > m.id THEN Error
         ELSE Reply([db EXCEPT !.next = m.id + 1], "unit", None)
    [] m.cmd = "XACK" -> Reply(WithPel(Without(Pel, ToSet(m.ids))), "int",
                               Cardinality(ToSet(m.ids) \cap DOMAIN Pel))
    [] m.cmd = "XCLAIM" -> Claim(m)
    [] m.cmd = "XAUTOCLAIM" -> AutoClaim(m)
    [] m.cmd = "XPENDING" -> IF "start" \in DOMAIN m THEN Reply(db, "range", PendingRange(m))
                             ELSE Reply(db, "summary", PendingSummary)
    [] m.cmd = "XINFO_STREAM" ->
         IF ~db.exists THEN Error
         ELSE Reply(db, "info", <<<<"length", Integer(Cardinality(db.entries[k1]))>>,
                                  <<"groups", Integer(IF db.group.exists THEN 1 ELSE 0)>>>>)
    [] m.cmd = "XINFO_GROUPS" -> IF ~db.exists THEN Error
                                 ELSE Reply(db, "infos", IF db.group.exists THEN <<GroupInfo>> ELSE <<>>)
    [] m.cmd = "XINFO_CONSUMERS" ->
         Reply(db, "infos", Each(ConsumerInfo, SetToSeq(db.group.consumers)))

Serve(m) ==
  IF m.cmd = "syntax_error" \/ (m.cmd \in NeedsGroup /\ ~db.group.exists) THEN Error ELSE Executed(m)
-----------------------------------------------------------------------------
(* What the core hands over: arrays under RESP2, maps where RESP3 has them. *)
Bulks(s) == Array(Each(Bulk, s))

FieldsValue(fs, resp3) ==
  CASE fs = <<>> -> Nil
    [] fs # <<>> /\ resp3 -> Array(Each(Bulks, fs))
    [] fs # <<>> /\ ~resp3 -> Bulks(Flattened(fs))

Pairs(ps, resp3) == IF resp3 THEN Map(ps) ELSE Array(Each(Array, ps))

EntriesValue(es, resp3) ==
  Pairs(Each(LAMBDA e : <<Bulk(e[1]), FieldsValue(e[2], resp3)>>, es), resp3)

(* Claimed entries: before 7.0 an entry that was deleted is a Nil among them. *)
ClaimedValue(es, resp3) ==
  IF old /\ ~resp3 /\ DOMAIN Pel \ db.entries[k1] # {} THEN Array(<<Nil>> \o EntriesValue(es, FALSE).v)
  ELSE EntriesValue(es, resp3)

InfoValue(ps, resp3) ==
  LET kv == Each(LAMBDA p : <<Bulk(p[1]), p[2]>>, ps)
  IN IF resp3 THEN Map(kv) ELSE Array(Flattened(kv))

AsValue(kind, view, resp3) ==
  CASE kind = "opt" -> IF view = None THEN Nil ELSE Bulk(view[1])
    [] kind = "int" -> Integer(view)
    [] kind = "bool" -> IF resp3 THEN Boolean(view) ELSE Integer(IF view THEN 1 ELSE 0)
    [] kind = "unit" -> Okay
    [] kind = "ids" -> Bulks(view)
    [] kind = "entries" -> EntriesValue(view, resp3)
    [] kind = "claimed" -> ClaimedValue(view, resp3)
    [] kind = "streams" ->
         IF view = <<>> THEN Nil
         ELSE Pairs(Each(LAMBDA s : <<Bulk(s[1]), EntriesValue(s[2], resp3)>>, view), resp3)
    [] kind \in {"autoclaim", "autoclaim_ids"} ->
         LET items == IF kind = "autoclaim" THEN ClaimedValue(view[2], resp3) ELSE Bulks(view[2])
             deleted == IF old THEN <<>> ELSE <<Bulks(view[3])>>
         IN Array(<<Bulk(view[1]), items>> \o deleted)
    [] kind = "summary" ->
         Array(<<Integer(view.count)>> \o
               (IF view.count = 0 THEN <<Nil, Nil, Nil>>
                ELSE <<Bulk(view.min_id[1]), Bulk(view.max_id[1]),
                       Array(Each(LAMBDA c : Bulks(c), view.consumers))>>))
    [] kind = "range" -> Array(Each(LAMBDA e : Array(<<Bulk(e.id), Bulk(e.consumer),
                                     Integer(e.idle_ms), Integer(e.delivery_count)>>), view))
    [] kind = "info" -> InfoValue(view, resp3)
    [] kind = "infos" -> Array(Each(LAMBDA i : InfoValue(i, resp3), view))
=============================================================================
