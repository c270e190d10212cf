---------------------------- MODULE StreamCodec ----------------------------
(***************************************************************************)
(* The typed stream commands (commands/stream.rs, value.rs): the command a *)
(* method sends for a request and the result it decodes from a reply, for  *)
(* every shape a reply may have.  Operators only; Streams runs them        *)
(* against a server.                                                       *)
(*                                                                         *)
(* A request is a record of the method's arguments.  A command is a        *)
(* sequence of items: the name, a subcommand's with an underscore,         *)
(* <<"arg", x>> for a positional argument, and an option keyword together  *)
(* with its value.  An Option is a sequence of at most one item.  A reply  *)
(* is a redis::Value, with strings and ids opaque.                         *)
(***************************************************************************)
EXTENDS Integers, Sequences, SequencesExt

None == <<>>
Some(x) == <<x>>
Option(S) == {o \in Seq(S) : Len(o) <= 1}

Args(xs) == [i \in DOMAIN xs |-> <<"arg", xs[i]>>]
Flag(on, word) == IF on THEN <<<<word>>>> ELSE <<>>
Value(word, o) == [i \in DOMAIN o |-> <<word, o[i]>>]

(* A command: arguments, options, and the arguments that follow these. *)
Command(name, xs, options, ys) == <<<<name>>>> \o Args(xs) \o options \o Args(ys)

(* Pairs one after the other, and alternating items as pairs; an odd last one is dropped. *)
Flattened(ps) == [n \in 1..(2 * Len(ps)) |->
                    IF n % 2 = 1 THEN ps[(n + 1) \div 2][1] ELSE ps[n \div 2][2]]

Alternating(s) == [i \in 1..(Len(s) \div 2) |-> <<s[2*i - 1], s[2*i]>>]

(* The members of a set of numbers in order, and the items of s that pass a test. *)
Sorted(S) == [i \in 1..Cardinality(S) |-> CHOOSE x \in S : Cardinality({y \in S : y < x}) = i - 1]

Kept(s, Test(_)) ==
  LET at == Sorted({i \in DOMAIN s : Test(s[i])}) IN [n \in DOMAIN at |-> s[at[n]]]
-----------------------------------------------------------------------------
(* The options, in the order add_to writes them. *)
StreamTrimOptions(t) == <<<<t.strategy, IF t.exact THEN "=" ELSE "~", t.threshold>>>>
                        \o Value("LIMIT", t.limit)

StreamAddOptions(r) == Flag(~r.make_stream, "NOMKSTREAM")
                       \o (IF r.trim = None THEN <<>> ELSE StreamTrimOptions(r.trim[1]))

StreamReadOptions(r) == Value("BLOCK", r.block_ms) \o Value("COUNT", r.count)

StreamReadGroupOptionsNoAck(r) == StreamReadOptions(r) \o Flag(r.count # None, "NOACK")  \* mutant

StreamReadGroupOptions(r) == StreamReadOptions(r) \o Flag(r.no_ack, "NOACK")

StreamGroupCreateOptions(r) == Flag(r.make_stream, "MKSTREAM") \o Value("ENTRIESREAD", r.entries_read)

StreamClaimOptions(r) == Value("IDLE", r.idle) \o Value("TIME", r.idle_unix_time)
                         \o Value("RETRYCOUNT", r.retry_count) \o Flag(r.is_force, "FORCE")
-----------------------------------------------------------------------------
(* The command of each method. *)
xadd(r) == Command("XADD", <<r.key, r.id>> \o Flattened(r.fields), <<>>, <<>>)

xadd_options(r) == Command("XADD", <<r.key>>, StreamAddOptions(r), <<r.id>> \o Flattened(r.fields))

xlen(r) == Command("XLEN", <<r.key>>, <<>>, <<>>)

xdel(r) == Command("XDEL", <<r.key>> \o r.ids, <<>>, <<>>)

XTrim(strategy, r) ==
  Command("XTRIM", <<r.key>>,
          <<<<strategy, IF r.trim[1].exact THEN "no_mark" ELSE "~", r.trim[1].threshold>>>>, <<>>)

xtrim_maxlen(r) == XTrim("MAXLEN", r)

xtrim_minid(r) == XTrim("MINID", r)

xrange(r) == Command("XRANGE", <<r.key, r.start, r.end>>, <<>>, <<>>)

xrevrange(r) == Command("XREVRANGE", <<r.key, r.end, r.start>>, <<>>, <<>>)

xread(r) == Command("XREAD", <<>>, StreamReadOptions(r) \o <<<<"STREAMS">>>>, r.keys \o r.ids)

xreadgroup(r) ==
  Command("XREADGROUP", <<>>,
          <<<<"GROUP", r.group, r.consumer>>>> \o StreamReadGroupOptions(r) \o <<<<"STREAMS">>>>,
          r.keys \o r.ids)

xgroup_create(r) == Command("XGROUP_CREATE", <<r.key, r.group, r.id>>,
                            Flag(r.make_stream, "MKSTREAM"), <<>>)

xgroup_create_options(r) ==
  Command("XGROUP_CREATE", <<r.key, r.group, r.id>>, StreamGroupCreateOptions(r), <<>>)

xgroup_destroy(r) == Command("XGROUP_DESTROY", <<r.key, r.group>>, <<>>, <<>>)

xgroup_consumer(r) == Command(r.cmd, <<r.key, r.group, r.consumer>>, <<>>, <<>>)

xgroup_set_id(r) == Command("XGROUP_SETID", <<r.key, r.group, r.id>>,
                            Value("ENTRIESREAD", r.entries_read), <<>>)

xsetid(r) == Command("XSETID", <<r.key, r.id>>, Value("ENTRIESADDED", r.entries_added)
                                                \o Value("MAXDELETEDID", r.max_deleted_id), <<>>)

xack(r) == Command("XACK", <<r.key, r.group>> \o r.ids, <<>>, <<>>)

xclaim_swapped(r) ==                                                                    \* mutant
  Command("XCLAIM", <<r.key, r.consumer, r.group, r.min_idle>> \o r.ids,
          StreamClaimOptions(r) \o Flag(r.justid, "JUSTID"), <<>>)

xclaim(r) == Command("XCLAIM", <<r.key, r.group, r.consumer, r.min_idle>> \o r.ids,
                     StreamClaimOptions(r) \o Flag(r.justid, "JUSTID"), <<>>)

xautoclaim(r) == Command("XAUTOCLAIM", <<r.key, r.group, r.consumer, r.min_idle, r.start>>,
                         Value("COUNT", r.count) \o Flag(r.justid, "JUSTID"), <<>>)

xpending(r) == Command("XPENDING", <<r.key, r.group>>, <<>>, <<>>)

xpending_range(r) == Command("XPENDING", <<r.key, r.group>>, Value("IDLE", r.idle),
                             <<r.start, r.end, r.count>> \o r.consumer)

xinfo(r) == Command(r.cmd, <<r.key>>, <<>>, <<>>)

xinfo_stream_full(r) == Command(r.cmd, <<r.key>>, <<<<"FULL">>>> \o Value("COUNT", r.count), <<>>)

xinfo_consumers(r) == Command(r.cmd, <<r.key, r.group>>, <<>>, <<>>)

Encode(r) ==
  CASE r.method = "xadd" -> xadd(r)
    [] r.method = "xadd_options" -> xadd_options(r)
    [] r.method = "xlen" -> xlen(r)
    [] r.method = "xdel" -> xdel(r)
    [] r.method = "xtrim_maxlen" -> xtrim_maxlen(r)
    [] r.method = "xtrim_minid" -> xtrim_minid(r)
    [] r.method = "xrange" -> xrange(r)
    [] r.method = "xrevrange" -> xrevrange(r)
    [] r.method = "xread" -> xread(r)
    [] r.method = "xreadgroup" -> xreadgroup(r)
    [] r.method = "xgroup_create" -> xgroup_create(r)
    [] r.method = "xgroup_create_options" -> xgroup_create_options(r)
    [] r.method = "xgroup_destroy" -> xgroup_destroy(r)
    [] r.method \in {"xgroup_create_consumer", "xgroup_del_consumer"} -> xgroup_consumer(r)
    [] r.method = "xgroup_set_id" -> xgroup_set_id(r)
    [] r.method = "xsetid" -> xsetid(r)
    [] r.method = "xack" -> xack(r)
    [] r.method \in {"xclaim", "xclaim_justid"} -> xclaim(r)
    [] r.method \in {"xautoclaim", "xautoclaim_justid"} -> xautoclaim(r)
    [] r.method = "xpending" -> xpending(r)
    [] r.method = "xpending_range" -> xpending_range(r)
    [] r.method \in {"xinfo_stream", "xinfo_groups"} -> xinfo(r)
    [] r.method = "xinfo_stream_full" -> xinfo_stream_full(r)
    [] r.method = "xinfo_consumers" -> xinfo_consumers(r)
-----------------------------------------------------------------------------
(* redis::Value, and GlideError::Request for a reply that is not understood. *)
Nil == [tag |-> "Nil"]
Okay == [tag |-> "Okay"]
Integer(n) == [tag |-> "Int", v |-> n]
Boolean(b) == [tag |-> "Boolean", v |-> b]
Bulk(x) == [tag |-> "BulkString", v |-> x]
Array(s) == [tag |-> "Array", v |-> s]
Map(s) == [tag |-> "Map", v |-> s]
Unexpected == [tag |-> "Request"]

IsArray(v, n) == v.tag = "Array" /\ Len(v.v) = n

(* The values that can be converted to a number, a string and bytes. *)
IsI64(v) == v.tag \in {"BulkString", "Int"}
IsText(v) == IsI64(v) \/ v = Okay
IsBytes(v) == IsText(v) \/ v.tag = "Boolean"

(* Conversions of one value; ids and numbers are what a string says. *)
to_string(v) == CASE IsI64(v) -> v.v
                  [] v = Okay -> "OK"
                  [] OTHER -> Unexpected
to_bytes(v) == IF v.tag = "Boolean" THEN (IF v.v THEN 1 ELSE 0) ELSE to_string(v)
to_opt_string(v) == CASE v = Nil -> None
                      [] IsText(v) -> Some(to_string(v))
                      [] OTHER -> Unexpected
to_opt_bytes(v) == CASE v = Nil -> None
                     [] IsBytes(v) -> Some(to_bytes(v))
                     [] OTHER -> Unexpected
to_i64(v) == IF IsI64(v) THEN v.v ELSE Unexpected
to_bool(v) == CASE v.tag = "Boolean" -> v.v
                [] v.tag \in {"BulkString", "Int"} -> v.v # 0
                [] OTHER -> Unexpected
to_unit(v) == None

Each(Op(_), s) == [i \in DOMAIN s |-> Op(s[i])]

(* The ? in a loop: one item that cannot be converted fails the call. *)
All(Can(_), s) == \A i \in DOMAIN s : Can(s[i])
TryEach(Can(_), Op(_), s) == IF All(Can, s) THEN Each(Op, s) ELSE Unexpected

(* The pairs of a map, or of an array of two-item arrays; other items are dropped. *)
PairsOf(v) ==
  CASE v = Nil -> <<>>
    [] v.tag = "Map" -> v.v
    [] v.tag = "Array" -> Each(LAMBDA p : p.v, Kept(v.v, LAMBDA e : IsArray(e, 2)))

NoBytes == ""

(* Fields may be nested pairs or flat. *)
FieldPairs(v) ==
  CASE v = Nil -> <<>>
    [] v.tag = "Array" -> IF All(LAMBDA e : IsArray(e, 2), v.v) THEN Each(LAMBDA p : p.v, v.v)
                          ELSE Alternating(v.v)
    [] OTHER -> <<<<v, Bulk(NoBytes)>>>>

IsField(p) == IsBytes(p[1]) /\ IsBytes(p[2])

parse_fields(v) == TryEach(IsField, LAMBDA p : <<to_bytes(p[1]), to_bytes(p[2])>>, FieldPairs(v))

(* Mutant of parse_entries: an entry without fields is dropped. *)
parse_entries_with_fields(v) ==
  LET ps == Kept(PairsOf(v), LAMBDA p : p[2] # Nil)
  IN Each(LAMBDA p : <<to_string(p[1]), parse_fields(p[2])>>, ps)

IsEntry(p) == IsText(p[1]) /\ All(IsField, FieldPairs(p[2]))
IsEntries(v) == v.tag \in {"Nil", "Map", "Array"} /\ All(IsEntry, PairsOf(v))

parse_entries(v) ==
  IF IsEntries(v)
  THEN Each(LAMBDA p : <<to_string(p[1]), parse_fields(p[2])>>, PairsOf(v))
  ELSE Unexpected

ListOf(v) == CASE v = Nil -> <<>> [] v.tag = "Array" -> v.v [] OTHER -> <<v>>
IsStrings(v) == All(IsText, ListOf(v))

collect_strings(v) == TryEach(IsText, to_string, ListOf(v))

IsStream(p) == IsBytes(p[1]) /\ IsEntries(p[2])

parse_stream_read(v) ==
  IF v.tag \in {"Nil", "Map", "Array"}
  THEN TryEach(IsStream, LAMBDA p : <<to_bytes(p[1]), parse_entries(p[2])>>, PairsOf(v))
  ELSE Unexpected

(* Old servers send no third item. *)
Autoclaim(Can(_), Claimed(_), v) ==
  IF /\ IsArray(v, 2) \/ (IsArray(v, 3) /\ IsStrings(v.v[3]))
     /\ IsText(v.v[1]) /\ Can(v.v[2])
  THEN <<to_string(v.v[1]), Claimed(v.v[2]),
         IF Len(v.v) = 3 THEN collect_strings(v.v[3]) ELSE <<>>>>
  ELSE Unexpected

(* Mutant of parse_autoclaim: the short reply of an old server is taken for the last page. *)
parse_autoclaim_short_is_last(v) ==
  LET page == Autoclaim(IsEntries, parse_entries, v)
  IN IF IsArray(v, 2) THEN <<0, page[2], page[3]>> ELSE page

parse_autoclaim(v) == Autoclaim(IsEntries, parse_entries, v)
parse_autoclaim_justid(v) == Autoclaim(IsStrings, collect_strings, v)

(* The consumers of a summary and how many entries each has; none unless a list is sent. *)
Consumers(v) == IF v.tag = "Array" THEN PairsOf(v) ELSE <<>>

parse_xpending_summary(v) ==
  CASE v = Nil -> [count |-> 0, min_id |-> None, max_id |-> None, consumers |-> <<>>]
    [] /\ IsArray(v, 4) /\ IsI64(v.v[1])
       /\ \A i \in {2, 3} : v.v[i] = Nil \/ IsBytes(v.v[i])
       /\ All(LAMBDA p : IsBytes(p[1]) /\ IsI64(p[2]), Consumers(v.v[4])) ->
         [count |-> to_i64(v.v[1]), min_id |-> to_opt_bytes(v.v[2]), max_id |-> to_opt_bytes(v.v[3]),
          consumers |-> Each(LAMBDA p : <<to_bytes(p[1]), to_i64(p[2])>>, Consumers(v.v[4]))]
    [] OTHER -> Unexpected

parse_xpending_range(v) ==
  CASE v = Nil -> <<>>
    [] v.tag = "Array" ->
         TryEach(LAMBDA e : IsBytes(e.v[1]) /\ IsBytes(e.v[2]) /\ IsI64(e.v[3]) /\ IsI64(e.v[4]),
                 LAMBDA e : [id |-> to_bytes(e.v[1]), consumer |-> to_bytes(e.v[2]),
                             idle_ms |-> to_i64(e.v[3]), delivery_count |-> to_i64(e.v[4])],
                 Kept(v.v, LAMBDA e : IsArray(e, 4)))
    [] OTHER -> Unexpected

(* The pairs of a structured reply, which is a map or a flat array. *)
Structured(v) ==
  CASE v = Nil -> <<>> [] v.tag = "Map" -> v.v [] v.tag = "Array" -> Alternating(v.v)
IsStructured(v) ==
  v.tag \in {"Nil", "Map", "Array"} /\ All(LAMBDA p : IsBytes(p[1]), Structured(v))

parse_field_value_map(v) ==
  IF IsStructured(v) THEN Each(LAMBDA p : <<to_bytes(p[1]), p[2]>>, Structured(v))
  ELSE Unexpected

parse_list_of_maps(v) ==
  CASE v = Nil -> <<>>
    [] v.tag = "Array" -> TryEach(IsStructured, parse_field_value_map, v.v)
    [] OTHER -> Unexpected

Decode(method, v) ==
  CASE method \in {"xadd", "xadd_options"} -> to_opt_string(v)
    [] method \in {"xlen", "xdel", "xtrim_maxlen", "xtrim_minid", "xack", "xgroup_del_consumer"} -> to_i64(v)
    [] method \in {"xrange", "xrevrange", "xclaim"} -> parse_entries(v)
    [] method \in {"xread", "xreadgroup"} -> parse_stream_read(v)
    [] method \in {"xgroup_create", "xgroup_create_options", "xgroup_set_id", "xsetid"} -> to_unit(v)
    [] method \in {"xgroup_destroy", "xgroup_create_consumer"} -> to_bool(v)
    [] method = "xclaim_justid" -> collect_strings(v)
    [] method = "xautoclaim" -> parse_autoclaim(v)
    [] method = "xautoclaim_justid" -> parse_autoclaim_justid(v)
    [] method = "xpending" -> parse_xpending_summary(v)
    [] method = "xpending_range" -> parse_xpending_range(v)
    [] method \in {"xinfo_stream", "xinfo_stream_full"} -> parse_field_value_map(v)
    [] method \in {"xinfo_groups", "xinfo_consumers"} -> parse_list_of_maps(v)
=============================================================================
