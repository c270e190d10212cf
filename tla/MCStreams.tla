----------------------------- MODULE MCStreams -----------------------------
(* TLC instance of Streams: consumer ca makes every call, cb a few competing ones. *)
EXTENDS Streams, TLC

CONSTANTS ca, cb

On(method, cmd, fields) == [method |-> method, cmd |-> cmd] @@ fields
InGroup == [key |-> k1, group |-> g]
Trim(strategy, exact, threshold, limit) ==
  [strategy |-> strategy, exact |-> exact, threshold |-> threshold, limit |-> limit]
Adding(method, mk, trim) ==
  On(method, "XADD", [key |-> k1, id |-> "*", fields |-> <<<<"f", "v">>, <<"h", "w">>>>,
                      make_stream |-> mk, trim |-> trim])
Reading(c, id, count, no_ack) ==
  On("xreadgroup", "XREADGROUP", [keys |-> <<k1>>, ids |-> <<id>>, group |-> g, consumer |-> c,
                                  count |-> count, block_ms |-> Some(5), no_ack |-> no_ack])
Claiming(method, c, ids, idle, retry, force) ==
  On(method, "XCLAIM", InGroup @@ [consumer |-> c, min_idle |-> 1, ids |-> ids, idle |-> idle,
       idle_unix_time |-> None, retry_count |-> retry, is_force |-> force,
       justid |-> method = "xclaim_justid"])
Creating(method, id, mk, reads) ==
  On(method, "XGROUP_CREATE", InGroup @@ [id |-> id, make_stream |-> mk, entries_read |-> reads])

MCQueries == {
  On("xlen", "XLEN", [key |-> k1]), On("xlen", "XLEN", [key |-> k2]),
  On("xrange", "XRANGE", [key |-> k1, start |-> 1, end |-> 2]),
  On("xrevrange", "XREVRANGE", [key |-> k1, start |-> 1, end |-> 2]),
  On("xread", "XREAD", [keys |-> <<k1, k2>>, ids |-> <<1, 0>>, count |-> Some(2), block_ms |-> None]),
  On("xpending", "XPENDING", InGroup),
  On("xpending_range", "XPENDING", InGroup @@ [idle |-> Some(1), start |-> 1, end |-> 2, count |-> 2,
                                               consumer |-> Some(cb)]),
  On("xpending_range", "XPENDING", InGroup @@ [idle |-> None, start |-> 1, end |-> 2, count |-> 1,
                                               consumer |-> None]),
  On("xinfo_stream", "XINFO_STREAM", [key |-> k1, full |-> FALSE, count |-> None]),
  On("xinfo_stream_full", "XINFO_STREAM", [key |-> k1, full |-> TRUE, count |-> Some(1)]),
  On("xinfo_groups", "XINFO_GROUPS", [key |-> k1]),
  On("xinfo_consumers", "XINFO_CONSUMERS", InGroup)}

Writes == {
  Adding("xadd", TRUE, None), Adding("xadd_options", FALSE, None),
  Adding("xadd_options", TRUE, Some(Trim("MAXLEN", TRUE, 1, None))),
  Adding("xadd_options", TRUE, Some(Trim("MINID", TRUE, 2, Some(1)))),
  On("xdel", "XDEL", [key |-> k1, ids |-> <<1, 2>>]),
  On("xtrim_maxlen", "XTRIM", [key |-> k1, trim |-> Some(Trim("MAXLEN", TRUE, 1, None))]),
  On("xtrim_minid", "XTRIM", [key |-> k1, trim |-> Some(Trim("MINID", FALSE, 2, None))]),
  On("xsetid", "XSETID", [key |-> k1, id |-> 2, entries_added |-> Some(1), max_deleted_id |-> Some(1)]),
  Creating("xgroup_create", 0, FALSE, None), Creating("xgroup_create_options", 0, TRUE, Some(1)),
  On("xgroup_destroy", "XGROUP_DESTROY", InGroup),
  On("xgroup_set_id", "XGROUP_SETID", InGroup @@ [id |-> 0, entries_read |-> Some(1)]),
  On("xgroup_create_consumer", "XGROUP_CREATECONSUMER", InGroup @@ [consumer |-> cb]),
  On("xgroup_del_consumer", "XGROUP_DELCONSUMER", InGroup @@ [consumer |-> cb])}

MCRequests ==
  [c \in {ca, cb} |->
     IF c = ca
     THEN Writes
          \cup {Reading(ca, New, None, FALSE), Reading(ca, New, Some(1), TRUE), Reading(ca, 0, Some(2), FALSE),
                Claiming("xclaim", ca, <<1, 2>>, None, None, FALSE),
                Claiming("xclaim_justid", ca, <<2>>, Some(1), Some(2), TRUE),
                On("xack", "XACK", InGroup @@ [ids |-> <<1>>])}
     ELSE {Reading(cb, New, Some(1), FALSE), Claiming("xclaim", cb, <<1>>, None, None, FALSE),
           On("xack", "XACK", InGroup @@ [ids |-> <<1, 2>>])}]
=============================================================================
