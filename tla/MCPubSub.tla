------------------------------ MODULE MCPubSub ------------------------------
(* TLC instances of PubSub: a few pushes of each shape the conversion tells apart. *)
EXTENDS PubSub

CONSTANTS c1, p1     \* channel and payload bytes

Bulk(x) == [tag |-> "BulkString", text |-> x]
Simple(x) == [tag |-> "SimpleString", text |-> x]
Int64(x) == [tag |-> "Other", text |-> x]

MCMessage == [kind |-> "Message", data |-> <<Bulk(c1), Simple(p1)>>]
MCPattern == [kind |-> "PMessage", data |-> <<Bulk(p1), Bulk(c1), Int64(p1)>>]
MCShort   == [kind |-> "PMessage", data |-> <<Bulk(c1), Bulk(p1)>>]
MCConfirm == [kind |-> "Other", data |-> <<Bulk(c1), Int64(c1)>>]

MCPushAll == {MCMessage, MCPattern, MCShort, MCConfirm}
MCPushFew == {MCMessage, MCConfirm}
=============================================================================
