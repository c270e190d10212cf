-------------------------------- MODULE Push --------------------------------
(***************************************************************************)
(* The pushes glide-core hands to the client, and their conversion into    *)
(* Pub/Sub messages (push_to_message in client/mod.rs).  A push has a kind *)
(* and a sequence of values; a value is a string reply (bulk or simple) or *)
(* something else.  Option is a set of at most one element.                *)
(***************************************************************************)
EXTENDS Integers, Sequences

CONSTANTS Push       \* the pushes the core may deliver

PushKinds == {"Message", "SMessage", "PMessage", "Other"}

ValueTags == {"BulkString", "SimpleString", "Other"}

ASSUME PushAssumption ==
  \A p \in Push : /\ p.kind \in PushKinds
                  /\ DOMAIN p.data = 1..Len(p.data)
                  /\ \A i \in DOMAIN p.data : p.data[i].tag \in ValueTags
-----------------------------------------------------------------------------
(***************************************************************************)
(* String replies keep their bytes, any other value is Debug-formatted,    *)
(* which is told apart from the bytes by its mark.                         *)
(***************************************************************************)
value_to_bytes(v) ==
  IF v.tag \in {"BulkString", "SimpleString"}
  THEN [debug |-> FALSE, text |-> v.text]
  ELSE [debug |-> TRUE,  text |-> v.text]

(***************************************************************************)
(* A pattern message carries pattern, channel and payload; an exact or     *)
(* shard message carries channel and payload.  A push of another kind, or  *)
(* one with too few values, is no message; surplus values are ignored.     *)
(***************************************************************************)
push_to_message(p) ==
  LET field(i) == value_to_bytes(p.data[i])
      size     == Len(p.data)
  IN CASE p.kind = "PMessage" /\ size >= 3 ->
            {[kind |-> p.kind, pattern |-> {field(1)},
              channel |-> field(2), payload |-> field(3)]}
       [] p.kind \in {"Message", "SMessage"} /\ size >= 2 ->
            {[kind |-> p.kind, pattern |-> {},
              channel |-> field(1), payload |-> field(2)]}
       [] OTHER -> {}

IsMessage(p) == push_to_message(p) # {}

Message == UNION {push_to_message(p) : p \in Push}
=============================================================================
