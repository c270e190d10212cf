----------------------------- MODULE MCPipeline -----------------------------
(* TLC instances of Pipeline: the calls the entry points tell apart. *)
EXTENDS Pipeline, TLC

CONSTANTS x, y      \* keys

Good(k) == [key |-> k, bad |-> FALSE]
Bad(k)  == [key |-> k, bad |-> TRUE]

Call(entry, atomic, cmds, raise, rs, rc) ==
  [entry |-> entry, atomic |-> atomic, cmds |-> cmds, raise |-> raise,
   retry_server_error |-> rs, retry_connection_error |-> rc]

AllGood == <<Good(x), Good(x)>>
OneBad  == <<Bad(x), Good(x)>>

(* Both entry points; each option where it can make a difference. *)
MCJobAll ==
  {Call("execute", a, AllGood, FALSE, rs, rc) : a, rs, rc \in BOOLEAN}
    \cup {Call("execute", a, OneBad, r, FALSE, FALSE) : a, r \in BOOLEAN}
    \cup {Call("query", a, OneBad, FALSE, FALSE, FALSE) : a \in BOOLEAN}
    \cup {Call("query", TRUE, AllGood, FALSE, FALSE, FALSE)}
    \cup {Call("execute", TRUE, <<>>, TRUE, FALSE, FALSE)}

(* Two transactions on different keys. *)
MCJobWatch == {Call("execute", TRUE, <<Good(k)>>, TRUE, FALSE, FALSE) : k \in {x, y}}

MCSymmetry == Permutations(Task)
=============================================================================
