------------------------------ MODULE MCCalls ------------------------------
(* TLC instance of Calls: two primaries, one with a replica; one thread calls *)
(* and one nests calls, and a task awaits calls of every route or blocks.     *)
EXTENDS Calls, TLC

CONSTANTS t1, t2, k1, p1, p2, r1, k, gone

MCKeyed == [tag |-> "SlotKey", key |-> k, slot_type |-> "Primary"]
NoRoute == [tag |-> "None"]
Op(cmd, route, typed, blocking, nested) ==
  [cmd |-> cmd, key |-> k, route |-> route, typed |-> typed, blocking |-> blocking,
   nested |-> nested, read_from |-> "Primary"]
Preferring(op) == [op EXCEPT !.read_from = "PreferReplica"]

MCSingle == {[tag |-> "RandomNode"],
             [tag |-> "SlotId", slot_id |-> 0, slot_type |-> "Replica"],
             [tag |-> "SlotId", slot_id |-> 1, slot_type |-> "Replica"],
             [tag |-> "ByAddress", node |-> gone]}
MCRouted == {<<"PING", r>> : r \in MCSingle}
            \cup {<<"SCRIPT KILL", [tag |-> "AllPrimaries"]>>, <<"pipeline", [tag |-> "AllNodes"]>>}

MCInner == Op("GET", NoRoute, TRUE, TRUE, "no")

MCOps ==
  [t \in {t1, t2, k1} |->
     CASE t = t1 -> {Op("PING", [tag |-> "ByAddress", node |-> r1], FALSE, TRUE, "no")}
       [] t = t2 -> {Op("GET", MCKeyed, FALSE, TRUE, n) : n \in {"closure", "future"}}
       [] t = k1 -> {Op(c[1], c[2], FALSE, FALSE, "no") : c \in MCRouted}
                    \cup {Preferring(Op(c, NoRoute, FALSE, FALSE, "no")) : c \in {"GET", "SET"}}
                    \cup {Op("GET", NoRoute, TRUE, TRUE, "no")}]

MCOwner == (0 :> p1) @@ (1 :> p2)
MCReplicasOf == (p1 :> {r1}) @@ (p2 :> {})
MCSlotOf == k :> 0
MCPolicy == [c \in {"GET", "SET", "PING", "SCRIPT KILL"} |->
               CASE c \in {"GET", "SET"} -> "None"
                 [] c = "PING" -> "AllSucceeded"
                 [] c = "SCRIPT KILL" -> "OneSucceeded"]
=============================================================================
