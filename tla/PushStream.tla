----------------------------- MODULE PushStream -----------------------------
(***************************************************************************)
(* What a client's Pub/Sub stream promises: the messages among the pushes  *)
(* form one stream, and each successful receive, by whichever caller,      *)
(* hands out exactly the next message of it.  No lock, no queue and no     *)
(* cancellation appears here: PubSub is shown to implement this.           *)
(***************************************************************************)
EXTENDS Push

CONSTANTS Task      \* the concurrent callers of the receive operations

VARIABLES log,        \* every push the core has sent, in order
          delivered,  \* what receivers got: [task, at (position in log), msg]
          closed      \* the core has dropped its sender

streamVars == <<log, delivered, closed>>

(* The position of the message delivered last. *)
LastAt(d) == IF d = <<>> THEN 0 ELSE d[Len(d)].at

(* n is the position of the first message of the log that is not delivered. *)
IsNext(n) == /\ n \in LastAt(delivered) + 1 .. Len(log)
             /\ IsMessage(log[n])
             /\ \A k \in LastAt(delivered) + 1 .. n - 1 : ~IsMessage(log[k])

StreamInit == log = <<>> /\ delivered = <<>> /\ closed = FALSE

Publish == /\ ~closed
           /\ \E p \in Push : log' = Append(log, p)
           /\ UNCHANGED <<delivered, closed>>

HandOut(t) == \E n \in 1..Len(log) :
  /\ IsNext(n)
  /\ \E m \in push_to_message(log[n]) :
       delivered' = Append(delivered, [task |-> t, at |-> n, msg |-> m])
  /\ UNCHANGED <<log, closed>>

Shut == ~closed /\ closed' = TRUE /\ UNCHANGED <<log, delivered>>

StreamNext == Publish \/ Shut \/ \E t \in Task : HandOut(t)

StreamSpec == StreamInit /\ [][StreamNext]_streamVars
=============================================================================
