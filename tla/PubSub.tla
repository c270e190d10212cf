------------------------------- MODULE PubSub -------------------------------
(***************************************************************************)
(* The Pub/Sub receive path of a client (client/mod.rs): an unbounded      *)
(* channel of pushes whose receiver sits behind a fair async mutex, and    *)
(* tasks that call get_pubsub_message or try_get_pubsub_message on clones  *)
(* of the client.  A call waits for the mutex, then keeps it while it      *)
(* takes pushes, across the await of recv(), until it returns.  Dropping   *)
(* a pending call (tokio::time::timeout around it, say) gives up its place *)
(* in the mutex's queue, or the mutex itself.                              *)
(***************************************************************************)
EXTENDS Push, SequencesExt

CONSTANTS Task,     \* concurrent callers, over all clones of the client
          MaxSent   \* bound on the pushes sent in a behaviour

ASSUME MaxSentAssumption == MaxSent \in Nat

VARIABLES
  client,     \* outcome of connect so far
  rx,         \* pubsub_rx.is_some()
  open,       \* the core still holds the channel's sender
  chan,       \* pushes in the channel
  lockQ,      \* the mutex: its holder, then the waiters in FIFO order
  pc,         \* where each task is
  op,         \* the operation it is in, or was in last
  ret,        \* how its last operation ended ("pending" while it runs)
  sent,       \* history: all pushes sent
  delivered   \* history: all messages returned, [task, at, msg]

clientVars == <<client, rx>>
callVars   == <<lockQ, pc, op, ret>>
vars == <<client, rx, open, chan, lockQ, pc, op, ret, sent, delivered>>

Ops      == {"get", "try"}
Outcomes == {"pending", "none_yet", "message", "empty", "closed",
             "unconfigured", "cancelled"}

Delivery == [task : Task, at : Nat \ {0}, msg : Message]

(* The position, among all pushes sent, of the head of the channel. *)
HeadPos == Len(sent) - Len(chan) + 1

Init ==
  /\ client = "new"
  /\ rx = FALSE
  /\ open = TRUE
  /\ chan = <<>>
  /\ lockQ = <<>>
  /\ pc = [t \in Task |-> "idle"]
  /\ op = [t \in Task |-> "get"]
  /\ ret = [t \in Task |-> "none_yet"]
  /\ sent = <<>>
  /\ delivered = <<>>
-----------------------------------------------------------------------------
(***************************************************************************)
(* Connecting.  subs is the configured subscription set as an option, and  *)
(* force the enable_pubsub() flag.  The channel is made before the core    *)
(* connects, and dropped with the rest of the call when that fails.        *)
(***************************************************************************)
HasSubs(subs) == subs = "some"

Connect(subs, force) ==
  /\ client # "connected"
  /\ client' = "connected"
  /\ rx' = (HasSubs(subs) \/ force)
  /\ UNCHANGED <<open, chan, sent, delivered, callVars>>

ConnectFails ==
  /\ client # "connected"
  /\ client' = "failed"
  /\ UNCHANGED <<rx, open, chan, sent, delivered, callVars>>

(***************************************************************************)
(* The core's side of the channel: it sends without ever waiting, and may  *)
(* drop the sender.                                                        *)
(***************************************************************************)
Send(p) ==
  /\ rx /\ open
  /\ Len(sent) < MaxSent
  /\ chan' = Append(chan, p)
  /\ sent' = Append(sent, p)
  /\ UNCHANGED <<open, delivered, clientVars, callVars>>

DropSender ==
  /\ rx /\ open
  /\ open' = FALSE
  /\ UNCHANGED <<chan, sent, delivered, clientVars, callVars>>
-----------------------------------------------------------------------------
(***************************************************************************)
(* A call o by task t.  Without a channel it fails at once; otherwise it   *)
(* queues for the mutex.                                                   *)
(***************************************************************************)
Unconfigured(t, o) ==
  /\ client = "connected" /\ ~rx
  /\ pc[t] = "idle"
  /\ op' = [op EXCEPT ![t] = o]
  /\ ret' = [ret EXCEPT ![t] = "unconfigured"]
  /\ UNCHANGED <<lockQ, pc, open, chan, sent, delivered, clientVars>>

Lock(t, o) ==
  /\ client = "connected" /\ rx
  /\ pc[t] = "idle"
  /\ lockQ' = Append(lockQ, t)
  /\ pc' = [pc EXCEPT ![t] = "locking"]
  /\ op' = [op EXCEPT ![t] = o]
  /\ ret' = [ret EXCEPT ![t] = "pending"]
  /\ UNCHANGED <<open, chan, sent, delivered, clientVars>>

Acquire(t) ==
  /\ pc[t] = "locking"
  /\ lockQ[1] = t
  /\ pc' = [pc EXCEPT ![t] = "receiving"]
  /\ UNCHANGED <<lockQ, op, ret, open, chan, sent, delivered, clientVars>>

(* Returning drops the guard: the next waiter, if any, owns the mutex. *)
Return(t, how) ==
  /\ lockQ' = Tail(lockQ)
  /\ pc' = [pc EXCEPT ![t] = "idle"]
  /\ ret' = [ret EXCEPT ![t] = how]
  /\ UNCHANGED op

(* Mutants of Receive: the push is returned unconverted; the newest one is taken. *)
ReceiveRaw(t) ==
  /\ pc[t] = "receiving"
  /\ chan # <<>>
  /\ chan' = Tail(chan)
  /\ delivered' = Append(delivered, [task |-> t, at |-> HeadPos, msg |-> chan[1]])
  /\ Return(t, "message")
  /\ UNCHANGED <<open, sent, clientVars>>

ReceiveNewest(t) ==
  /\ pc[t] = "receiving"
  /\ chan # <<>>
  /\ chan' = Front(chan)
  /\ \E m \in push_to_message(Last(chan)) :
       delivered' = Append(delivered, [task |-> t, at |-> Len(sent), msg |-> m])
  /\ Return(t, "message")
  /\ UNCHANGED <<open, sent, clientVars>>

(* recv() and try_recv() take the head of the channel. *)
Receive(t) ==
  /\ pc[t] = "receiving"
  /\ chan # <<>>
  /\ chan' = Tail(chan)
  /\ \E m \in push_to_message(chan[1]) :
       delivered' = Append(delivered, [task |-> t, at |-> HeadPos, msg |-> m])
  /\ Return(t, "message")
  /\ UNCHANGED <<open, sent, clientVars>>

(* Mutant of Skip: no loop, a try that meets a confirmation gives up. *)
SkipGivesUp(t) ==
  /\ pc[t] = "receiving"
  /\ chan # <<>>
  /\ ~IsMessage(chan[1])
  /\ chan' = Tail(chan)
  /\ IF op[t] = "try" THEN Return(t, "empty") ELSE UNCHANGED callVars
  /\ UNCHANGED <<open, sent, delivered, clientVars>>

(* A push that is no message is consumed and the loop goes on. *)
Skip(t) ==
  /\ pc[t] = "receiving"
  /\ chan # <<>>
  /\ ~IsMessage(chan[1])
  /\ chan' = Tail(chan)
  /\ UNCHANGED <<open, sent, delivered, clientVars, callVars>>

(* Mutants of FoundClosed: queued pushes are dropped; get never learns of it. *)
FoundClosedEarly(t) ==
  /\ pc[t] = "receiving"
  /\ ~open
  /\ Return(t, "closed")
  /\ UNCHANGED <<open, chan, sent, delivered, clientVars>>

FoundClosedByTry(t) ==
  /\ pc[t] = "receiving" /\ op[t] = "try"
  /\ chan = <<>> /\ ~open
  /\ Return(t, "closed")
  /\ UNCHANGED <<open, chan, sent, delivered, clientVars>>

(* Only an empty channel reports that its sender is gone. *)
FoundClosed(t) ==
  /\ pc[t] = "receiving"
  /\ chan = <<>> /\ ~open
  /\ Return(t, "closed")
  /\ UNCHANGED <<open, chan, sent, delivered, clientVars>>

(* TryRecvError::Empty. *)
FoundEmpty(t) ==
  /\ pc[t] = "receiving" /\ op[t] = "try"
  /\ chan = <<>> /\ open
  /\ Return(t, "empty")
  /\ UNCHANGED <<open, chan, sent, delivered, clientVars>>

(* Mutants of Cancel: the mutex is kept; the push being received is lost. *)
CancelKeepsLock(t) ==
  /\ \/ pc[t] = "locking"
     \/ pc[t] = "receiving" /\ op[t] = "get"
  /\ pc' = [pc EXCEPT ![t] = "idle"]
  /\ ret' = [ret EXCEPT ![t] = "cancelled"]
  /\ UNCHANGED <<lockQ, op, open, chan, sent, delivered, clientVars>>

CancelLosesPush(t) ==
  /\ \/ pc[t] = "locking" /\ UNCHANGED chan
     \/ pc[t] = "receiving" /\ op[t] = "get" /\ chan # <<>> /\ chan' = Tail(chan)
  /\ \E i \in DOMAIN lockQ : lockQ[i] = t /\ lockQ' = RemoveAt(lockQ, i)
  /\ pc' = [pc EXCEPT ![t] = "idle"]
  /\ ret' = [ret EXCEPT ![t] = "cancelled"]
  /\ UNCHANGED <<op, open, sent, delivered, clientVars>>

(***************************************************************************)
(* Dropping a call at an await point: lock().await in both operations,     *)
(* recv().await in get.  A try that holds the mutex never awaits.          *)
(***************************************************************************)
Cancel(t) ==
  /\ \/ pc[t] = "locking"
     \/ pc[t] = "receiving" /\ op[t] = "get"
  /\ \E i \in DOMAIN lockQ : lockQ[i] = t /\ lockQ' = RemoveAt(lockQ, i)
  /\ pc' = [pc EXCEPT ![t] = "idle"]
  /\ ret' = [ret EXCEPT ![t] = "cancelled"]
  /\ UNCHANGED <<op, open, chan, sent, delivered, clientVars>>

(* The steps a task takes by itself once it is in a call. *)
Advance(t) ==
  Acquire(t) \/ Receive(t) \/ Skip(t) \/ FoundClosed(t) \/ FoundEmpty(t)

Next ==
  \/ \E subs \in {"absent", "empty", "some"}, force \in BOOLEAN :
       Connect(subs, force)
  \/ ConnectFails
  \/ \E p \in Push : Send(p)
  \/ DropSender
  \/ \E t \in Task, o \in Ops : Unconfigured(t, o) \/ Lock(t, o)
  \/ \E t \in Task : Advance(t) \/ Cancel(t)

Spec == Init /\ [][Next]_vars

(***************************************************************************)
(* The runtime polls a woken task: a task that can advance does.  Nothing  *)
(* obliges the core to send, nor a caller to call or to give up.           *)
(***************************************************************************)
Fairness == \A t \in Task : WF_vars(Advance(t))

FairSpec == Spec /\ Fairness
-----------------------------------------------------------------------------
(* Every variable has its type. *)
TypeOK ==
  /\ client \in {"new", "failed", "connected"}
  /\ rx \in BOOLEAN
  /\ open \in BOOLEAN
  /\ chan \in Seq(Push)
  /\ lockQ \in Seq(Task)
  /\ pc \in [Task -> {"idle", "locking", "receiving"}]
  /\ op \in [Task -> Ops]
  /\ ret \in [Task -> Outcomes]
  /\ sent \in Seq(Push)
  /\ delivered \in Seq(Delivery)

(* The tasks in the mutex's queue are the tasks in a call, each once. *)
QueuedIffCalling ==
  /\ \A i, j \in DOMAIN lockQ : lockQ[i] = lockQ[j] => i = j
  /\ \A i \in DOMAIN lockQ : pc[lockQ[i]] # "idle"
  /\ \A t \in Task : pc[t] # "idle" => \E i \in DOMAIN lockQ : lockQ[i] = t

(* Whoever takes pushes holds the mutex. *)
ReceiverHoldsLock == \A t \in Task : pc[t] = "receiving" => lockQ[1] = t

(***************************************************************************)
(* The receiver is used by one task at a time, and no finished or dropped  *)
(* call keeps the mutex or a place in its queue (the single-consumer       *)
(* claim on PushRx; guards are dropped on return and on cancellation).     *)
(***************************************************************************)
SingleConsumer == QueuedIffCalling /\ ReceiverHoldsLock

(* The channel holds the pushes sent and not yet taken, in order. *)
ChannelIsUntaken ==
  /\ Len(chan) <= Len(sent)
  /\ \A i \in DOMAIN chan : chan[i] = sent[HeadPos + i - 1]

(* Message n of the log was returned to some caller. *)
Delivered(n) == \E i \in DOMAIN delivered : delivered[i].at = n

(* Deliveries follow the order in which the core sent the pushes. *)
DeliveredInOrder ==
  \A i, j \in DOMAIN delivered : i < j => delivered[i].at < delivered[j].at

(* What is returned is the conversion of a push that left the channel. *)
DeliveredIsTaken ==
  \A i \in DOMAIN delivered :
    /\ delivered[i].at \in 1 .. HeadPos - 1
    /\ delivered[i].msg \in push_to_message(sent[delivered[i].at])

(* No message leaves the channel without being returned. *)
TakenIsDelivered ==
  \A n \in 1 .. HeadPos - 1 : IsMessage(sent[n]) => Delivered(n)

(***************************************************************************)
(* Over all concurrent get and try calls, cancelled ones included, the     *)
(* messages taken from the channel are returned exactly once, in the order *)
(* sent (recv_pubsub_message and try_recv_pubsub_message pop and return    *)
(* under one guard, with no await between).                                *)
(***************************************************************************)
ExactlyOnceInOrder == DeliveredInOrder /\ DeliveredIsTaken /\ TakenIsDelivered

(***************************************************************************)
(* "pub/sub channel closed" is reported only once every message ever sent  *)
(* has been returned to some caller (recv drains before it yields None).   *)
(***************************************************************************)
ClosedMeansDrained ==
  \A t \in Task : ret[t] = "closed" =>
    \A n \in DOMAIN sent : IsMessage(sent[n]) => Delivered(n)

(***************************************************************************)
(* try_get_pubsub_message returns None only when no message is in the      *)
(* channel: confirmations queued ahead of a message do not hide it.        *)
(***************************************************************************)
NoneMeansNoMessage ==
  [][\A t \in Task : ret[t] # "empty" /\ ret'[t] = "empty" =>
       \A i \in DOMAIN chan : ~IsMessage(chan[i])]_vars

(***************************************************************************)
(* A get call that stays is served: while it waits, a message already sent *)
(* reaches some caller, whoever else calls or cancels (the mutex is fair   *)
(* and every exit of a call frees it).                                     *)
(***************************************************************************)
WaitingGetIsServed ==
  \A t \in Task, n \in 1..MaxSent :
    /\ pc[t] # "idle" /\ op[t] = "get"
    /\ n \in HeadPos .. Len(sent) /\ IsMessage(sent[n])
    ~> pc[t] = "idle" \/ Delivered(n)

(***************************************************************************)
(* Once the core drops its sender every pending call returns (with a       *)
(* message still queued, or with the closed error): none hangs.            *)
(***************************************************************************)
CloseReleasesCallers ==
  \A t \in Task : ~open /\ pc[t] # "idle" ~> pc[t] = "idle"

(***************************************************************************)
(* "Try to get the next Pub/Sub message without blocking": a try call ends *)
(* by itself, without waiting for a push.                                  *)
(***************************************************************************)
TryDoesNotBlock ==
  \A t \in Task : pc[t] # "idle" /\ op[t] = "try" ~> pc[t] = "idle"

(* The receive path implements one ordered stream of messages. *)
Stream == INSTANCE PushStream WITH log <- sent, closed <- ~open

(***************************************************************************)
(* Refinement: with the mutex, the skipping loop, cancellation and the     *)
(* channel hidden, the clients' receive operations behave as PushStream.   *)
(***************************************************************************)
ImplementsStream == Stream!StreamSpec
=============================================================================
