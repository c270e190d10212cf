------------------------------- MODULE Calls -------------------------------
(***************************************************************************)
(* Calls of the clients: the blocking ones (sync/mod.rs), which drive the  *)
(* async client on one process-wide runtime, and the async ones they wrap  *)
(* (executor.rs, client/mod.rs), with the route of a command (routes.rs)   *)
(* and the error its caller sees (error.rs).                               *)
(*                                                                         *)
(* A caller is a plain thread, or a task on a worker of the shared         *)
(* runtime.  It has a stack of calls, because the closure given to run()   *)
(* and the future it returns may call the client again.  The runtime, the  *)
(* core and the nodes are external, modelled from how the code uses them.  *)
(***************************************************************************)
EXTENDS Naturals, Sequences, FiniteSets, SequencesExt

CONSTANTS
  Thread, Task,        \* the callers
  Workers,             \* number of worker threads of the runtime
  Ops,                 \* for each caller, the calls it makes
  Inner,               \* the call made inside the closure or future of a run()
  Primary, Replica,    \* nodes
  Owner,               \* for each slot, its primary
  ReplicasOf,          \* for each primary, its replicas
  SlotOf,              \* get_slot, for each key
  Policy,              \* ResponsePolicy::for_command, "None" without one
  ReadOnly,            \* the commands that the core knows to only read
  MaxBuildFailures     \* bound on failed builds of the runtime

Caller == Thread \cup Task
Node == Primary \cup Replica

ASSUME CallsAssumption ==
  /\ Thread \cap Task = {} /\ Primary \cap Replica = {}
  /\ Workers \in Nat \ {0} /\ MaxBuildFailures \in Nat
  /\ \A s \in DOMAIN Owner : Owner[s] \in Primary
  /\ \A p \in Primary : ReplicasOf[p] \subseteq Replica
  /\ Primary # {}
  /\ \A key \in DOMAIN SlotOf : SlotOf[key] \in DOMAIN Owner

(* The calls made, and what the types of the code say of them and their routes. *)
Made == {Inner} \cup UNION {Ops[t] : t \in Caller}

ASSUME RouteAssumption ==
  \A op \in Made :
    /\ {op.typed, op.blocking} \subseteq BOOLEAN
    /\ op.read_from \in {"Primary", "PreferReplica", "AZAffinity", "AZAffinityReplicasAndPrimary",
                         "AllNodes"}
    /\ op.route.tag \in {"None", "AllNodes", "AllPrimaries", "RandomNode", "SlotKey", "SlotId",
                        "ByAddress"}
    /\ op.route.tag = "None" => op.key \in DOMAIN SlotOf
    /\ op.route.tag = "SlotKey" => op.route.key \in DOMAIN SlotOf
    /\ op.route.tag = "SlotId" => op.route.slot_id \in DOMAIN Owner

(* The inner call blocks, and makes no call from a closure of its own. *)
ASSUME InnerAssumption == Inner.blocking /\ Inner.nested # "closure"

VARIABLES
  rt,       \* RUNTIME: empty, building, or built
  built,    \* history: how many runtimes were built
  failed,   \* how many builds failed
  stack,    \* for each caller, its calls, the innermost last
  last      \* the call that ended in the last step, or NoCall

vars == <<rt, built, failed, stack, last>>

NoCall == [pc |-> "none"]
Init == /\ rt = "empty" /\ built = 0 /\ failed = 0
        /\ stack = [t \in Caller |-> <<>>]
        /\ last = NoCall
-----------------------------------------------------------------------------
(* Routes. *)
slot_addr_optional(type) == IF type = "Primary" THEN "Master" ELSE "ReplicaOptional"   \* mutant

slot_addr(type) == IF type = "Primary" THEN "Master" ELSE "ReplicaRequired"

(* The policy comes from the name of the command; a pipeline has none. *)
to_routing_info(route, cmd) ==
  LET response_policy == IF cmd = "pipeline" THEN "None" ELSE Policy[cmd]
      specific(slot, type) == [tag |-> "SpecificNode", slot |-> slot, addr |-> slot_addr(type)]
  IN CASE route.tag = "AllNodes" -> [tag |-> "AllNodes", policy |-> response_policy]
       [] route.tag = "AllPrimaries" -> [tag |-> "AllMasters", policy |-> response_policy]
       [] route.tag = "RandomNode" -> [tag |-> "Random"]
       [] route.tag = "SlotKey" -> specific(SlotOf[route.key], route.slot_type)
       [] route.tag = "SlotId" -> specific(route.slot_id, route.slot_type)
       [] route.tag = "ByAddress" -> [tag |-> "ByAddress", node |-> route.node]

(* The client's read_from lets its unrouted reads, and nothing else, go to replicas. *)
ReadsReplicas(op) == op.cmd \in ReadOnly /\ op.read_from # "Primary"

(* The routing of a call, or the core's for the command's key when it has no route. *)
Routing(op) ==
  IF op.route.tag = "None"
  THEN [tag |-> "SpecificNode", slot |-> SlotOf[op.key],
        addr |-> IF ReadsReplicas(op) THEN "ReplicaOptional" ELSE "Master"]
  ELSE to_routing_info(op.route, op.cmd)

IsMulti(r) == r.tag \in {"AllNodes", "AllMasters"}

(* The core picks one of these sets of nodes; none, when it knows no such node. *)
Targets(r) ==
  CASE r.tag = "AllNodes" -> {Node}
    [] r.tag = "AllMasters" -> {Primary}
    [] r.tag = "Random" -> {{n} : n \in Node}
    [] r.tag = "ByAddress" -> {{r.node} \cap Node} \ {{}}
    [] r.tag = "SpecificNode" ->
         LET p == Owner[r.slot]
         IN CASE r.addr = "Master" -> {{p}}
              [] r.addr = "ReplicaRequired" -> {{n} : n \in ReplicasOf[p]}
              [] r.addr = "ReplicaOptional" -> {{n} : n \in ReplicasOf[p] \cup {p}}
-----------------------------------------------------------------------------
(***************************************************************************)
(* Errors, named for their ErrorKind.  IoTimeout is an IoError, and        *)
(* ReceiveTimeout an error of a kind the match has no arm for, of which    *)
(* is_timeout() holds.                                                     *)
(***************************************************************************)
is_timeout(kind) == kind \in {"IoTimeout", "ReceiveTimeout"}

(* What a request that was sent and not answered may end with. *)
Losses == {"IoTimeout", "IoError", "ClientError", "FatalReceiveError", "ReceiveTimeout"}

(* What a node's refusal to execute ends with; MOVED to an unknown node is the first. *)
Refusals == {"ConnectionNotFoundForRoute", "TryAgain", "BusyLoadingError"}

(* What a request ends with before it is sent, apart from a node that is not known. *)
NotSent == {"IoError", "FatalSendError", "CircuitBreakerOpen", "InvalidClientConfig"}

from_lost_is_closing(kind) ==                                                          \* mutant
  IF kind = "ClientError" THEN "Closing" ELSE IF is_timeout(kind) THEN "Timeout" ELSE "Request"

from_redis_error(kind) ==
  CASE kind \in {"IoError", "ClientError", "IoTimeout"} ->
         IF is_timeout(kind) THEN "Timeout" ELSE "Connection"
    [] kind = "ExecAbortError" -> "ExecAbort"
    [] kind = "CircuitBreakerOpen" -> "CircuitBreaker"
    [] kind = "InvalidClientConfig" -> "Configuration"
    [] OTHER -> IF is_timeout(kind) THEN "Timeout" ELSE "Request"

(* execute_command and route_command map the error; glide_send_owned does not. *)
Error(op, kind) == IF op.typed THEN kind ELSE from_redis_error(kind)
-----------------------------------------------------------------------------
Call(op, pc) == [op |-> op, pc |-> pc, todo |-> {}, done |-> {}, sent |-> FALSE,
                 kind |-> "none", result |-> "none", unwound |-> <<>>]
Top(t) == Last(stack[t])
At(t, pc) == stack[t] # <<>> /\ Top(t).pc = pc
Becomes(t, call) == stack' = [stack EXCEPT ![t] = Front(@) \o <<call>>] /\ last' = NoCall
Goto(t, pc) == Becomes(t, [Top(t) EXCEPT !.pc = pc])

(* t is polled by a runtime: it is a task, or a future of its own is being run. *)
InAsync(t) == t \in Task \/ \E i \in DOMAIN stack[t] : stack[t][i].pc \in {"poll", "inside", "sent"}

(* A task in a blocking call keeps its worker; an awaiting one does not. *)
Holds(t) == t \in Task /\ \E i \in DOMAIN stack[t] : stack[t][i].op.blocking
WorkerFree == Cardinality({t \in Task : Holds(t)}) < Workers

(* The innermost call, now as given, returns to the caller or to the call around it. *)
Return(t, call, kind) ==
  /\ stack' = [stack EXCEPT ![t] = Front(@)]
  /\ last' = [call EXCEPT !.kind = kind,
                          !.result = IF kind = "Ok" THEN "Ok" ELSE Error(call.op, kind)]

(* Where the innermost call was made: in a future, in a closure, or by the caller. *)
Around(t) == IF Len(stack[t]) = 1 THEN "none" ELSE stack[t][Len(stack[t]) - 1].pc

(* A panic of the innermost call of t unwinds the ones around it as well. *)
Panic(t) ==
  /\ stack' = [stack EXCEPT ![t] = <<>>]
  /\ last' = [Top(t) EXCEPT !.result = "panic", !.unwound = Front(stack[t]),
                            !.kind = IF t \in Task THEN "task" ELSE Around(t)]
-----------------------------------------------------------------------------
(* A caller calls; tasks exist once there is a runtime, and run on a worker. *)
Start(t, op) ==
  /\ stack[t] = <<>>
  /\ t \in Task => rt = "built" /\ WorkerFree
  /\ stack' = [stack EXCEPT ![t] = <<Call(op, IF op.blocking THEN "runtime" ELSE "poll")>>]
  /\ last' = NoCall
  /\ UNCHANGED <<rt, built, failed>>

(* Mutant of get_or_init: empty is tested without excluding the other callers. *)
get_or_init_racy(t) ==
  /\ At(t, "runtime")
  /\ IF rt = "built" THEN rt' = rt /\ Goto(t, "ready")
     ELSE rt' = "building" /\ Goto(t, "building")
  /\ UNCHANGED <<built, failed>>

(* runtime(): the first caller builds, the others wait for the outcome. *)
get_or_init(t) ==
  /\ At(t, "runtime")
  /\ \/ rt = "built" /\ rt' = rt /\ Goto(t, "ready")
     \/ rt = "empty" /\ rt' = "building" /\ Goto(t, "building")
  /\ UNCHANGED <<built, failed>>

BuildOk(t) ==
  /\ At(t, "building")
  /\ rt' = "built" /\ built' = built + 1
  /\ Goto(t, "ready")
  /\ UNCHANGED failed

(* expect() panics in the initialiser: the cell stays empty for the next caller. *)
BuildFails(t) ==
  /\ At(t, "building") /\ failed < MaxBuildFailures
  /\ rt' = "empty" /\ failed' = failed + 1
  /\ Panic(t)
  /\ UNCHANGED built

(* The closure of run() is called to make the argument of block_on: on the *)
(* caller's thread, and outside any runtime.                               *)
CallClosure(t) ==
  /\ At(t, "ready") /\ Top(t).op.nested = "closure"
  /\ stack' = [stack EXCEPT ![t] = Front(@) \o <<[Top(t) EXCEPT !.pc = "closure"],
                                                 Call(Inner, "runtime")>>]
  /\ last' = NoCall
  /\ UNCHANGED <<rt, built, failed>>

HasFuture(t) == At(t, "closure") \/ (At(t, "ready") /\ Top(t).op.nested # "closure")

(* Mutants of block_on: it waits on any thread; making the future already sends. *)
block_on_anywhere(t) ==
  /\ HasFuture(t)
  /\ Goto(t, "poll")
  /\ UNCHANGED <<rt, built, failed>>

block_on_eager(t) ==
  /\ HasFuture(t)
  /\ IF InAsync(t)
     THEN /\ stack' = [stack EXCEPT ![t] = <<>>]
          /\ last' = [Top(t) EXCEPT !.result = "panic", !.sent = TRUE, !.unwound = Front(stack[t]),
                                    !.kind = IF t \in Task THEN "task" ELSE Around(t)]
     ELSE Goto(t, "poll")
  /\ UNCHANGED <<rt, built, failed>>

(* tokio refuses to block a thread that a runtime is polling. *)
block_on(t) ==
  /\ HasFuture(t)
  /\ IF InAsync(t) THEN Panic(t) ELSE Goto(t, "poll")
  /\ UNCHANGED <<rt, built, failed>>

(* The future of run() makes the inner blocking call: before its own command *)
(* is sent, while that is under way (as a join! does), or once it is answered. *)
CallInside(t) ==
  /\ At(t, "poll") \/ At(t, "sent")
  /\ Top(t).op.nested = "future"
  /\ stack' = [stack EXCEPT ![t] = Front(@) \o <<[Top(t) EXCEPT !.pc = "inside"],
                                                 Call(Inner, "runtime")>>]
  /\ last' = NoCall
  /\ UNCHANGED <<rt, built, failed>>

CanSend(t) == At(t, "poll") \/ At(t, "inside")

(* send_command: the core chooses the nodes and sends, or fails at once. *)
send_command(t) ==
  /\ CanSend(t)
  /\ LET ts == Targets(Routing(Top(t).op))
     IN \/ \E ns \in ts :
             Becomes(t, [Top(t) EXCEPT !.pc = "sent", !.todo = ns, !.done = {}, !.sent = TRUE])
        \/ \E kind \in NotSent \cup (IF ts = {} THEN {"ConnectionNotFoundForRoute"} ELSE {}) :
             Return(t, Top(t), kind)
  /\ UNCHANGED <<rt, built, failed>>

Execute(t, n) ==
  /\ At(t, "sent") /\ n \in Top(t).todo
  /\ Becomes(t, [Top(t) EXCEPT !.todo = @ \ {n}, !.done = @ \cup {n}])
  /\ UNCHANGED <<rt, built, failed>>

(* A reply is Ok when every node, or by policy one of them, succeeded. *)
AnswerOk(t) ==
  /\ At(t, "sent") /\ WorkerFree
  /\ \/ Top(t).todo = {}
     \/ LET r == Routing(Top(t).op) IN IsMulti(r) /\ r.policy = "OneSucceeded" /\ Top(t).done # {}
  /\ Return(t, Top(t), "Ok")
  /\ UNCHANGED <<rt, built, failed>>

AnswerErr(t) ==
  /\ At(t, "sent") /\ WorkerFree /\ Top(t).done # {}
  /\ \/ Return(t, Top(t), "ResponseError")
     \/ Top(t).op.cmd = "pipeline" /\ Return(t, Top(t), "ExecAbortError")
  /\ UNCHANGED <<rt, built, failed>>

(* Nodes answer without executing: they load their data, or do not have the  *)
(* slot and name a node the core has no connection to.  One refusal ends the *)
(* call, unless its command needs one success only.                          *)
Refused(t, ns, kind) ==
  /\ At(t, "sent") /\ WorkerFree /\ ns # {} /\ ns \subseteq Top(t).todo
  /\ LET r == Routing(Top(t).op)
     IN IsMulti(r) => /\ kind = "BusyLoadingError"
                      /\ r.policy = "OneSucceeded" => Top(t).done = {} /\ ns = Top(t).todo
  /\ Return(t, [Top(t) EXCEPT !.todo = @ \ ns], kind)
  /\ UNCHANGED <<rt, built, failed>>

(* The connection is lost or the request times out; the nodes may still execute. *)
GiveUp(t, kind) ==
  /\ At(t, "sent") /\ WorkerFree
  /\ Return(t, Top(t), kind)
  /\ UNCHANGED <<rt, built, failed>>

Step(t) ==
  \/ get_or_init(t) \/ BuildOk(t) \/ BuildFails(t) \/ CallClosure(t) \/ block_on(t)
  \/ send_command(t)

Next ==
  \E t \in Caller :
    \/ \E op \in Ops[t] : Start(t, op)
    \/ Step(t) \/ CallInside(t)
    \/ \E n \in Node : Execute(t, n)
    \/ AnswerOk(t) \/ AnswerErr(t)
    \/ \E ns \in SUBSET Node, kind \in Refusals : Refused(t, ns, kind)
    \/ \E kind \in Losses : GiveUp(t, kind)

(***************************************************************************)
(* Callers run, and the core's request timeout ends what is not answered:  *)
(* a worker that is free again and again sees to the timers between tasks. *)
(***************************************************************************)
Fairness == \A t \in Caller : WF_vars(Step(t)) /\ SF_vars(GiveUp(t, "IoTimeout"))

Spec == Init /\ [][Next]_vars
FairSpec == Spec /\ Fairness
-----------------------------------------------------------------------------
Kinds == {"none", "Ok", "ExecAbortError", "ResponseError"} \cup Losses \cup Refusals \cup NotSent
Classes == {"none", "Ok", "panic", "Timeout", "Connection", "ExecAbort", "CircuitBreaker",
            "Configuration", "Request"}

(* Every variable has its type; the Closing class is never made. *)
TypeOK ==
  /\ rt \in {"empty", "building", "built"} /\ built \in Nat /\ failed \in 0..MaxBuildFailures
  /\ \A t \in Caller : \A i \in DOMAIN stack[t] :
       /\ stack[t][i].pc \in {"runtime", "building", "ready", "closure", "poll", "inside", "sent"}
       /\ stack[t][i].todo \cap stack[t][i].done = {}
       /\ stack[t][i].todo \cup stack[t][i].done \subseteq Node
  /\ last # NoCall /\ last.result # "panic" =>
       last.kind \in Kinds /\ last.result \in Kinds \cup Classes

(***************************************************************************)
(* There is one runtime: however many callers race for it and however      *)
(* often building it fails, at most one is ever built, no build runs       *)
(* beside another or beside it, and nobody goes past runtime() without it. *)
(***************************************************************************)
OneRuntime ==
  LET building == {t \in Caller : At(t, "building")}
  IN /\ built <= 1 /\ (built = 1 <=> rt = "built")
     /\ Cardinality(building) <= 1 /\ (building # {} <=> rt = "building")
     /\ \A t \in Caller : \A i \in DOMAIN stack[t] :
          stack[t][i].op.blocking /\ stack[t][i].pc \notin {"runtime", "building"} => built = 1

(***************************************************************************)
(* After a panic it is known which calls may be repeated.  The blocking    *)
(* call that panics was made where a runtime is polling (as the docs of    *)
(* Commands and query_glide say) or could not build one, and sent nothing. *)
(* Of the run() calls unwound with it, only one whose future made it may   *)
(* have sent, and then nothing is known of that command; those whose       *)
(* closure was being called, and all others, have sent nothing.            *)
(***************************************************************************)
RepeatableAfterPanic ==
  last # NoCall /\ last.result = "panic" =>
    /\ ~last.sent /\ last.done = {}
    /\ last.pc \in {"building", "ready", "closure"} /\ last.op.blocking
    /\ last.pc # "building" => last.kind \in {"task", "inside"}
    /\ \A i \in DOMAIN last.unwound :
         LET call == last.unwound[i]
         IN IF call.sent THEN i = Len(last.unwound) /\ call.pc = "inside" /\ call.op.nested = "future"
            ELSE call.todo = {} /\ call.done = {}

(* The nodes the documentation of Route and of ReadFrom says the call is for. *)
Named(op) ==
  LET of(slot, type) == IF type = "Primary" THEN {Owner[slot]} ELSE ReplicasOf[Owner[slot]]
      r == op.route
      p == Owner[SlotOf[op.key]]
  IN CASE r.tag = "None" -> IF ReadsReplicas(op) THEN {p} \cup ReplicasOf[p] ELSE {p}
       [] r.tag \in {"AllNodes", "RandomNode"} -> Node
       [] r.tag = "AllPrimaries" -> Primary
       [] r.tag = "SlotKey" -> of(SlotOf[r.key], r.slot_type)
       [] r.tag = "SlotId" -> of(r.slot_id, r.slot_type)
       [] r.tag = "ByAddress" -> {r.node}

(***************************************************************************)
(* What a call returns is true of the nodes.  It is executed only on the   *)
(* nodes its route or its client's read_from names, a single-node one on   *)
(* one; Ok means on all of them (on one, for a command that needs one      *)
(* success); a timeout, and nothing else, is a Timeout; CircuitBreaker and *)
(* Configuration mean that nothing was sent, ExecAbort that a node         *)
(* answered, and the errors the tests call safe to retry that a single     *)
(* node neither executed the command nor will.  Timeout, Connection and    *)
(* Request are all that a request nobody executed or answered can end      *)
(* with: they leave open whether it was or will be executed.               *)
(***************************************************************************)
OutcomeIsTrue ==
  last # NoCall /\ last.result # "panic" =>
    LET op == last.op
        multi == op.route.tag \in {"AllNodes", "AllPrimaries"}
    IN /\ last.done \cup last.todo \subseteq Named(op)
       /\ ~multi => Cardinality(last.done \cup last.todo) <= 1
       /\ last.result = "Ok" => /\ last.done # {}
                                /\ \/ multi => last.done = Named(op)
                                   \/ op.cmd # "pipeline" /\ Policy[op.cmd] = "OneSucceeded"
       /\ ~op.typed => (is_timeout(last.kind) <=> last.result = "Timeout")
       /\ last.result \in {"CircuitBreaker", "Configuration"} => ~last.sent
       /\ last.result = "ExecAbort" => last.done # {}
       /\ ~multi /\ last.kind \in Refusals => last.done \cup last.todo = {}
       /\ ~op.typed /\ last.sent /\ last.done = {} =>
            last.result \in {"Timeout", "Connection", "Request"}

(* A call ends, whoever else calls and wherever: no call made on a worker *)
(* can take away the worker the answers of all need.                      *)
CallsEnd == \A t \in Caller : []<>(stack[t] = <<>>)
=============================================================================
