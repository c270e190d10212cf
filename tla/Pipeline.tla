------------------------------ MODULE Pipeline ------------------------------
(***************************************************************************)
(* Pipelines and MULTI/EXEC transactions on a standalone client:           *)
(* execute_pipeline (run_pipeline in pipeline_options.rs) and query_glide  *)
(* (client/connection.rs).  The tasks use clones of one client, so they    *)
(* share its multiplexed connection, and with it the set of WATCHed keys;  *)
(* other clients write the same keys.  A batch is written to the           *)
(* connection as a whole and served in order.  The connection may be lost  *)
(* at any point; a call that times out leaves its batch on the connection. *)
(***************************************************************************)
EXTENDS Integers, Sequences

CONSTANTS Task,       \* callers, one pipeline call each
          Key,
          Job,        \* the calls a task may make
          MaxFaults   \* bound on lost connections and retryable errors

(***************************************************************************)
(* A job is a pipeline, with the entry point and options it is run with.   *)
(* A command increments its key, or fails when it runs (bad).              *)
(***************************************************************************)
ASSUME PipelineAssumption ==
  /\ MaxFaults \in Nat
  /\ \A j \in Job : /\ j.entry \in {"execute", "query"}
                    /\ j.cmds \in Seq([key : Key, bad : BOOLEAN])
                    /\ {j.atomic, j.raise} \subseteq BOOLEAN
                    /\ {j.retry_server_error, j.retry_connection_error}
                         \subseteq BOOLEAN

VARIABLES
  watched,   \* the keys the shared connection watches ...
  dirty,     \* ... and whether one of them has been written since
  pc,        \* where each task is
  job,       \* its call, as a set of at most one
  wire,      \* its batch on the connection, likewise
  result,    \* what the call returned
  faults,    \* number of faults of each kind so far
  applied,   \* history: how often each command of the call was run
  mine,      \* history: the keys the task watches, as it believes
  broken     \* history: one of those has been written since

connVars == <<watched, dirty>>
histVars == <<applied, mine, broken>>
vars == <<connVars, pc, job, wire, result, faults, histVars>>

Ok(items) == [ok |-> TRUE, items |-> items]
Err(why)  == [ok |-> FALSE, why |-> why]
-----------------------------------------------------------------------------
(* Mutants of Request: MULTI/EXEC dropped, flags swapped, errors not raised. *)
RequestAsPipeline(j) ==
  [transaction |-> FALSE, raise |-> j.entry = "query" \/ j.raise,
   retry |-> [server |-> j.retry_server_error, connection |-> j.retry_connection_error]]

RequestFlagsSwapped(j) ==
  [transaction |-> j.atomic, raise |-> j.entry = "query" \/ j.raise,
   retry |-> [server |-> j.retry_connection_error, connection |-> j.retry_server_error]]

RequestQuiet(j) ==
  [transaction |-> j.atomic, raise |-> j.raise,
   retry |-> [server |-> FALSE, connection |-> FALSE]]

(***************************************************************************)
(* The request each entry point makes of the core.  query_glide always     *)
(* raises and never retries; a transaction takes no retry flags at all.    *)
(***************************************************************************)
Request(j) ==
  LET options == IF j.entry = "query" \/ j.atomic
                 THEN [server |-> FALSE, connection |-> FALSE]
                 ELSE [server |-> j.retry_server_error,
                       connection |-> j.retry_connection_error]
  IN [transaction |-> j.atomic,
      raise       |-> j.entry = "query" \/ j.raise,
      retry       |-> options]

(* Mutant of run_pipeline_result: a Nil is one more reply. *)
run_pipeline_wraps_nil(v) == IF v.tag = "Array" THEN Ok(v.items) ELSE Ok(<<v>>)

(* run_pipeline's normalisation of the core's reply. *)
run_pipeline_result(v) ==
  CASE v.tag = "Array" -> Ok(v.items)
    [] v.tag = "Nil"   -> Ok(<<>>)
    [] OTHER           -> Ok(<<v>>)

(* Mutant of query_glide_result: an aborted transaction is an unknown reply. *)
query_glide_fails_nil(transaction, v) ==
  IF v.tag = "Array" THEN Ok(v.items) ELSE Err("nil")

(***************************************************************************)
(* query_glide hands over the EXEC reply as it is, for the redis crate to  *)
(* unwrap (a Nil is decoded as Nil), and fails on a pipeline reply that is *)
(* not an array.                                                           *)
(***************************************************************************)
query_glide_result(transaction, v) ==
  CASE v.tag = "Array"               -> Ok(v.items)
    [] v.tag = "Nil" /\ transaction  -> [ok |-> TRUE, nil |-> TRUE]
    [] OTHER                         -> Err("response")

(* The core's reply v to job j as the caller sees it. *)
Returned(j, v) ==
  IF v.tag = "Error" THEN Err("server")
  ELSE IF j.entry = "execute" THEN run_pipeline_result(v)
  ELSE query_glide_result(j.atomic, v)
-----------------------------------------------------------------------------
Batch(q, cmds) == [req |-> q, cmds |-> cmds, replies |-> <<>>, exec |-> "open"]

Init ==
  /\ watched = {}
  /\ dirty = FALSE
  /\ pc = [t \in Task |-> "idle"]
  /\ job = [t \in Task |-> {}]
  /\ wire = [t \in Task |-> {}]
  /\ result = [t \in Task |-> {}]
  /\ faults = [kind \in {"server", "connection"} |-> 0]
  /\ applied = [t \in Task |-> <<>>]
  /\ mine = [t \in Task |-> {}]
  /\ broken = [t \in Task |-> FALSE]

Finish(t, r) ==
  /\ pc' = [pc EXCEPT ![t] = "done"]
  /\ result' = [result EXCEPT ![t] = {r}]

(* watch and unwatch, sent on the shared connection. *)
watch(t, k) ==
  /\ pc[t] = "idle"
  /\ watched' = watched \cup {k}
  /\ mine' = [mine EXCEPT ![t] = @ \cup {k}]
  /\ UNCHANGED <<dirty, pc, job, wire, result, faults, applied, broken>>

unwatch(t) ==
  /\ pc[t] = "idle" /\ mine[t] # {}
  /\ watched' = {} /\ dirty' = FALSE
  /\ mine' = [mine EXCEPT ![t] = {}]
  /\ broken' = [broken EXCEPT ![t] = FALSE]
  /\ UNCHANGED <<pc, job, wire, result, faults, applied>>

(***************************************************************************)
(* The call: an empty pipeline is answered without the server, any other   *)
(* is handed to the core.                                                  *)
(***************************************************************************)
Begin(t, j) ==
  /\ pc[t] = "idle"
  /\ job' = [job EXCEPT ![t] = {j}]
  /\ applied' = [applied EXCEPT ![t] = [i \in DOMAIN j.cmds |-> 0]]
  /\ IF j.cmds = <<>>
     THEN Finish(t, Ok(<<>>)) /\ UNCHANGED wire
     ELSE /\ pc' = [pc EXCEPT ![t] = "waiting"]
          /\ wire' = [wire EXCEPT ![t] = {Batch(Request(j), j.cmds)}]
          /\ UNCHANGED result
  /\ UNCHANGED <<connVars, faults, mine, broken>>
-----------------------------------------------------------------------------
(* The keys in ks are written, by anyone. *)
Written(ks) ==
  /\ dirty' = (dirty \/ watched \cap ks # {})
  /\ broken' = [t \in Task |-> broken[t] \/ mine[t] \cap ks # {}]
  /\ UNCHANGED <<watched, mine>>

Write(k) ==
  /\ Written({k})
  /\ UNCHANGED <<pc, job, wire, result, faults, applied>>

Served(b) == b.exec # "open" \/ Len(b.replies) = Len(b.cmds)

(* Batches do not mix on the connection. *)
Turn(t) == \A u \in Task \ {t} : \A b \in wire[u] : b.replies = <<>> \/ Served(b)

(* The server runs the next command of a pipeline. *)
RunCommand(t) == \E b \in wire[t] :
  LET i == Len(b.replies) + 1
  IN /\ Turn(t) /\ ~b.req.transaction
     /\ i \in DOMAIN b.cmds
     /\ wire' = [wire EXCEPT ![t] =
                   {[b EXCEPT !.replies = Append(@, [cmd |-> i, err |-> b.cmds[i].bad])]}]
     /\ applied' = [applied EXCEPT ![t][i] = @ + 1]
     /\ Written(IF b.cmds[i].bad THEN {} ELSE {b.cmds[i].key})
     /\ UNCHANGED <<pc, job, result, faults>>

(* EXEC runs all commands at once, or none if a watched key was written. *)
Exec(t) == \E b \in wire[t] :
  /\ Turn(t) /\ b.req.transaction /\ b.exec = "open"
  /\ watched' = {} /\ dirty' = FALSE
  /\ mine' = [mine EXCEPT ![t] = {}]
  /\ IF dirty
     THEN /\ wire' = [wire EXCEPT ![t] = {[b EXCEPT !.exec = "aborted"]}]
          /\ UNCHANGED <<applied, broken>>
     ELSE LET ks == {b.cmds[i].key : i \in {i \in DOMAIN b.cmds : ~b.cmds[i].bad}}
          IN /\ wire' = [wire EXCEPT ![t] =
                  {[b EXCEPT !.exec = "run",
                             !.replies = [i \in DOMAIN b.cmds |->
                                            [cmd |-> i, err |-> b.cmds[i].bad]]]}]
             /\ applied' = [applied EXCEPT ![t] = [i \in DOMAIN @ |-> @[i] + 1]]
             /\ broken' = [u \in Task |-> broken[u] \/ (u # t /\ mine[u] \cap ks # {})]
  /\ UNCHANGED <<pc, job, result, faults>>

Fault(kind) ==
  /\ faults.server + faults.connection < MaxFaults
  /\ faults' = [faults EXCEPT ![kind] = @ + 1]

(***************************************************************************)
(* A retryable server error in place of the next command.  A pipeline that *)
(* may be retried is sent again, another has the error among its replies;  *)
(* a transaction is discarded as a whole.                                  *)
(***************************************************************************)
ServerError(t) == \E b \in wire[t] :
  LET i == Len(b.replies) + 1
      retry == b.req.retry.server /\ pc[t] = "waiting"
  IN /\ Turn(t) /\ Fault("server")
     /\ i \in DOMAIN b.cmds /\ b.exec = "open"
     /\ wire' = [wire EXCEPT ![t] =
          {CASE b.req.transaction -> [b EXCEPT !.exec = "discarded"]
             [] ~b.req.transaction /\ retry -> Batch(b.req, b.cmds)
             [] OTHER -> [b EXCEPT !.replies = Append(@, [cmd |-> i, err |-> TRUE])]}]
     /\ IF b.req.transaction THEN watched' = {} /\ dirty' = FALSE ELSE UNCHANGED connVars
     /\ UNCHANGED <<pc, job, result, histVars>>

(***************************************************************************)
(* The connection is lost, with what it watched and all that is on it.     *)
(* The core sends a pipeline again on the next one if it may, and fails    *)
(* the other calls.                                                        *)
(***************************************************************************)
ConnectionLost ==
  LET waiting(t) == pc[t] = "waiting"
      retry(t)   == waiting(t) /\ \E b \in wire[t] : b.req.retry.connection
  IN /\ Fault("connection")
     /\ watched' = {} /\ dirty' = FALSE
     /\ wire' = [t \in Task |-> IF retry(t) THEN {Batch(b.req, b.cmds) : b \in wire[t]}
                                            ELSE {}]
     /\ pc' = [t \in Task |-> IF waiting(t) /\ ~retry(t) THEN "done" ELSE pc[t]]
     /\ result' = [t \in Task |-> IF waiting(t) /\ ~retry(t) THEN {Err("connection")}
                                                             ELSE result[t]]
     /\ UNCHANGED <<job, histVars>>

(* The core's reply to a batch that has been served. *)
CoreReply(b) ==
  CASE b.exec = "aborted"   -> [tag |-> "Nil"]
    [] b.exec = "discarded" -> [tag |-> "Error"]
    [] b.req.raise /\ (\E i \in DOMAIN b.replies : b.replies[i].err) -> [tag |-> "Error"]
    [] OTHER                -> [tag |-> "Array", items |-> b.replies]

(* The reply arrives: the call returns, unless it has timed out before. *)
Reply(t) == \E b \in wire[t] :
  /\ Served(b)
  /\ wire' = [wire EXCEPT ![t] = {}]
  /\ IF pc[t] = "waiting"
     THEN \E j \in job[t] : Finish(t, Returned(j, CoreReply(b)))
     ELSE UNCHANGED <<pc, result>>
  /\ UNCHANGED <<connVars, job, faults, histVars>>

Timeout(t) ==
  /\ pc[t] = "waiting"
  /\ Finish(t, Err("timeout"))
  /\ UNCHANGED <<connVars, job, wire, faults, histVars>>

Next ==
  \/ \E t \in Task : \/ \E k \in Key : watch(t, k)
                     \/ unwatch(t)
                     \/ \E j \in Job : Begin(t, j)
                     \/ RunCommand(t) \/ Exec(t) \/ Reply(t)
                     \/ ServerError(t) \/ Timeout(t)
  \/ \E k \in Key : Write(k)
  \/ ConnectionLost

Spec == Init /\ [][Next]_vars
-----------------------------------------------------------------------------
(* Every variable has its type. *)
TypeOK ==
  /\ watched \in SUBSET Key
  /\ dirty \in BOOLEAN
  /\ pc \in [Task -> {"idle", "waiting", "done"}]
  /\ \A t \in Task : job[t] = {} \/ \E j \in Job : job[t] = {j}
  /\ \A t \in Task : \A b \in wire[t] : job[t] # {} /\ Len(b.replies) <= Len(b.cmds)
  /\ \A t \in Task : pc[t] = "waiting" => wire[t] # {}
  /\ \A t \in Task : \A r \in result[t] :
       \/ r.ok /\ DOMAIN r \in {{"ok", "items"}, {"ok", "nil"}}
       \/ r \in {Err(w) : w \in {"server", "response", "connection", "timeout"}}
  /\ \A t \in Task : pc[t] = "done" <=> result[t] # {}
  /\ faults \in [{"server", "connection"} -> 0..MaxFaults]
  /\ mine \in [Task -> SUBSET Key]
  /\ broken \in [Task -> BOOLEAN]

(***************************************************************************)
(* A transaction is run as a whole and at most once, whatever retry flags  *)
(* it is given, however the connection fails and however late it is        *)
(* executed ("a MULTI/EXEC is never partially retried").                   *)
(***************************************************************************)
TransactionIsAtomic ==
  \A t \in Task : \A j \in job[t] : j.atomic =>
    \A i, k \in DOMAIN applied[t] : applied[t][i] = applied[t][k] /\ applied[t][i] <= 1

(***************************************************************************)
(* Without retry flags no command of a pipeline is run twice; each flag    *)
(* allows one more run per fault of its own kind and none for the other    *)
(* (PipelineOptions; query_glide never retries).                           *)
(***************************************************************************)
RepeatedOnlyIfAllowed ==
  \A t \in Task : \A j \in job[t], i \in DOMAIN applied[t] :
    applied[t][i] <=
      1 + (IF j.entry = "execute" /\ j.retry_server_error THEN faults.server ELSE 0)
        + (IF j.entry = "execute" /\ j.retry_connection_error THEN faults.connection ELSE 0)

(***************************************************************************)
(* What a successful call returns is true of the server: an array holds    *)
(* the reply of every command at its place and each command was run (or    *)
(* answered by an error); an empty array for a non-empty pipeline, and a   *)
(* Nil, mean a transaction that was aborted and ran nothing.               *)
(***************************************************************************)
OkMeansApplied ==
  \A t \in Task : \A j \in job[t], r \in result[t] : r.ok =>
    \/ /\ "items" \in DOMAIN r
       /\ DOMAIN r.items = DOMAIN j.cmds
       /\ \A i \in DOMAIN r.items :
            r.items[i].cmd = i /\ (applied[t][i] > 0 \/ r.items[i].err)
    \/ /\ j.atomic
       /\ r = Ok(<<>>) \/ "nil" \in DOMAIN r
       /\ \A i \in DOMAIN applied[t] : applied[t][i] = 0

(***************************************************************************)
(* raise_on_error: a caller that asked for it, and every query_glide call, *)
(* never finds an error among the replies of a call that succeeded.        *)
(***************************************************************************)
RaisedNotInline ==
  \A t \in Task : \A j \in job[t], r \in result[t] :
    r.ok /\ "items" \in DOMAIN r /\ (j.raise \/ j.entry = "query") =>
      \A i \in DOMAIN r.items : ~r.items[i].err

(***************************************************************************)
(* "Watch the given keys for changes before a transaction": a transaction  *)
(* that was run found no key its caller watched changed.                   *)
(***************************************************************************)
WatchProtects ==
  \A t \in Task : \A j \in job[t] :
    j.atomic /\ broken[t] => \A i \in DOMAIN applied[t] : applied[t][i] = 0
=============================================================================
