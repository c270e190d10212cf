-------------------------- MODULE Pipeline_proofs --------------------------
(***************************************************************************)
(* Proofs about Pipeline for any number of tasks, any jobs over any keys   *)
(* and any number of faults.                                               *)
(***************************************************************************)
EXTENDS Pipeline, SequenceTheorems, TLAPS

(* How often a command of job j may have been run. *)
Budget(j) ==
  1 + (IF j.entry = "execute" /\ j.retry_server_error THEN faults.server ELSE 0)
    + (IF j.entry = "execute" /\ j.retry_connection_error THEN faults.connection ELSE 0)

(* Of the variables that are not about one task, and the domains. *)
Globals ==
  /\ watched \in SUBSET Key /\ dirty \in BOOLEAN
  /\ pc \in [Task -> {"idle", "waiting", "done"}]
  /\ faults \in [{"server", "connection"} -> 0..MaxFaults]
  /\ mine \in [Task -> SUBSET Key] /\ broken \in [Task -> BOOLEAN]
  /\ DOMAIN job = Task /\ DOMAIN wire = Task
  /\ DOMAIN result = Task /\ DOMAIN applied = Task

(* A task has a job from its call on; before, nothing of it is anywhere.   *)
(* A call that succeeded has left nothing on the connection.               *)
CallInv(t) ==
  /\ \/ job[t] = {} /\ wire[t] = {} /\ result[t] = {} /\ applied[t] = <<>>
     \/ pc[t] # "idle" /\ \E j \in Job : job[t] = {j}
  /\ pc[t] = "waiting" => wire[t] # {}
  /\ pc[t] = "done" <=> result[t] # {}
  /\ \A r \in result[t] : r.ok => wire[t] = {}

(* The counts of a call's commands: bounded by the faults that allow a     *)
(* retry, and for a transaction by one for all of them.                    *)
AppliedInv(t) == \A j \in job[t] :
  /\ applied[t] \in [DOMAIN j.cmds -> Nat]
  /\ \A i \in DOMAIN j.cmds : applied[t][i] <= Budget(j)
  /\ j.atomic => \A i, k \in DOMAIN j.cmds :
                   applied[t][i] = applied[t][k] /\ applied[t][i] <= 1

(* A batch is the call's, and its replies are to its commands, in order. *)
BatchFor(j) == [req : {Request(j)}, cmds : {j.cmds},
                replies : Seq([cmd : Nat, err : BOOLEAN]),
                exec : {"open", "run", "aborted", "discarded"}]

BatchInv(t) == \A j \in job[t], b \in wire[t] :
  /\ b \in BatchFor(j)
  /\ Len(b.replies) <= Len(j.cmds)
  /\ \A i \in 1..Len(b.replies) :
       b.replies[i].cmd = i /\ (applied[t][i] > 0 \/ b.replies[i].err)

(* A transaction has run as a whole or not at all. *)
ExecInv(t) == \A j \in job[t], b \in wire[t] : j.atomic =>
  /\ b.exec = "run" => Len(b.replies) = Len(j.cmds)
  /\ b.exec # "run" => b.replies = <<>> /\ \A i \in DOMAIN j.cmds : applied[t][i] = 0

(* The commands of a pipeline that wait to be served have a run to spare. *)
PendingInv(t) == \A j \in job[t], b \in wire[t] : ~j.atomic =>
  /\ b.exec = "open"
  /\ \A i \in DOMAIN j.cmds : i > Len(b.replies) => applied[t][i] < Budget(j)

(* What a call returned: the conjuncts for one task of the type invariant, *)
(* of OkMeansApplied and of RaisedNotInline.                               *)
ResultInv(t) == \A j \in job[t], r \in result[t] :
  /\ \/ r.ok /\ DOMAIN r \in {{"ok", "items"}, {"ok", "nil"}}
     \/ r \in {Err(w) : w \in {"server", "response", "connection", "timeout"}}
  /\ r.ok =>
       \/ /\ "items" \in DOMAIN r
          /\ DOMAIN r.items = DOMAIN j.cmds
          /\ \A i \in DOMAIN r.items :
               r.items[i].cmd = i /\ (applied[t][i] > 0 \/ r.items[i].err)
       \/ /\ j.atomic
          /\ r = Ok(<<>>) \/ "nil" \in DOMAIN r
          /\ \A i \in DOMAIN applied[t] : applied[t][i] = 0
  /\ r.ok /\ "items" \in DOMAIN r /\ (j.raise \/ j.entry = "query") =>
       \A i \in DOMAIN r.items : ~r.items[i].err

InvOf(t) == /\ CallInv(t) /\ AppliedInv(t) /\ BatchInv(t) /\ ExecInv(t)
            /\ PendingInv(t) /\ ResultInv(t)

IInv == Globals /\ \A t \in Task : InvOf(t)
-----------------------------------------------------------------------------
(* What the request of a job asks for: a transaction is never retried, and *)
(* query_glide never retries and always raises.                            *)
LEMMA JobFacts ==
  ASSUME NEW j \in Job
  PROVE  /\ j.entry \in {"execute", "query"} /\ j.atomic \in BOOLEAN
         /\ j.cmds \in Seq([key : Key, bad : BOOLEAN])
         /\ Len(j.cmds) \in Nat /\ DOMAIN j.cmds = 1..Len(j.cmds)
         /\ \A i \in DOMAIN j.cmds : j.cmds[i].bad \in BOOLEAN
         /\ Request(j).transaction = j.atomic
         /\ Request(j).raise = (j.entry = "query" \/ j.raise)
         /\ Request(j).retry.server =>
              ~j.atomic /\ j.entry = "execute" /\ j.retry_server_error
         /\ Request(j).retry.connection =>
              ~j.atomic /\ j.entry = "execute" /\ j.retry_connection_error
<1>1. /\ j.entry \in {"execute", "query"} /\ j.atomic \in BOOLEAN
      /\ j.cmds \in Seq([key : Key, bad : BOOLEAN])
  BY PipelineAssumption
<1>2. Len(j.cmds) \in Nat /\ DOMAIN j.cmds = 1..Len(j.cmds)
  BY <1>1, LenProperties
<1>3. \A i \in DOMAIN j.cmds : j.cmds[i].bad \in BOOLEAN
  <2>1. \A i \in 1..Len(j.cmds) : j.cmds[i] \in [key : Key, bad : BOOLEAN]
    BY <1>1, ElementOfSeq
  <2> QED BY <1>2, <2>1
<1> QED BY <1>1, <1>2, <1>3 DEF Request

(* The budget is a number, and faults only add to it. *)
LEMMA BudgetGrows ==
  ASSUME Globals, NEW j,
         \/ faults' = faults
         \/ Fault("server") \/ Fault("connection")
  PROVE  /\ Budget(j) \in Nat \ {0} /\ Budget(j)' \in Nat /\ Budget(j) <= Budget(j)'
         /\ Fault("server") /\ j.entry = "execute" /\ j.retry_server_error =>
              Budget(j)' = Budget(j) + 1
         /\ Fault("connection") /\ j.entry = "execute" /\ j.retry_connection_error =>
              Budget(j)' = Budget(j) + 1
<1>1. /\ faults.server \in Nat /\ faults.connection \in Nat
      /\ faults.server <= MaxFaults /\ faults.connection <= MaxFaults
  BY PipelineAssumption DEF Globals
<1>2. Fault("server") => /\ faults'.server = faults.server + 1
                         /\ faults'.connection = faults.connection
  BY DEF Globals, Fault
<1>3. Fault("connection") => /\ faults'.server = faults.server
                             /\ faults'.connection = faults.connection + 1
  BY DEF Globals, Fault
<1> QED BY <1>1, <1>2, <1>3 DEF Budget
-----------------------------------------------------------------------------
(* What is said of a call's batch and counts is kept while its commands    *)
(* are not run: the budget of its commands can only grow.                  *)
LEMMA SameBatch ==
  ASSUME IInv, NEW t \in Task,
         faults' = faults \/ Fault("server") \/ Fault("connection"),
         job'[t] = job[t], wire'[t] \subseteq wire[t], applied'[t] = applied[t]
  PROVE  AppliedInv(t)' /\ BatchInv(t)' /\ ExecInv(t)' /\ PendingInv(t)'
<1>1. InvOf(t) /\ Globals
  BY DEF IInv
<1>3. AppliedInv(t)'
  <2> SUFFICES ASSUME NEW j \in job[t]
               PROVE  /\ applied[t] \in [DOMAIN j.cmds -> Nat]
                      /\ \A i \in DOMAIN j.cmds : applied[t][i] <= Budget(j)'
                      /\ j.atomic => \A i, k \in DOMAIN j.cmds :
                           applied[t][i] = applied[t][k] /\ applied[t][i] <= 1
    BY DEF AppliedInv, Budget
  <2>1. /\ applied[t] \in [DOMAIN j.cmds -> Nat]
        /\ \A i \in DOMAIN j.cmds : applied[t][i] <= Budget(j)
        /\ j.atomic => \A i, k \in DOMAIN j.cmds :
                         applied[t][i] = applied[t][k] /\ applied[t][i] <= 1
    BY <1>1 DEF InvOf, AppliedInv
  <2>2. Budget(j) \in Nat /\ Budget(j)' \in Nat /\ Budget(j) <= Budget(j)'
    BY <1>1, BudgetGrows
  <2> HIDE DEF Budget
  <2>3. \A i \in DOMAIN j.cmds : applied[t][i] <= Budget(j)'
    BY <2>1, <2>2
  <2> QED BY <2>1, <2>3
<1>4. BatchInv(t)' /\ ExecInv(t)'
  BY <1>1 DEF InvOf, BatchInv, ExecInv
<1>5. PendingInv(t)'
  <2> SUFFICES ASSUME NEW j \in job[t], NEW b \in wire[t], ~j.atomic
               PROVE  /\ b.exec = "open"
                      /\ \A i \in DOMAIN j.cmds :
                           i > Len(b.replies) => applied[t][i] < Budget(j)'
    BY DEF PendingInv, Budget
  <2>1. /\ b.exec = "open"
        /\ \A i \in DOMAIN j.cmds : i > Len(b.replies) => applied[t][i] < Budget(j)
        /\ applied[t] \in [DOMAIN j.cmds -> Nat]
    BY <1>1 DEF InvOf, PendingInv, AppliedInv
  <2>2. Budget(j) \in Nat /\ Budget(j)' \in Nat /\ Budget(j) <= Budget(j)'
    BY <1>1, BudgetGrows
  <2> QED BY <2>1, <2>2
<1> QED BY <1>3, <1>4, <1>5

(* A step that leaves a task alone keeps what is said of it. *)
LEMMA OthersStep ==
  ASSUME IInv, NEW t \in Task,
         faults' = faults \/ Fault("server") \/ Fault("connection"),
         pc'[t] = pc[t], job'[t] = job[t], wire'[t] = wire[t],
         result'[t] = result[t], applied'[t] = applied[t]
  PROVE  InvOf(t)'
<1>1. CallInv(t)' /\ ResultInv(t)'
  BY DEF IInv, InvOf, CallInv, ResultInv
<1> QED BY <1>1, SameBatch DEF InvOf

(* The call fails: a transport error or a timeout, in either case whatever *)
(* the server has done or will do.                                         *)
LEMMA FailStep ==
  ASSUME IInv, NEW t \in Task,
         faults' = faults \/ Fault("server") \/ Fault("connection"),
         NEW w \in {"connection", "timeout"},
         pc[t] = "waiting", pc'[t] = "done", job'[t] = job[t],
         wire'[t] \subseteq wire[t], result'[t] = {Err(w)}, applied'[t] = applied[t]
  PROVE  InvOf(t)'
<1>1. ~Err(w).ok
  BY DEF Err
<1>2. CallInv(t)'
  <2>1. \A r \in result'[t] : ~r.ok
    BY <1>1
  <2>2. job[t] # {}
    BY DEF IInv, InvOf, CallInv
  <2> QED BY <2>1, <2>2 DEF IInv, InvOf, CallInv
<1>3. ResultInv(t)'
  BY <1>1 DEF ResultInv
<1> QED BY <1>2, <1>3, SameBatch DEF InvOf

(* A step of the server on a batch leaves the caller where it is; nothing  *)
(* has been returned with success while a batch is under way.              *)
LEMMA BatchStep ==
  ASSUME IInv, NEW t \in Task, wire[t] # {}, wire'[t] # {},
         pc'[t] = pc[t], job'[t] = job[t], result'[t] = result[t],
         AppliedInv(t)', BatchInv(t)', ExecInv(t)', PendingInv(t)'
  PROVE  InvOf(t)'
<1>1. CallInv(t) /\ ResultInv(t) /\ \A r \in result[t] : ~r.ok
  BY DEF IInv, InvOf, CallInv
<1>2. CallInv(t)'
  BY <1>1 DEF CallInv
<1>3. ResultInv(t)'
  BY <1>1 DEF ResultInv
<1> QED BY <1>2, <1>3 DEF InvOf

(* Batch b of task t serves job j. *)
BatchOf(t, j, b) ==
  /\ job[t] = {j} /\ pc[t] # "idle"
  /\ b \in BatchFor(j)
  /\ b.req = Request(j) /\ b.cmds = j.cmds
  /\ b.replies \in Seq([cmd : Nat, err : BOOLEAN])
  /\ Len(b.replies) \in Nat /\ Len(b.replies) <= Len(j.cmds)
  /\ DOMAIN b.replies = 1..Len(b.replies)
  /\ \A i \in 1..Len(b.replies) :
       b.replies[i].cmd = i /\ (applied[t][i] > 0 \/ b.replies[i].err)
  /\ applied[t] \in [DOMAIN j.cmds -> Nat]

LEMMA BatchFacts ==
  ASSUME IInv, NEW t \in Task, NEW b \in wire[t]
  PROVE  \E j \in Job : BatchOf(t, j, b)
<1>1. InvOf(t)
  BY DEF IInv
<1>2. PICK j \in Job : job[t] = {j} /\ pc[t] # "idle"
  BY <1>1 DEF InvOf, CallInv
<1>3. /\ b \in BatchFor(j)
      /\ Len(b.replies) <= Len(j.cmds)
      /\ \A i \in 1..Len(b.replies) :
           b.replies[i].cmd = i /\ (applied[t][i] > 0 \/ b.replies[i].err)
  BY <1>1, <1>2 DEF InvOf, BatchInv
<1>4. /\ b.req = Request(j) /\ b.cmds = j.cmds
      /\ b.replies \in Seq([cmd : Nat, err : BOOLEAN])
  BY <1>3 DEF BatchFor
<1>5. Len(b.replies) \in Nat /\ DOMAIN b.replies = 1..Len(b.replies)
  BY <1>4, LenProperties
<1>6. applied[t] \in [DOMAIN j.cmds -> Nat]
  BY <1>1, <1>2 DEF InvOf, AppliedInv
<1> QED BY <1>2, <1>3, <1>4, <1>5, <1>6 DEF BatchOf

(* Answering the next command of a batch that is open: the replies stay in *)
(* order, and the commands behind keep a run to spare.                     *)
LEMMA AppendStep ==
  ASSUME IInv, NEW t \in Task, NEW b \in wire[t], ~b.req.transaction,
         NEW e \in BOOLEAN, NEW i, i = Len(b.replies) + 1, i \in DOMAIN b.cmds,
         faults' = faults \/ Fault("server") \/ Fault("connection"),
         wire'[t] = {[b EXCEPT !.replies = Append(@, [cmd |-> i, err |-> e])]},
         pc'[t] = pc[t], job'[t] = job[t], result'[t] = result[t],
         \/ applied'[t] = [applied[t] EXCEPT ![i] = @ + 1]
         \/ applied'[t] = applied[t] /\ e
  PROVE  InvOf(t)'
<1>1. PICK j \in Job : BatchOf(t, j, b)
  BY BatchFacts
<1>2. /\ ~j.atomic /\ Len(j.cmds) \in Nat /\ DOMAIN j.cmds = 1..Len(j.cmds)
      /\ i \in 1..Len(j.cmds) /\ i \in Nat
  BY <1>1, JobFacts DEF BatchOf
<1> DEFINE rs == Append(b.replies, [cmd |-> i, err |-> e])
           n  == [b EXCEPT !.replies = rs]
<1>3. /\ rs \in Seq([cmd : Nat, err : BOOLEAN]) /\ Len(rs) = i
      /\ \A k \in 1..Len(b.replies) : rs[k] = b.replies[k]
      /\ rs[i] = [cmd |-> i, err |-> e]
  BY <1>1, <1>2, AppendProperties DEF BatchOf
<1> HIDE DEF rs
<1>4. /\ n \in BatchFor(j)
      /\ n.replies = rs /\ n.exec = b.exec /\ wire'[t] = {n} /\ job'[t] = {j}
  <2>1. wire'[t] = {n}
    BY DEF rs
  <2> QED BY <1>1, <1>3, <2>1 DEF BatchOf, BatchFor
<1> HIDE DEF n
<1>5. /\ b.exec = "open"
      /\ \A k \in DOMAIN j.cmds : applied[t][k] <= Budget(j)
      /\ \A k \in DOMAIN j.cmds : k > Len(b.replies) => applied[t][k] < Budget(j)
  BY <1>1, <1>2 DEF IInv, InvOf, PendingInv, AppliedInv, BatchOf
<1>6. Budget(j) \in Nat /\ Budget(j)' \in Nat /\ Budget(j) <= Budget(j)'
  BY BudgetGrows DEF IInv
<1>7. /\ applied'[t] \in [DOMAIN j.cmds -> Nat] /\ applied[t][i] \in Nat
      /\ \A k \in DOMAIN j.cmds : k # i => applied'[t][k] = applied[t][k]
      /\ \/ applied'[t][i] = applied[t][i] + 1
         \/ applied'[t][i] = applied[t][i] /\ e
  <2>1. applied[t] \in [DOMAIN j.cmds -> Nat] /\ i \in DOMAIN j.cmds
    BY <1>1, <1>2 DEF BatchOf
  <2>2. CASE applied'[t] = [applied[t] EXCEPT ![i] = @ + 1]
    BY <2>1, <2>2
  <2>3. CASE applied'[t] = applied[t] /\ e
    BY <2>1, <2>3
  <2> QED BY <2>2, <2>3
<1>8. AppliedInv(t)'
  <2>1. \A k \in DOMAIN j.cmds : applied'[t][k] <= Budget(j)'
    <3> TAKE k \in DOMAIN j.cmds
    <3>1. applied[t][k] \in Nat /\ applied'[t][k] \in Nat
      BY <1>1, <1>7 DEF BatchOf
    <3>2. CASE k = i
      <4>1. applied[t][k] < Budget(j)
        BY <3>2, <1>1, <1>2, <1>5 DEF BatchOf
      <4> QED BY <4>1, <3>1, <3>2, <1>6, <1>7
    <3>3. CASE k # i
      BY <3>1, <3>3, <1>5, <1>6, <1>7
    <3> QED BY <3>2, <3>3
  <2> QED BY <2>1, <1>2, <1>4, <1>7 DEF AppliedInv, Budget
<1>9. BatchInv(t)'
  <2>1. ASSUME NEW k \in 1..Len(rs)
        PROVE  rs[k].cmd = k /\ (applied'[t][k] > 0 \/ rs[k].err)
    <3>1. CASE k = i
      BY <3>1, <1>3, <1>7
    <3>2. CASE k # i
      <4>1. k \in 1..Len(b.replies) /\ k \in DOMAIN j.cmds
        BY <3>2, <2>1, <1>1, <1>2, <1>3 DEF BatchOf
      <4> QED BY <3>2, <4>1, <1>1, <1>3, <1>7 DEF BatchOf
    <3> QED BY <3>1, <3>2
  <2>2. Len(rs) <= Len(j.cmds)
    BY <1>2, <1>3
  <2> QED BY <1>3, <1>4, <2>1, <2>2 DEF BatchInv
<1>10. ExecInv(t)'
  BY <1>2, <1>4 DEF ExecInv
<1>11. PendingInv(t)'
  <2>1. ASSUME NEW k \in DOMAIN j.cmds, k > Len(rs) PROVE applied'[t][k] < Budget(j)'
    <3>1. k > Len(b.replies) /\ k # i
      BY <2>1, <1>1, <1>2, <1>3 DEF BatchOf
    <3> QED BY <3>1, <1>1, <1>5, <1>6, <1>7 DEF BatchOf
  <2> QED BY <2>1, <1>4, <1>5 DEF PendingInv, Budget
<1> QED BY <1>4, <1>8, <1>9, <1>10, <1>11, BatchStep

(* The server runs a command of a pipeline. *)
LEMMA RunCommandStep ==
  ASSUME IInv, NEW t \in Task, RunCommand(t)
  PROVE  InvOf(t)'
<1>1. PICK b \in wire[t] :
        LET i == Len(b.replies) + 1
        IN /\ ~b.req.transaction
           /\ i \in DOMAIN b.cmds
           /\ wire' = [wire EXCEPT ![t] =
                {[b EXCEPT !.replies = Append(@, [cmd |-> i, err |-> b.cmds[i].bad])]}]
           /\ applied' = [applied EXCEPT ![t][i] = @ + 1]
           /\ UNCHANGED <<pc, job, result, faults>>
  BY DEF RunCommand
<1> DEFINE i == Len(b.replies) + 1
<1>2. b.cmds[i].bad \in BOOLEAN
  <2>1. PICK j \in Job : b.cmds = j.cmds
    BY BatchFacts DEF BatchOf
  <2> QED BY <1>1, <2>1, JobFacts
<1>3. /\ wire'[t] = {[b EXCEPT !.replies = Append(@, [cmd |-> i, err |-> b.cmds[i].bad])]}
      /\ applied'[t] = [applied[t] EXCEPT ![i] = @ + 1]
  BY <1>1 DEF IInv, Globals
<1> QED BY <1>1, <1>2, <1>3, AppendStep

(* A batch as it is sent, the first time or again: every command has a run *)
(* to spare, and of a transaction nothing has been run.                    *)
LEMMA FreshBatch ==
  ASSUME NEW t \in Task, NEW j \in Job, job'[t] = {j}, AppliedInv(t)',
         wire'[t] = {Batch(Request(j), j.cmds)},
         IF j.atomic THEN \A i \in DOMAIN j.cmds : applied'[t][i] = 0
                     ELSE \A i \in DOMAIN j.cmds : applied'[t][i] < Budget(j)'
  PROVE  BatchInv(t)' /\ ExecInv(t)' /\ PendingInv(t)'
<1> DEFINE n == Batch(Request(j), j.cmds)
<1>1. n.replies = <<>> /\ n.exec = "open" /\ n \in BatchFor(j)
  BY EmptySeq DEF Batch, BatchFor
<1>2. Len(<<>>) = 0 /\ Len(j.cmds) \in Nat
  BY EmptySeq, JobFacts
<1> HIDE DEF n
<1>3. wire'[t] = {n}
  BY DEF n
<1>4. BatchInv(t)'
  <2>1. Len(n.replies) = 0 /\ 0 <= Len(j.cmds)
    BY <1>1, <1>2
  <2>2. \A i \in 1..Len(n.replies) :
          n.replies[i].cmd = i /\ (applied'[t][i] > 0 \/ n.replies[i].err)
    BY <2>1
  <2>3. \A k \in job'[t], b \in wire'[t] : k = j /\ b = n
    BY <1>3
  <2> QED BY <1>1, <2>1, <2>2, <2>3 DEF BatchInv
<1>5. ExecInv(t)'
  BY <1>1, <1>3 DEF ExecInv
<1>6. PendingInv(t)'
  BY <1>1, <1>3 DEF PendingInv, Budget
<1> QED BY <1>4, <1>5, <1>6

(* The call: nothing of it has been run. *)
LEMMA BeginStep ==
  ASSUME IInv, NEW t \in Task, NEW j \in Job, Begin(t, j)
  PROVE  InvOf(t)'
<1>1. /\ pc[t] = "idle" /\ job[t] = {} /\ wire[t] = {} /\ result[t] = {}
  BY DEF Begin, IInv, InvOf, CallInv, Globals
<1>2. /\ job'[t] = {j} /\ applied'[t] = [i \in DOMAIN j.cmds |-> 0]
      /\ faults' = faults
  BY DEF Begin, IInv, Globals
<1>3. Budget(j) \in Nat \ {0} /\ Budget(j)' \in Nat /\ Budget(j) <= Budget(j)'
  BY <1>2, BudgetGrows DEF IInv
<1>4. AppliedInv(t)'
  <2>1. \A i \in DOMAIN j.cmds : applied'[t][i] <= Budget(j)'
    BY <1>2, <1>3
  <2> QED BY <1>2, <2>1 DEF AppliedInv, Budget
<1>5. CASE j.cmds = <<>>
  <2>1. pc'[t] = "done" /\ result'[t] = {Ok(<<>>)} /\ wire'[t] = {}
    BY <1>1, <1>5 DEF Begin, Finish, IInv, Globals
  <2>2. CallInv(t)'
    BY <1>2, <2>1 DEF CallInv
  <2>3. BatchInv(t)' /\ ExecInv(t)' /\ PendingInv(t)'
    BY <2>1 DEF BatchInv, ExecInv, PendingInv
  <2>4. ResultInv(t)'
    <3> DEFINE r == Ok(<<>>)
    <3>1. r.ok = TRUE /\ DOMAIN r = {"ok", "items"} /\ r.items = <<>>
      BY DEF Ok
    <3>2. DOMAIN r.items = {} /\ DOMAIN j.cmds = {}
      BY <1>5, <3>1
    <3> HIDE DEF r
    <3>3. result'[t] = {r}
      BY <2>1 DEF r
    <3> QED BY <1>2, <3>1, <3>2, <3>3 DEF ResultInv
  <2> QED BY <1>4, <2>2, <2>3, <2>4 DEF InvOf
<1>6. CASE j.cmds # <<>>
  <2>1. /\ pc'[t] = "waiting" /\ result'[t] = {}
        /\ wire'[t] = {Batch(Request(j), j.cmds)}
    BY <1>1, <1>6 DEF Begin, IInv, Globals
  <2>2. CallInv(t)' /\ ResultInv(t)'
    BY <1>2, <2>1 DEF CallInv, ResultInv
  <2>3. IF j.atomic THEN \A i \in DOMAIN j.cmds : applied'[t][i] = 0
                    ELSE \A i \in DOMAIN j.cmds : applied'[t][i] < Budget(j)'
    BY <1>2, <1>3
  <2>4. BatchInv(t)' /\ ExecInv(t)' /\ PendingInv(t)'
    BY <1>2, <1>4, <2>1, <2>3, FreshBatch
  <2> QED BY <1>4, <2>2, <2>4 DEF InvOf
<1> QED BY <1>5, <1>6

(* A transaction that is open when it is aborted or discarded runs nothing. *)
LEMMA NotRunStep ==
  ASSUME IInv, NEW t \in Task, NEW b \in wire[t], b.req.transaction, b.exec = "open",
         NEW x \in {"aborted", "discarded"},
         faults' = faults \/ Fault("server") \/ Fault("connection"),
         wire'[t] = {[b EXCEPT !.exec = x]}, applied'[t] = applied[t],
         pc'[t] = pc[t], job'[t] = job[t], result'[t] = result[t]
  PROVE  InvOf(t)'
<1>1. PICK j \in Job : BatchOf(t, j, b)
  BY BatchFacts
<1>2. j.atomic /\ Len(j.cmds) \in Nat /\ job'[t] = {j}
  BY <1>1, JobFacts DEF BatchOf
<1>3. b.replies = <<>> /\ \A i \in DOMAIN j.cmds : applied[t][i] = 0
  BY <1>1, <1>2 DEF IInv, InvOf, ExecInv, BatchOf
<1>4. Budget(j) \in Nat \ {0} /\ Budget(j)' \in Nat /\ Budget(j) <= Budget(j)'
  BY BudgetGrows DEF IInv
<1> DEFINE n == [b EXCEPT !.exec = x]
<1>5. n \in BatchFor(j) /\ n.exec = x /\ n.replies = <<>> /\ wire'[t] = {n}
  BY <1>1, <1>3 DEF BatchOf, BatchFor
<1> HIDE DEF n
<1>6. AppliedInv(t)'
  BY <1>1, <1>2, <1>3, <1>4 DEF AppliedInv, Budget, BatchOf
<1>7. Len(<<>>) = 0
  BY EmptySeq
<1>8. BatchInv(t)'
  BY <1>2, <1>5, <1>7 DEF BatchInv
<1>9. ExecInv(t)' /\ PendingInv(t)'
  BY <1>2, <1>3, <1>5 DEF ExecInv, PendingInv
<1> QED BY <1>5, <1>6, <1>8, <1>9, BatchStep

(* EXEC: all commands of the transaction, none of which has run, or none. *)
LEMMA ExecStep ==
  ASSUME IInv, NEW t \in Task, Exec(t)
  PROVE  InvOf(t)'
<1>1. PICK b \in wire[t] :
        /\ b.req.transaction /\ b.exec = "open"
        /\ IF dirty
           THEN /\ wire' = [wire EXCEPT ![t] = {[b EXCEPT !.exec = "aborted"]}]
                /\ applied' = applied
           ELSE /\ wire' = [wire EXCEPT ![t] =
                     {[b EXCEPT !.exec = "run",
                                !.replies = [i \in DOMAIN b.cmds |->
                                               [cmd |-> i, err |-> b.cmds[i].bad]]]}]
                /\ applied' = [applied EXCEPT ![t] = [i \in DOMAIN @ |-> @[i] + 1]]
  BY DEF Exec
<1>2. PICK j \in Job : BatchOf(t, j, b)
  BY BatchFacts
<1>3. /\ j.atomic /\ Len(j.cmds) \in Nat /\ DOMAIN j.cmds = 1..Len(j.cmds)
      /\ \A i \in DOMAIN j.cmds : j.cmds[i].bad \in BOOLEAN
  BY <1>1, <1>2, JobFacts DEF BatchOf
<1>4. b.replies = <<>> /\ \A i \in DOMAIN j.cmds : applied[t][i] = 0
  BY <1>1, <1>2, <1>3 DEF IInv, InvOf, ExecInv, BatchOf
<1>5. UNCHANGED <<pc, job, result, faults>>
  BY DEF Exec
<1>6. Budget(j) \in Nat \ {0} /\ Budget(j)' \in Nat /\ Budget(j) <= Budget(j)'
  BY <1>5, BudgetGrows DEF IInv
<1>7. job'[t] = {j} /\ wire[t] # {}
  BY <1>2, <1>5 DEF BatchOf
<1>8. CASE dirty
  <2>1. wire'[t] = {[b EXCEPT !.exec = "aborted"]} /\ applied'[t] = applied[t]
    BY <1>1, <1>8 DEF IInv, Globals
  <2> QED BY <1>1, <1>5, <2>1, NotRunStep
<1>9. CASE ~dirty
  <2> DEFINE rs == [i \in DOMAIN b.cmds |-> [cmd |-> i, err |-> b.cmds[i].bad]]
             n  == [b EXCEPT !.exec = "run", !.replies = rs]
  <2>1. /\ rs \in Seq([cmd : Nat, err : BOOLEAN]) /\ Len(rs) = Len(j.cmds)
        /\ \A i \in 1..Len(j.cmds) : rs[i] = [cmd |-> i, err |-> j.cmds[i].bad]
    <3>1. rs = [i \in 1..Len(j.cmds) |-> [cmd |-> i, err |-> j.cmds[i].bad]]
      BY <1>2, <1>3 DEF BatchOf
    <3> HIDE DEF rs
    <3>2. rs \in [1..Len(j.cmds) -> [cmd : Nat, err : BOOLEAN]]
      <4>1. ASSUME NEW i \in 1..Len(j.cmds)
            PROVE  [cmd |-> i, err |-> j.cmds[i].bad] \in [cmd : Nat, err : BOOLEAN]
        BY <1>3
      <4> QED BY <3>1, <4>1
    <3>3. rs \in Seq([cmd : Nat, err : BOOLEAN])
      <4>1. Seq([cmd : Nat, err : BOOLEAN]) =
              UNION {[1..m -> [cmd : Nat, err : BOOLEAN]] : m \in Nat}
        BY SeqDef
      <4> QED BY <1>3, <3>2, <4>1
    <3>4. Len(rs) = Len(j.cmds)
      <4>1. DOMAIN rs = 1..Len(j.cmds) /\ DOMAIN rs = 1..Len(rs) /\ Len(rs) \in Nat
        BY <3>2, <3>3, LenProperties
      <4> QED BY <4>1, <1>3
    <3> QED BY <3>1, <3>3, <3>4
  <2> HIDE DEF rs
  <2>2. n \in BatchFor(j) /\ n.exec = "run" /\ n.replies = rs
    BY <1>2, <2>1 DEF BatchOf, BatchFor
  <2>3. wire'[t] = {n} /\ applied'[t] = [i \in DOMAIN applied[t] |-> applied[t][i] + 1]
    BY <1>1, <1>9 DEF IInv, Globals, rs
  <2> HIDE DEF n
  <2>4. applied'[t] = [i \in DOMAIN j.cmds |-> 1]
    BY <1>2, <1>4, <2>3 DEF BatchOf
  <2>5. AppliedInv(t)'
    BY <1>6, <1>7, <2>4 DEF AppliedInv, Budget
  <2>6. BatchInv(t)'
    <3>1. \A i \in 1..Len(n.replies) :
            n.replies[i].cmd = i /\ (applied'[t][i] > 0 \/ n.replies[i].err)
      <4>1. ASSUME NEW i \in 1..Len(j.cmds) PROVE rs[i].cmd = i /\ applied'[t][i] = 1
        <5>1. rs[i] = [cmd |-> i, err |-> j.cmds[i].bad]
          BY <2>1
        <5>2. i \in DOMAIN j.cmds
          BY <1>3
        <5>3. applied'[t][i] = 1
          BY <2>4, <5>2
        <5> QED BY <5>1, <5>3
      <4> QED BY <4>1, <2>1, <2>2
    <3>2. Len(n.replies) <= Len(j.cmds)
      BY <1>3, <2>1, <2>2
    <3>3. \A k \in job'[t], c \in wire'[t] : k = j /\ c = n
      BY <1>7, <2>3
    <3> QED BY <2>2, <3>1, <3>2, <3>3 DEF BatchInv
  <2>7. ExecInv(t)' /\ PendingInv(t)'
    BY <1>3, <1>7, <2>1, <2>2, <2>3 DEF ExecInv, PendingInv
  <2> QED BY <1>5, <1>7, <2>3, <2>5, <2>6, <2>7, BatchStep
<1> QED BY <1>8, <1>9

(* A batch sent again because of a fault its flags allow a retry for. *)
LEMMA ResendStep ==
  ASSUME IInv, NEW t \in Task, NEW b \in wire[t],
         \/ Fault("server") /\ b.req.retry.server
         \/ Fault("connection") /\ b.req.retry.connection,
         wire'[t] = {Batch(b.req, b.cmds)},
         pc'[t] = pc[t], job'[t] = job[t], result'[t] = result[t],
         applied'[t] = applied[t]
  PROVE  InvOf(t)'
<1>1. PICK j \in Job : BatchOf(t, j, b)
  BY BatchFacts
<1>2. /\ job'[t] = {j} /\ wire'[t] = {Batch(Request(j), j.cmds)}
      /\ b.req = Request(j)
  BY <1>1 DEF BatchOf
<1>3. /\ Budget(j) \in Nat /\ Budget(j)' \in Nat /\ Budget(j) <= Budget(j)'
      /\ Fault("server") /\ j.entry = "execute" /\ j.retry_server_error =>
           Budget(j)' = Budget(j) + 1
      /\ Fault("connection") /\ j.entry = "execute" /\ j.retry_connection_error =>
           Budget(j)' = Budget(j) + 1
  BY BudgetGrows DEF IInv
<1>4. ~j.atomic /\ Budget(j)' = Budget(j) + 1
  BY <1>2, <1>3, JobFacts
<1>5. AppliedInv(t)'
  <2>1. ASSUME NEW i \in DOMAIN j.cmds PROVE applied[t][i] <= Budget(j)'
    <3>1. applied[t][i] <= Budget(j) /\ applied[t][i] \in Nat
      BY <1>1 DEF IInv, InvOf, AppliedInv, BatchOf
    <3> QED BY <3>1, <1>3
  <2> QED BY <1>1, <1>2, <1>4, <2>1 DEF AppliedInv, Budget, BatchOf
<1>6. \A i \in DOMAIN j.cmds : applied'[t][i] < Budget(j)'
  <2>1. \A i \in DOMAIN j.cmds : applied[t][i] <= Budget(j) /\ applied[t][i] \in Nat
    BY <1>1 DEF IInv, InvOf, AppliedInv, BatchOf
  <2> QED BY <1>3, <1>4, <2>1
<1>7. BatchInv(t)' /\ ExecInv(t)' /\ PendingInv(t)'
  BY <1>2, <1>4, <1>5, <1>6, FreshBatch
<1> QED BY <1>2, <1>5, <1>7, BatchStep

(* A retryable server error: retried, discarded or one more reply. *)
LEMMA ServerErrorStep ==
  ASSUME IInv, NEW t \in Task, ServerError(t)
  PROVE  InvOf(t)' /\ Fault("server")
<1>1. PICK b \in wire[t] :
        LET i == Len(b.replies) + 1
            retry == b.req.retry.server /\ pc[t] = "waiting"
        IN /\ Fault("server")
           /\ i \in DOMAIN b.cmds /\ b.exec = "open"
           /\ wire' = [wire EXCEPT ![t] =
                {CASE b.req.transaction -> [b EXCEPT !.exec = "discarded"]
                   [] ~b.req.transaction /\ retry -> Batch(b.req, b.cmds)
                   [] OTHER -> [b EXCEPT !.replies = Append(@, [cmd |-> i, err |-> TRUE])]}]
           /\ UNCHANGED <<pc, job, result, histVars>>
  BY DEF ServerError
<1>2. b.req.transaction \in BOOLEAN
  BY BatchFacts, JobFacts DEF BatchOf
<1>3. /\ Fault("server") /\ pc'[t] = pc[t] /\ job'[t] = job[t]
      /\ result'[t] = result[t] /\ applied'[t] = applied[t]
  BY <1>1 DEF histVars
<1> DEFINE i == Len(b.replies) + 1
           retry == b.req.retry.server /\ pc[t] = "waiting"
<1>4. wire'[t] =
        {CASE b.req.transaction -> [b EXCEPT !.exec = "discarded"]
           [] ~b.req.transaction /\ retry -> Batch(b.req, b.cmds)
           [] OTHER -> [b EXCEPT !.replies = Append(@, [cmd |-> i, err |-> TRUE])]}
  BY <1>1 DEF IInv, Globals
<1>5. CASE b.req.transaction
  <2>1. wire'[t] = {[b EXCEPT !.exec = "discarded"]}
    BY <1>4, <1>5
  <2> QED BY <1>1, <1>3, <1>5, <2>1, NotRunStep
<1>6. CASE ~b.req.transaction /\ retry
  <2>1. wire'[t] = {Batch(b.req, b.cmds)}
    BY <1>4, <1>6
  <2> QED BY <1>3, <1>6, <2>1, ResendStep
<1>7. CASE ~b.req.transaction /\ ~retry
  <2>1. wire'[t] = {[b EXCEPT !.replies = Append(@, [cmd |-> i, err |-> TRUE])]}
    BY <1>4, <1>7
  <2> QED BY <1>1, <1>3, <1>7, <2>1, AppendStep
<1> QED BY <1>2, <1>5, <1>6, <1>7

(* The connection is lost: for every task its batch is dropped, with the   *)
(* call if it waits, or sent again.                                        *)
LEMMA ConnectionLostStep ==
  ASSUME IInv, NEW t \in Task, ConnectionLost
  PROVE  InvOf(t)'
<1> DEFINE retry == pc[t] = "waiting" /\ \E b \in wire[t] : b.req.retry.connection
<1>1. /\ Fault("connection") /\ job'[t] = job[t] /\ applied'[t] = applied[t]
      /\ wire'[t] = IF retry THEN {Batch(b.req, b.cmds) : b \in wire[t]} ELSE {}
      /\ pc'[t] = IF pc[t] = "waiting" /\ ~retry THEN "done" ELSE pc[t]
      /\ result'[t] = IF pc[t] = "waiting" /\ ~retry THEN {Err("connection")}
                                                     ELSE result[t]
  BY DEF ConnectionLost, histVars
<1>2. CASE retry
  <2>1. PICK b \in wire[t] : b.req.retry.connection
    BY <1>2
  <2>2. PICK j \in Job : BatchOf(t, j, b)
    BY BatchFacts
  <2>3. \A c \in wire[t] : c.req = b.req /\ c.cmds = b.cmds
    <3> TAKE c \in wire[t]
    <3>1. PICK k \in Job : BatchOf(t, k, c)
      BY BatchFacts
    <3>2. k = j
      BY <2>2, <3>1 DEF BatchOf
    <3> QED BY <2>2, <3>1, <3>2 DEF BatchOf
  <2>4. wire'[t] = {Batch(b.req, b.cmds)}
    BY <1>1, <1>2, <2>3
  <2> QED BY <1>1, <1>2, <2>1, <2>4, ResendStep
<1>3. CASE pc[t] = "waiting" /\ ~retry
  BY <1>1, <1>3, FailStep
<1>4. CASE pc[t] # "waiting"
  <2>1. wire'[t] = {} /\ pc'[t] = pc[t] /\ result'[t] = result[t]
    BY <1>1, <1>4
  <2>2. CallInv(t)' /\ ResultInv(t)'
    BY <1>1, <1>4, <2>1 DEF IInv, InvOf, CallInv, ResultInv
  <2> QED BY <1>1, <2>1, <2>2, SameBatch DEF InvOf
<1> QED BY <1>2, <1>3, <1>4

(* What a call may return for a batch that has been served. *)
LEMMA ReturnedIsTrue ==
  ASSUME IInv, NEW t \in Task, NEW b \in wire[t], Served(b), NEW j \in Job,
         BatchOf(t, j, b), NEW r, r = Returned(j, CoreReply(b))
  PROVE  \/ r = Err("server")
         \/ /\ r = Ok(b.replies) /\ Len(b.replies) = Len(j.cmds)
            /\ Request(j).raise => \A i \in DOMAIN b.replies : ~b.replies[i].err
         \/ /\ j.atomic /\ \A i \in DOMAIN j.cmds : applied[t][i] = 0
            /\ r = Ok(<<>>) \/ r = [ok |-> TRUE, nil |-> TRUE]
<1> DEFINE v == CoreReply(b)
<1>1. /\ b.exec \in {"open", "run", "aborted", "discarded"}
      /\ b.req = Request(j) /\ b.cmds = j.cmds
      /\ j.entry \in {"execute", "query"} /\ j.atomic \in BOOLEAN
  BY JobFacts DEF BatchOf, BatchFor
<1>2. CASE b.exec = "aborted"
  <2>1. /\ j.atomic /\ \A i \in DOMAIN j.cmds : applied[t][i] = 0
        /\ b.replies = <<>>
    BY <1>1, <1>2 DEF IInv, InvOf, ExecInv, PendingInv, BatchOf
  <2>2. v = [tag |-> "Nil"] /\ v.tag = "Nil"
    BY <1>2, <2>1 DEF CoreReply
  <2>3. r = Ok(<<>>) \/ r = [ok |-> TRUE, nil |-> TRUE]
    BY <1>1, <2>1, <2>2 DEF Returned, run_pipeline_result, query_glide_result
  <2> QED BY <2>1, <2>3
<1>3. CASE b.exec = "discarded"
  <2>1. v.tag = "Error"
    BY <1>3 DEF CoreReply
  <2> QED BY <2>1 DEF Returned
<1>4. CASE b.exec \in {"open", "run"}
  <2>1. CASE b.req.raise /\ \E i \in DOMAIN b.replies : b.replies[i].err
    <3>1. v.tag = "Error"
      BY <1>4, <2>1 DEF CoreReply
    <3> QED BY <3>1 DEF Returned
  <2>2. CASE ~(b.req.raise /\ \E i \in DOMAIN b.replies : b.replies[i].err)
    <3>1. v = [tag |-> "Array", items |-> b.replies]
      BY <1>4, <2>2 DEF CoreReply
    <3>2. v.tag = "Array" /\ v.items = b.replies
      BY <3>1
    <3> HIDE DEF v
    <3>3. r = Ok(b.replies)
      <4>1. r = Returned(j, v)
        BY DEF v
      <4> QED BY <4>1, <3>2 DEF Returned, run_pipeline_result, query_glide_result
    <3>4. Len(b.replies) = Len(j.cmds)
      BY <1>1, <1>4 DEF Served, IInv, InvOf, ExecInv, PendingInv, BatchOf
    <3> QED BY <1>1, <2>2, <3>3, <3>4
  <2> QED BY <2>1, <2>2
<1> QED BY <1>1, <1>2, <1>3, <1>4

(* The reply arrives, in time or not. *)
LEMMA ReplyStep ==
  ASSUME IInv, NEW t \in Task, Reply(t)
  PROVE  InvOf(t)'
<1>1. PICK b \in wire[t] :
        /\ Served(b)
        /\ wire' = [wire EXCEPT ![t] = {}]
        /\ IF pc[t] = "waiting"
           THEN \E j \in job[t] : Finish(t, Returned(j, CoreReply(b)))
           ELSE UNCHANGED <<pc, result>>
  BY DEF Reply
<1>2. /\ wire'[t] = {} /\ job'[t] = job[t] /\ applied'[t] = applied[t]
      /\ faults' = faults
  BY <1>1 DEF Reply, histVars, IInv, Globals
<1>3. AppliedInv(t)' /\ BatchInv(t)' /\ ExecInv(t)' /\ PendingInv(t)'
  BY <1>2, SameBatch
<1>4. CASE pc[t] # "waiting"
  <2>1. pc'[t] = pc[t] /\ result'[t] = result[t]
    BY <1>1, <1>4
  <2>2. CallInv(t)' /\ ResultInv(t)'
    BY <1>2, <1>4, <2>1 DEF IInv, InvOf, CallInv, ResultInv
  <2> QED BY <1>3, <2>2 DEF InvOf
<1>5. CASE pc[t] = "waiting"
  <2>1. PICK j \in job[t] : Finish(t, Returned(j, CoreReply(b)))
    BY <1>1, <1>5
  <2>2. j \in Job /\ BatchOf(t, j, b)
    BY <2>1, BatchFacts DEF BatchOf
  <2>3. PICK r : r = Returned(j, CoreReply(b))
    OBVIOUS
  <2>4. pc'[t] = "done" /\ result'[t] = {r} /\ job'[t] = {j}
    BY <1>2, <2>1, <2>2, <2>3 DEF Finish, IInv, Globals, BatchOf
  <2>5. CallInv(t)'
    BY <1>2, <2>2, <2>4 DEF CallInv
  <2>6. \/ r = Err("server")
        \/ /\ r = Ok(b.replies) /\ Len(b.replies) = Len(j.cmds)
           /\ Request(j).raise => \A i \in DOMAIN b.replies : ~b.replies[i].err
        \/ /\ j.atomic /\ \A i \in DOMAIN j.cmds : applied[t][i] = 0
           /\ r = Ok(<<>>) \/ r = [ok |-> TRUE, nil |-> TRUE]
    BY <1>1, <2>2, <2>3, ReturnedIsTrue
  <2>7. ResultInv(t)'
    <3>1. CASE r = Err("server")
      <4>1. ~r.ok
        BY <3>1 DEF Err
      <4> QED BY <2>4, <3>1, <4>1 DEF ResultInv
    <3>2. CASE /\ r = Ok(b.replies) /\ Len(b.replies) = Len(j.cmds)
               /\ Request(j).raise => \A i \in DOMAIN b.replies : ~b.replies[i].err
      <4>1. r.ok = TRUE /\ DOMAIN r = {"ok", "items"} /\ r.items = b.replies
        BY <3>2 DEF Ok
      <4>2. /\ DOMAIN b.replies = DOMAIN j.cmds
            /\ \A i \in DOMAIN b.replies :
                 b.replies[i].cmd = i /\ (applied[t][i] > 0 \/ b.replies[i].err)
        BY <2>2, <3>2, JobFacts DEF BatchOf
      <4>3. j.raise \/ j.entry = "query" =>
              \A i \in DOMAIN b.replies : ~b.replies[i].err
        BY <2>2, <3>2, JobFacts
      <4> QED BY <1>2, <2>4, <4>1, <4>2, <4>3 DEF ResultInv
    <3>3. CASE /\ j.atomic /\ \A i \in DOMAIN j.cmds : applied[t][i] = 0
               /\ r = Ok(<<>>) \/ r = [ok |-> TRUE, nil |-> TRUE]
      <4>1. DOMAIN applied[t] = DOMAIN j.cmds
        BY <2>2 DEF BatchOf
      <4>2. CASE r = Ok(<<>>)
        <5>1. /\ r.ok = TRUE /\ DOMAIN r = {"ok", "items"}
              /\ r.items = <<>> /\ DOMAIN r.items = {}
          BY <4>2 DEF Ok
        <5> QED BY <1>2, <2>4, <3>3, <4>1, <4>2, <5>1 DEF ResultInv
      <4>3. CASE r = [ok |-> TRUE, nil |-> TRUE]
        <5>1. r.ok = TRUE /\ DOMAIN r = {"ok", "nil"}
          BY <4>3
        <5> QED BY <1>2, <2>4, <3>3, <4>1, <5>1 DEF ResultInv
      <4> QED BY <3>3, <4>2, <4>3
    <3> QED BY <2>6, <3>1, <3>2, <3>3
  <2> QED BY <1>3, <2>5, <2>7 DEF InvOf
<1> QED BY <1>4, <1>5

(* The caller gives up; its batch stays on the connection. *)
LEMMA TimeoutStep ==
  ASSUME IInv, NEW t \in Task, Timeout(t)
  PROVE  InvOf(t)'
<1>1. /\ faults' = faults /\ pc[t] = "waiting" /\ pc'[t] = "done"
      /\ job'[t] = job[t] /\ wire'[t] \subseteq wire[t]
      /\ result'[t] = {Err("timeout")} /\ applied'[t] = applied[t]
  BY DEF Timeout, Finish, histVars, IInv, Globals
<1> QED BY <1>1, FailStep
-----------------------------------------------------------------------------
(* One task moves at a time, unless the connection is lost. *)
TaskStep(t) ==
  \/ \E j \in Job : Begin(t, j)
  \/ RunCommand(t) \/ Exec(t) \/ Reply(t) \/ ServerError(t) \/ Timeout(t)

LEMMA OneTaskStep ==
  ASSUME IInv, NEW t \in Task, TaskStep(t)
  PROVE  \A u \in Task : InvOf(u)'
<1>1. InvOf(t)'
  BY BeginStep, RunCommandStep, ExecStep, ReplyStep, ServerErrorStep, TimeoutStep
     DEF TaskStep
<1>2. faults' = faults \/ Fault("server") \/ Fault("connection")
  BY DEF TaskStep, Begin, RunCommand, Exec, Reply, ServerError, Timeout
<1>3. ASSUME NEW u \in Task, u # t
      PROVE  /\ pc'[u] = pc[u] /\ job'[u] = job[u] /\ wire'[u] = wire[u]
             /\ result'[u] = result[u] /\ applied'[u] = applied[u]
  <2>1. CASE \E j \in Job : Begin(t, j)
    BY <1>3, <2>1 DEF Begin, Finish, IInv, Globals
  <2>2. CASE RunCommand(t)
    BY <1>3, <2>2 DEF RunCommand, IInv, Globals
  <2>3. CASE Exec(t)
    BY <1>3, <2>3 DEF Exec, IInv, Globals
  <2>4. CASE Reply(t)
    BY <1>3, <2>4 DEF Reply, Finish, histVars, IInv, Globals
  <2>5. CASE ServerError(t)
    BY <1>3, <2>5 DEF ServerError, histVars, IInv, Globals
  <2>6. CASE Timeout(t)
    BY <1>3, <2>6 DEF Timeout, Finish, histVars, IInv, Globals
  <2> QED BY <2>1, <2>2, <2>3, <2>4, <2>5, <2>6 DEF TaskStep
<1> QED BY <1>1, <1>2, <1>3, OthersStep

(* The variables that are not about one task keep their types. *)
LEMMA GlobalsStep ==
  ASSUME IInv, [Next]_vars
  PROVE  Globals'
<1> USE DEF Globals, IInv, connVars, histVars
<1>1. ASSUME NEW t \in Task, NEW k \in Key, watch(t, k) PROVE Globals'
  BY <1>1 DEF watch
<1>2. ASSUME NEW t \in Task, unwatch(t) PROVE Globals'
  BY <1>2 DEF unwatch
<1>3. ASSUME NEW t \in Task, NEW j \in Job, Begin(t, j) PROVE Globals'
  BY <1>3 DEF Begin, Finish
<1>4. ASSUME NEW t \in Task, RunCommand(t) PROVE Globals'
  BY <1>4 DEF RunCommand, Written
<1>5. ASSUME NEW t \in Task, Exec(t) PROVE Globals'
  <2>1. /\ watched' = {} /\ dirty' = FALSE /\ mine' = [mine EXCEPT ![t] = {}]
        /\ UNCHANGED <<pc, job, result, faults>>
    BY <1>5 DEF Exec
  <2>2. DOMAIN wire' = Task /\ DOMAIN applied' = Task
    BY <1>5 DEF Exec
  <2>3. broken' \in [Task -> BOOLEAN]
    <3>1. PICK b \in wire[t] :
            IF dirty THEN broken' = broken
            ELSE LET ks == {b.cmds[i].key : i \in {i \in DOMAIN b.cmds : ~b.cmds[i].bad}}
                 IN broken' = [u \in Task |->
                                 broken[u] \/ (u # t /\ mine[u] \cap ks # {})]
      BY <1>5 DEF Exec
    <3>2. CASE dirty
      BY <3>1, <3>2
    <3>3. CASE ~dirty
      <4> DEFINE ks == {b.cmds[i].key : i \in {i \in DOMAIN b.cmds : ~b.cmds[i].bad}}
      <4>1. broken' = [u \in Task |-> broken[u] \/ (u # t /\ mine[u] \cap ks # {})]
        BY <3>1, <3>3
      <4> HIDE DEF ks
      <4> QED BY <4>1
    <3> QED BY <3>2, <3>3
  <2> QED BY <2>1, <2>2, <2>3
<1>6. ASSUME NEW t \in Task, Reply(t) PROVE Globals'
  BY <1>6 DEF Reply, Finish
<1>7. ASSUME NEW kind \in {"server", "connection"}, Fault(kind)
      PROVE  faults' \in [{"server", "connection"} -> 0..MaxFaults]
  <2>1. /\ faults.server \in Nat /\ faults.connection \in Nat
        /\ faults.server + faults.connection < MaxFaults /\ MaxFaults \in Nat
    BY <1>7, PipelineAssumption DEF Fault
  <2>2. faults[kind] + 1 \in 0..MaxFaults
    BY <2>1
  <2> QED BY <1>7, <2>2 DEF Fault
<1>8. ASSUME NEW t \in Task, ServerError(t) PROVE Globals'
  <2>1. Fault("server") /\ UNCHANGED <<pc, job, result, applied, mine, broken>>
    BY <1>8 DEF ServerError
  <2>2. watched' \in SUBSET Key /\ dirty' \in BOOLEAN /\ DOMAIN wire' = Task
    BY <1>8 DEF ServerError
  <2> QED BY <1>7, <2>1, <2>2
<1>9. ASSUME NEW t \in Task, Timeout(t) PROVE Globals'
  BY <1>9 DEF Timeout, Finish
<1>10. ASSUME NEW k \in Key, Write(k) PROVE Globals'
  BY <1>10 DEF Write, Written
<1>11. CASE ConnectionLost
  <2>1. pc' \in [Task -> {"idle", "waiting", "done"}]
    BY <1>11 DEF ConnectionLost
  <2> QED BY <1>7, <1>11, <2>1 DEF ConnectionLost
<1>12. CASE UNCHANGED vars
  BY <1>12 DEF vars
<1> QED BY <1>1, <1>2, <1>3, <1>4, <1>5, <1>6, <1>8, <1>9, <1>10, <1>11, <1>12 DEF Next

(* The conjunction of the above is an inductive invariant. *)
THEOREM Inductive == Spec => []IInv
<1>1. Init => IInv
  <2> SUFFICES ASSUME Init PROVE IInv
    OBVIOUS
  <2>1. Globals
    <3>1. faults \in [{"server", "connection"} -> 0..MaxFaults]
      BY PipelineAssumption DEF Init
    <3>2. broken \in [Task -> BOOLEAN] /\ mine \in [Task -> SUBSET Key]
      BY DEF Init
    <3> QED BY <3>1, <3>2 DEF Init, Globals
  <2>2. ASSUME NEW t \in Task PROVE InvOf(t)
    <3>1. /\ pc[t] = "idle" /\ job[t] = {} /\ wire[t] = {} /\ result[t] = {}
          /\ applied[t] = <<>>
      BY DEF Init
    <3> QED BY <3>1 DEF InvOf, CallInv, AppliedInv, BatchInv, ExecInv, PendingInv, ResultInv
  <2> QED BY <2>1, <2>2 DEF IInv
<1>2. IInv /\ [Next]_vars => IInv'
  <2> SUFFICES ASSUME IInv, [Next]_vars PROVE \A t \in Task : InvOf(t)'
    BY GlobalsStep DEF IInv
  <2>1. ASSUME NEW t \in Task, TaskStep(t) PROVE \A u \in Task : InvOf(u)'
    BY <2>1, OneTaskStep
  <2>2. CASE ConnectionLost
    BY <2>2, ConnectionLostStep
  <2>3. ASSUME \/ \E t \in Task : unwatch(t) \/ \E k \in Key : watch(t, k)
               \/ \E k \in Key : Write(k)
               \/ UNCHANGED vars
        PROVE  \A t \in Task : InvOf(t)'
    <3>1. UNCHANGED <<pc, job, wire, result, faults, applied>>
      BY <2>3 DEF watch, unwatch, Write, vars, histVars
    <3> QED BY <3>1, OthersStep
  <2> QED BY <2>1, <2>2, <2>3 DEF Next, TaskStep
<1> QED BY <1>1, <1>2, PTL DEF Spec

(* Every variable of the calls and of the connection keeps its type. *)
THEOREM TypeCorrect == Spec => []TypeOK
<1>1. IInv => TypeOK
  <2> SUFFICES ASSUME IInv PROVE TypeOK
    OBVIOUS
  <2>1. ASSUME NEW t \in Task, NEW b \in wire[t]
        PROVE  job[t] # {} /\ Len(b.replies) <= Len(b.cmds)
    BY <2>1, BatchFacts DEF BatchOf
  <2>2. ASSUME NEW t \in Task
        PROVE  /\ job[t] = {} \/ \E j \in Job : job[t] = {j}
               /\ pc[t] = "waiting" => wire[t] # {}
               /\ pc[t] = "done" <=> result[t] # {}
    BY <2>2 DEF IInv, InvOf, CallInv
  <2>3. ASSUME NEW t \in Task, NEW r \in result[t]
        PROVE  \/ r.ok /\ DOMAIN r \in {{"ok", "items"}, {"ok", "nil"}}
               \/ r \in {Err(w) : w \in {"server", "response", "connection", "timeout"}}
    <3>1. PICK j \in Job : job[t] = {j}
      BY <2>3 DEF IInv, InvOf, CallInv
    <3> QED BY <2>3, <3>1 DEF IInv, InvOf, ResultInv
  <2> QED BY <2>1, <2>2, <2>3 DEF TypeOK, IInv, Globals
<1> QED BY <1>1, Inductive, PTL

(***************************************************************************)
(* A MULTI/EXEC is run as a whole and at most once, whatever its retry     *)
(* flags, however the connection fails and however late it is executed.    *)
(***************************************************************************)
THEOREM TransactionsAtomic == Spec => []TransactionIsAtomic
<1>1. IInv => TransactionIsAtomic
  <2> SUFFICES ASSUME IInv, NEW t \in Task, NEW j \in job[t], j.atomic,
                      NEW i \in DOMAIN applied[t], NEW k \in DOMAIN applied[t]
               PROVE  applied[t][i] = applied[t][k] /\ applied[t][i] <= 1
    BY DEF TransactionIsAtomic
  <2> QED BY DEF IInv, InvOf, AppliedInv
<1> QED BY <1>1, Inductive, PTL

(***************************************************************************)
(* A command is run again only for a fault that its call's flags allow to  *)
(* retry, once for each.                                                   *)
(***************************************************************************)
THEOREM RetriesAllowed == Spec => []RepeatedOnlyIfAllowed
<1>1. IInv => RepeatedOnlyIfAllowed
  <2> SUFFICES ASSUME IInv, NEW t \in Task, NEW j \in job[t],
                      NEW i \in DOMAIN applied[t]
               PROVE  applied[t][i] <= Budget(j)
    BY DEF RepeatedOnlyIfAllowed, Budget
  <2> QED BY DEF IInv, InvOf, AppliedInv
<1> QED BY <1>1, Inductive, PTL

(***************************************************************************)
(* What a successful call returns is true of the server: every reply at    *)
(* its command's place, or nothing run by an aborted transaction.          *)
(***************************************************************************)
THEOREM ResultsAreTrue == Spec => []OkMeansApplied
<1>1. IInv => OkMeansApplied
  BY DEF IInv, InvOf, ResultInv, OkMeansApplied
<1> QED BY <1>1, Inductive, PTL

(* A caller that raises finds no error among the replies of a success. *)
THEOREM ErrorsAreRaised == Spec => []RaisedNotInline
<1>1. IInv => RaisedNotInline
  BY DEF IInv, InvOf, ResultInv, RaisedNotInline
<1> QED BY <1>1, Inductive, PTL
-----------------------------------------------------------------------------
(* A batch outlives its call only when the call has timed out. *)
LeftBehind(t) == result[t] # {} /\ wire[t] # {} => result[t] = {Err("timeout")}

(* The call of t has an outcome other than a timeout. *)
Settled(t) == result[t] # {} /\ result[t] # {Err("timeout")}

(* The server changes the counts of a batch that is on the connection, and no others. *)
LEMMA ServesBatches ==
  ASSUME IInv, NEW u \in Task, RunCommand(u) \/ Exec(u) \/ ServerError(u)
  PROVE  /\ result' = result /\ wire[u] # {}
         /\ \A t \in Task \ {u} : wire'[t] = wire[t] /\ applied'[t] = applied[t]
<1>1. DOMAIN wire = Task /\ DOMAIN applied = Task
  BY DEF IInv, Globals
<1>2. CASE RunCommand(u)
  BY <1>1, <1>2 DEF RunCommand
<1>3. CASE Exec(u)
  <2>1. result' = result /\ wire[u] # {}
    BY <1>3 DEF Exec
  <2>2. PICK b \in wire[u] :
          IF dirty
          THEN /\ wire' = [wire EXCEPT ![u] = {[b EXCEPT !.exec = "aborted"]}]
               /\ applied' = applied
          ELSE /\ wire' = [wire EXCEPT ![u] =
                    {[b EXCEPT !.exec = "run",
                               !.replies = [i \in DOMAIN b.cmds |->
                                              [cmd |-> i, err |-> b.cmds[i].bad]]]}]
               /\ applied' = [applied EXCEPT ![u] = [i \in DOMAIN @ |-> @[i] + 1]]
    BY <1>3 DEF Exec
  <2>3. ASSUME NEW t \in Task \ {u} PROVE wire'[t] = wire[t] /\ applied'[t] = applied[t]
    <3>1. CASE dirty
      BY <1>1, <2>2, <2>3, <3>1
    <3>2. CASE ~dirty
      <4>1. PICK w, a : wire' = [wire EXCEPT ![u] = w] /\ applied' = [applied EXCEPT ![u] = a]
        BY <2>2, <3>2
      <4> QED BY <1>1, <2>3, <4>1
    <3> QED BY <3>1, <3>2
  <2> QED BY <2>1, <2>3
<1>4. CASE ServerError(u)
  BY <1>1, <1>4 DEF ServerError, histVars
<1> QED BY <1>2, <1>3, <1>4

LEMMA LeftBehindStep ==
  ASSUME IInv, NEW t \in Task, LeftBehind(t), [Next]_vars PROVE LeftBehind(t)'
<1>1. /\ pc[t] = "idle" => result[t] = {} /\ wire[t] = {}
      /\ pc[t] = "done" <=> result[t] # {}
      /\ DOMAIN wire = Task /\ DOMAIN result = Task
  BY DEF IInv, InvOf, CallInv, Globals
<1>2. ASSUME NEW u \in Task, NEW j \in Job, Begin(u, j) PROVE LeftBehind(t)'
  <2>1. CASE u # t
    <3>1. wire'[t] = wire[t] /\ result'[t] = result[t]
      BY <1>1, <1>2, <2>1 DEF Begin, Finish
    <3> QED BY <3>1 DEF LeftBehind
  <2>2. CASE u = t
    <3>1. wire'[t] = {} \/ result'[t] = {}
      BY <1>1, <1>2, <2>2 DEF Begin, Finish
    <3> QED BY <3>1 DEF LeftBehind
  <2> QED BY <2>1, <2>2
<1>3. ASSUME NEW u \in Task, RunCommand(u) \/ Exec(u) \/ ServerError(u) PROVE LeftBehind(t)'
  <2>1. result' = result /\ (wire'[t] # {} => wire[t] # {})
    BY <1>3, ServesBatches
  <2> QED BY <2>1 DEF LeftBehind
<1>4. ASSUME NEW u \in Task, Reply(u) PROVE LeftBehind(t)'
  <2>1. CASE u # t
    <3>1. wire'[t] = wire[t] /\ result'[t] = result[t]
      BY <1>1, <1>4, <2>1 DEF Reply, Finish
    <3> QED BY <3>1 DEF LeftBehind
  <2>2. CASE u = t
    <3>1. wire'[t] = {}
      BY <1>1, <1>4, <2>2 DEF Reply
    <3> QED BY <3>1 DEF LeftBehind
  <2> QED BY <2>1, <2>2
<1>5. ASSUME NEW u \in Task, Timeout(u) PROVE LeftBehind(t)'
  <2>1. wire' = wire /\ result' = [result EXCEPT ![u] = {Err("timeout")}]
    BY <1>5 DEF Timeout, Finish
  <2> QED BY <1>1, <2>1 DEF LeftBehind, Err
<1>6. CASE ConnectionLost
  <2>1. wire'[t] # {} => pc[t] = "waiting" /\ result'[t] = result[t]
    BY <1>6 DEF ConnectionLost
  <2> QED BY <1>1, <2>1 DEF LeftBehind
<1>7. ASSUME \/ \E u \in Task : unwatch(u) \/ \E k \in Key : watch(u, k)
             \/ \E k \in Key : Write(k)
             \/ UNCHANGED vars
      PROVE  LeftBehind(t)'
  <2>1. wire' = wire /\ result' = result
    BY <1>7 DEF watch, unwatch, Write, vars
  <2> QED BY <2>1 DEF LeftBehind
<1> QED BY <1>2, <1>3, <1>4, <1>5, <1>6, <1>7 DEF Next

(***************************************************************************)
(* Only a timeout leaves anything open: once a call of run_pipeline or     *)
(* query_glide has returned a result or any other error, none of its       *)
(* commands is run any more, so that what the caller then reads, or sends  *)
(* again, is not overtaken by the call it thinks has ended.                *)
(***************************************************************************)
THEOREM OnlyTimeoutsRunLate ==
  Spec => [][\A t \in Task : Settled(t) => applied'[t] = applied[t] /\ result'[t] = result[t]]_vars
<1> DEFINE A == \A t \in Task : Settled(t) => applied'[t] = applied[t] /\ result'[t] = result[t]
<1>1. Init => \A t \in Task : LeftBehind(t)
  BY DEF Init, LeftBehind
<1>2. IInv /\ (\A t \in Task : LeftBehind(t)) /\ [Next]_vars => (\A t \in Task : LeftBehind(t))'
  BY LeftBehindStep
<1>3. IInv /\ (\A t \in Task : LeftBehind(t)) /\ [Next]_vars => [A]_vars
  <2> SUFFICES ASSUME IInv, Next, NEW t \in Task, LeftBehind(t), Settled(t)
               PROVE  applied'[t] = applied[t] /\ result'[t] = result[t]
    BY DEF vars
  <2>1. pc[t] = "done" /\ wire[t] = {}
    BY DEF IInv, InvOf, CallInv, LeftBehind, Settled
  <2>2. DOMAIN applied = Task /\ DOMAIN result = Task
    BY DEF IInv, Globals
  <2>3. ASSUME NEW u \in Task, \E j \in Job : Begin(u, j)
        PROVE  applied'[t] = applied[t] /\ result'[t] = result[t]
    <3>1. PICK j \in Job : Begin(u, j)
      BY <2>3
    <3>2. u # t
      BY <2>1, <3>1 DEF Begin
    <3> QED BY <2>2, <3>1, <3>2 DEF Begin, Finish
  <2>4. ASSUME NEW u \in Task, RunCommand(u) \/ Exec(u) \/ ServerError(u)
        PROVE  applied'[t] = applied[t] /\ result'[t] = result[t]
    BY <2>1, <2>4, ServesBatches
  <2>5. ASSUME NEW u \in Task, Reply(u) \/ Timeout(u)
        PROVE  applied'[t] = applied[t] /\ result'[t] = result[t]
    <3>1. applied' = applied /\ (result' = result \/ (pc[u] = "waiting" /\ \E r : result' = [result EXCEPT ![u] = {r}]))
      BY <2>5 DEF Reply, Timeout, Finish, histVars
    <3> QED BY <2>1, <2>2, <3>1
  <2>6. CASE ConnectionLost
    BY <2>1, <2>6 DEF ConnectionLost, histVars
  <2>7. ASSUME \/ \E u \in Task : unwatch(u) \/ \E k \in Key : watch(u, k)
               \/ \E k \in Key : Write(k)
        PROVE  applied'[t] = applied[t] /\ result'[t] = result[t]
    BY <2>7 DEF watch, unwatch, Write, histVars
  <2> QED BY <2>3, <2>4, <2>5, <2>6, <2>7 DEF Next
<1> QED BY <1>1, <1>2, <1>3, Inductive, PTL DEF Spec
=============================================================================
