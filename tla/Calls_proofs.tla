---------------------------- MODULE Calls_proofs ----------------------------
(***************************************************************************)
(* Proofs about Calls, for any number of callers, workers, nodes, slots,   *)
(* kinds of call and failed builds of the runtime.                         *)
(***************************************************************************)
EXTENDS Calls, FiniteSetTheorems, TLAPS

(***************************************************************************)
(* The inductive invariant.  A call on a stack is a Good one: nothing is   *)
(* out before it is sent, and afterwards the nodes that have executed it   *)
(* and those that may still do are one choice of the core for its route.   *)
(* It stays sent while its future makes another call inside.               *)
(***************************************************************************)
CallRecord ==
  [op : Made, pc : {"runtime", "building", "ready", "closure", "poll", "inside", "sent"},
   todo : SUBSET Node, done : SUBSET Node, sent : BOOLEAN, kind : {"none"}, result : {"none"},
   unwound : {<<>>}]

Good ==
  {c \in CallRecord :
     /\ c.pc \in {"runtime", "building", "ready", "closure"} => c.op.blocking
     /\ c.pc = "closure" => c.op.nested = "closure"
     /\ c.pc = "inside" => c.op.nested = "future"
     /\ c.pc = "sent" => c.sent
     /\ c.sent => c.pc \in {"sent", "inside"}
     /\ ~c.sent => c.todo = {} /\ c.done = {}
     /\ c.sent => c.todo \cap c.done = {} /\ c.todo \cup c.done \in Targets(Routing(c.op))}

(***************************************************************************)
(* Only the innermost call of a stack is under way.  The others wait in a  *)
(* closure, which only the outermost can, or in a future, and there the    *)
(* call inside never gets as far as a future of its own, nor returns.      *)
(***************************************************************************)
Nested(s) ==
  /\ \A i \in DOMAIN s : i # 1 => s[i].op = Inner
  /\ s # <<>> => s[Len(s)].pc # "inside"
  /\ \A i \in DOMAIN s : i # Len(s) =>
       \/ s[i].pc = "closure" /\ i = 1
       \/ /\ s[i].pc = "inside" /\ i = Len(s) - 1
          /\ s[Len(s)].pc \in {"runtime", "building", "ready"}

(* Nobody goes past runtime() before there is one. *)
Past(s, r) ==
  \A i \in DOMAIN s : s[i].op.blocking /\ s[i].pc \notin {"runtime", "building"} => r = "built"

Builds(s) == s # <<>> /\ s[Len(s)].pc = "building"

StacksOK ==
  /\ stack \in [Caller -> Seq(Good)]
  /\ \A t \in Caller : Nested(stack[t]) /\ Past(stack[t], rt)

BuildsOK ==
  /\ rt \in {"empty", "building", "built"} /\ built \in {0, 1} /\ failed \in 0..MaxBuildFailures
  /\ built = 1 <=> rt = "built"
  /\ rt = "building" <=> \E t \in Caller : Builds(stack[t])
  /\ \A t, u \in Caller : Builds(stack[t]) /\ Builds(stack[u]) => t = u

LastOK ==
  /\ last # NoCall /\ last.result # "panic" =>
       last.kind \in Kinds /\ last.result \in Kinds \cup Classes
  /\ RepeatableAfterPanic
  /\ OutcomeIsTrue

IInv == StacksOK /\ BuildsOK /\ LastOK
-----------------------------------------------------------------------------
(* Stacks: what is left when the innermost call ends. *)
LEMMA FrontOf ==
  ASSUME NEW s \in Seq(Good), s # <<>>
  PROVE  /\ Front(s) \in Seq(Good) /\ Len(Front(s)) = Len(s) - 1
         /\ \A i \in DOMAIN Front(s) : i \in DOMAIN s /\ i # Len(s) /\ Front(s)[i] = s[i]
<1>1. Len(s) \in Nat /\ Len(s) # 0 /\ DOMAIN s = 1..Len(s)
  OBVIOUS
<1>2. Front(s) \in Seq(Good) /\ Len(Front(s)) = Len(s) - 1
  BY <1>1 DEF Front
<1>3. DOMAIN Front(s) = 1..(Len(s) - 1)
  BY <1>1, <1>2
<1>4. \A i \in 1..(Len(s) - 1) : Front(s)[i] = s[i]
  BY <1>1 DEF Front
<1> QED BY <1>1, <1>2, <1>3, <1>4

(* The innermost call of a stack is replaced. *)
Replaced(s, c) == Front(s) \o <<c>>

LEMMA ReplaceLast ==
  ASSUME NEW s \in Seq(Good), s # <<>>, NEW c \in Good
  PROVE  LET r == Replaced(s, c) IN
         /\ r \in Seq(Good) /\ Len(r) = Len(s) /\ r # <<>> /\ DOMAIN r = DOMAIN s
         /\ Len(r) \in DOMAIN r /\ r[Len(r)] = c
         /\ \A i \in DOMAIN r : i # Len(r) => r[i] = s[i]
<1> DEFINE r == Front(s) \o <<c>>
<1>1. Front(s) \in Seq(Good) /\ Len(Front(s)) = Len(s) - 1
  BY FrontOf
<1>2. \A i \in 1..(Len(s) - 1) : Front(s)[i] = s[i]
  BY FrontOf, <1>1
<1>3. r \in Seq(Good) /\ Len(r) = Len(s)
  BY <1>1
<1>4. r[Len(r)] = c
  BY <1>1, <1>3
<1>5. \A i \in 1..(Len(s) - 1) : r[i] = s[i]
  BY <1>1, <1>2
<1>6. DOMAIN r = 1..Len(s) /\ DOMAIN s = 1..Len(s) /\ Len(s) \in Nat \ {0}
  BY <1>3
<1>7. r # <<>> /\ Len(r) \in DOMAIN r
  BY <1>3, <1>6
<1>8. \A i \in DOMAIN r : i # Len(r) => i \in 1..(Len(s) - 1)
  BY <1>3, <1>6
<1>9. \A i \in DOMAIN r : i # Len(r) => r[i] = s[i]
  BY <1>5, <1>8
<1> HIDE DEF r
<1>10. Replaced(s, c) = r
  BY DEF Replaced, r
<1> QED BY <1>3, <1>4, <1>6, <1>7, <1>9, <1>10

(* The innermost call of a stack is replaced, and calls again. *)
Pushed(s, c, d) == Front(s) \o <<c, d>>

LEMMA PushOn ==
  ASSUME NEW s \in Seq(Good), s # <<>>, NEW c \in Good, NEW d \in Good
  PROVE  LET r == Pushed(s, c, d) IN
         /\ r \in Seq(Good) /\ Len(r) = Len(s) + 1 /\ r # <<>>
         /\ r[Len(r)] = d /\ r[Len(r) - 1] = c
         /\ \A i \in DOMAIN r : i # Len(r) /\ i # Len(r) - 1 =>
              i \in DOMAIN s /\ i # Len(s) /\ r[i] = s[i]
<1> DEFINE r == Front(s) \o <<c, d>>
<1>1. Front(s) \in Seq(Good) /\ Len(Front(s)) = Len(s) - 1
  BY FrontOf
<1>2. \A i \in 1..(Len(s) - 1) : Front(s)[i] = s[i]
  BY FrontOf, <1>1
<1>3. <<c, d>> \in Seq(Good) /\ Len(<<c, d>>) = 2 /\ <<c, d>>[1] = c /\ <<c, d>>[2] = d
  OBVIOUS
<1>4. r \in Seq(Good) /\ Len(r) = Len(s) + 1
  BY <1>1, <1>3
<1>5. r[Len(r)] = d /\ r[Len(r) - 1] = c
  BY <1>1, <1>3, <1>4
<1>6. \A i \in 1..(Len(s) - 1) : r[i] = s[i]
  BY <1>1, <1>2
<1>7. DOMAIN r = 1..(Len(s) + 1) /\ DOMAIN s = 1..Len(s) /\ Len(s) \in Nat \ {0}
  BY <1>4
<1> HIDE DEF r
<1>8. \A i \in DOMAIN r : i # Len(r) /\ i # Len(r) - 1 =>
        i \in DOMAIN s /\ i # Len(s) /\ r[i] = s[i]
  BY <1>4, <1>6, <1>7
<1>9. r # <<>>
  BY <1>4, <1>7
<1>10. Pushed(s, c, d) = r
  BY DEF Pushed, r
<1> QED BY <1>4, <1>5, <1>8, <1>9, <1>10

LEMMA TopOf ==
  ASSUME StacksOK, NEW t \in Caller, stack[t] # <<>>
  PROVE  /\ stack[t] \in Seq(Good) /\ Len(stack[t]) \in DOMAIN stack[t]
         /\ Top(t) = stack[t][Len(stack[t])] /\ Top(t) \in Good
BY DEF StacksOK, Top, Last
-----------------------------------------------------------------------------
(***************************************************************************)
(* Routes: what the core may choose is what the documentation of the route *)
(* names; never nothing, one node unless the route is for many, and all of *)
(* those when it is.                                                       *)
(***************************************************************************)
Multi(op) == op.route.tag \in {"AllNodes", "AllPrimaries"}

LEMMA Chosen ==
  ASSUME NEW op \in Made, NEW ns \in Targets(Routing(op))
  PROVE  /\ ns \subseteq Named(op) /\ ns \subseteq Node /\ ns # {}
         /\ ~Multi(op) => \E n : ns = {n}
         /\ Multi(op) => ns = Named(op)
<1>1. CASE op.route.tag = "None"
  <2> DEFINE p == Owner[SlotOf[op.key]]
  <2>1. Routing(op) = [tag |-> "SpecificNode", slot |-> SlotOf[op.key],
                       addr |-> IF ReadsReplicas(op) THEN "ReplicaOptional" ELSE "Master"]
    BY <1>1 DEF Routing
  <2>2. p \in Primary /\ ReplicasOf[p] \subseteq Replica
    BY <1>1, CallsAssumption, RouteAssumption
  <2>3. CASE ReadsReplicas(op)
    <3>1. Targets(Routing(op)) = {{n} : n \in ReplicasOf[p] \cup {p}}
      BY <2>1, <2>3 DEF Targets
    <3>2. Named(op) = {p} \cup ReplicasOf[p]
      BY <1>1, <2>3 DEF Named
    <3> QED BY <1>1, <2>2, <3>1, <3>2 DEF Multi, Node
  <2>4. CASE ~ReadsReplicas(op)
    <3>1. Targets(Routing(op)) = {{p}}
      BY <2>1, <2>4 DEF Targets
    <3>2. Named(op) = {p}
      BY <1>1, <2>4 DEF Named
    <3> QED BY <1>1, <2>2, <3>1, <3>2 DEF Multi, Node
  <2> QED BY <2>3, <2>4
<1>2. CASE op.route.tag = "AllNodes"
  <2>1. Routing(op).tag = "AllNodes"
    BY <1>2 DEF Routing, to_routing_info
  <2>2. Targets(Routing(op)) = {Node} /\ Named(op) = Node
    BY <2>1, <1>2 DEF Targets, Named
  <2> QED BY <1>2, <2>2, CallsAssumption DEF Multi, Node
<1>3. CASE op.route.tag = "AllPrimaries"
  <2>1. Routing(op).tag = "AllMasters"
    BY <1>3 DEF Routing, to_routing_info
  <2>2. Targets(Routing(op)) = {Primary} /\ Named(op) = Primary
    BY <2>1, <1>3 DEF Targets, Named
  <2> QED BY <1>3, <2>2, CallsAssumption DEF Multi, Node
<1>4. CASE op.route.tag = "RandomNode"
  <2>1. Routing(op).tag = "Random"
    BY <1>4 DEF Routing, to_routing_info
  <2>2. Targets(Routing(op)) = {{n} : n \in Node} /\ Named(op) = Node
    BY <2>1, <1>4 DEF Targets, Named
  <2> QED BY <1>4, <2>2 DEF Multi
<1>5. CASE op.route.tag = "ByAddress"
  <2>1. Routing(op) = [tag |-> "ByAddress", node |-> op.route.node]
    BY <1>5 DEF Routing, to_routing_info
  <2>2. Targets(Routing(op)) = {{op.route.node} \cap Node} \ {{}} /\ Named(op) = {op.route.node}
    BY <2>1, <1>5 DEF Targets, Named
  <2> QED BY <1>5, <2>2 DEF Multi
<1>6. ASSUME NEW slot \in DOMAIN Owner, NEW type,
             Routing(op) = [tag |-> "SpecificNode", slot |-> slot, addr |-> slot_addr(type)],
             Named(op) = IF type = "Primary" THEN {Owner[slot]} ELSE ReplicasOf[Owner[slot]]
      PROVE  ns \subseteq Named(op) /\ ns \subseteq Node /\ \E n : ns = {n}
  <2>1. Owner[slot] \in Primary /\ ReplicasOf[Owner[slot]] \subseteq Replica
    BY CallsAssumption
  <2>2. CASE type = "Primary"
    <3>1. Targets(Routing(op)) = {{Owner[slot]}}
      BY <1>6, <2>2 DEF Targets, slot_addr
    <3> QED BY <1>6, <2>1, <2>2, <3>1 DEF Node
  <2>3. CASE type # "Primary"
    <3>1. Targets(Routing(op)) = {{n} : n \in ReplicasOf[Owner[slot]]}
      BY <1>6, <2>3 DEF Targets, slot_addr
    <3> QED BY <1>6, <2>1, <2>3, <3>1 DEF Node
  <2> QED BY <2>2, <2>3
<1>7. CASE op.route.tag = "SlotKey"
  <2>1. SlotOf[op.route.key] \in DOMAIN Owner
    BY <1>7, CallsAssumption, RouteAssumption
  <2>2. Routing(op) = [tag |-> "SpecificNode", slot |-> SlotOf[op.route.key],
                       addr |-> slot_addr(op.route.slot_type)]
    BY <1>7 DEF Routing, to_routing_info
  <2>3. Named(op) = IF op.route.slot_type = "Primary" THEN {Owner[SlotOf[op.route.key]]}
                    ELSE ReplicasOf[Owner[SlotOf[op.route.key]]]
    BY <1>7 DEF Named
  <2> QED BY <1>6, <1>7, <2>1, <2>2, <2>3 DEF Multi
<1>8. CASE op.route.tag = "SlotId"
  <2>1. op.route.slot_id \in DOMAIN Owner
    BY <1>8, RouteAssumption
  <2>2. Routing(op) = [tag |-> "SpecificNode", slot |-> op.route.slot_id,
                       addr |-> slot_addr(op.route.slot_type)]
    BY <1>8 DEF Routing, to_routing_info
  <2>3. Named(op) = IF op.route.slot_type = "Primary" THEN {Owner[op.route.slot_id]}
                    ELSE ReplicasOf[Owner[op.route.slot_id]]
    BY <1>8 DEF Named
  <2> QED BY <1>6, <1>8, <2>1, <2>2, <2>3 DEF Multi
<1> QED BY <1>1, <1>2, <1>3, <1>4, <1>5, <1>7, <1>8, RouteAssumption
-----------------------------------------------------------------------------
(* The steps of a call, each by what it does to the stack of its caller t. *)
LEMMA Frame ==
  ASSUME StacksOK, NEW t \in Caller, NEW s \in Seq(Good), stack' = [stack EXCEPT ![t] = s],
         Nested(s), Past(s, rt'), rt = "built" => rt' = "built"
  PROVE  /\ StacksOK'
         /\ \A u \in Caller : Builds(stack'[u]) <=> IF u = t THEN Builds(s) ELSE Builds(stack[u])
<1>1. stack' \in [Caller -> Seq(Good)] /\ stack'[t] = s
  BY DEF StacksOK
<1>2. ASSUME NEW u \in Caller, u # t
      PROVE  stack'[u] = stack[u] /\ Nested(stack'[u]) /\ Past(stack'[u], rt')
  BY <1>2 DEF StacksOK, Past
<1> QED BY <1>1, <1>2 DEF StacksOK

LEMMA Emptied ==
  ASSUME StacksOK, NEW t \in Caller, stack' = [stack EXCEPT ![t] = <<>>],
         rt = "built" => rt' = "built"
  PROVE  /\ StacksOK'
         /\ \A u \in Caller : Builds(stack'[u]) <=> u # t /\ Builds(stack[u])
<1>1. <<>> \in Seq(Good) /\ Nested(<<>>) /\ Past(<<>>, rt') /\ ~Builds(<<>>)
  BY DEF Nested, Past, Builds
<1> QED BY <1>1, Frame

LEMMA Returned ==
  ASSUME StacksOK, NEW t \in Caller, stack[t] # <<>>, stack' = [stack EXCEPT ![t] = Front(@)],
         rt' = rt, Top(t).pc \notin {"runtime", "building", "ready"}
  PROVE  /\ StacksOK'
         /\ \A u \in Caller : Builds(stack'[u]) <=> u # t /\ Builds(stack[u])
<1> DEFINE s == stack[t]
           f == Front(s)
<1>1. s \in Seq(Good) /\ Nested(s) /\ Past(s, rt) /\ stack' = [stack EXCEPT ![t] = f]
  BY DEF StacksOK
<1>2. /\ f \in Seq(Good) /\ Len(f) = Len(s) - 1
      /\ \A i \in DOMAIN f : i \in DOMAIN s /\ i # Len(s) /\ f[i] = s[i]
  BY <1>1, FrontOf
<1> HIDE DEF f
<1>3. Nested(f)
  <2>1. \A i \in DOMAIN f : i # 1 => f[i].op = Inner
    BY <1>1, <1>2 DEF Nested
  <2>2. ASSUME NEW i \in DOMAIN f, i # Len(f)
        PROVE  f[i].pc = "closure" /\ i = 1
    <3>1. i # Len(s) - 1
      BY <1>2, <2>2
    <3> QED BY <1>1, <1>2, <3>1 DEF Nested
  <2>3. f # <<>> => f[Len(f)].pc # "inside"
    <3> SUFFICES ASSUME f # <<>> PROVE f[Len(f)].pc # "inside"
      OBVIOUS
    <3>1. Len(f) \in DOMAIN f
      BY <1>2
    <3>2. Len(f) \in DOMAIN s /\ Len(f) # Len(s) /\ f[Len(f)] = s[Len(f)]
      BY <1>2, <3>1
    <3>3. s[Len(s)].pc \notin {"runtime", "building", "ready"}
      BY TopOf
    <3> QED BY <1>1, <3>2, <3>3 DEF Nested
  <2> QED BY <2>1, <2>2, <2>3 DEF Nested
<1>4. Past(f, rt')
  BY <1>1, <1>2 DEF Past
<1>5. ~Builds(f)
  <2> SUFFICES ASSUME f # <<>> PROVE f[Len(f)].pc # "building"
    BY DEF Builds
  <2>1. Len(f) \in DOMAIN f
    BY <1>2
  <2> QED BY <1>1, <1>2, <2>1 DEF Nested
<1> QED BY <1>1, <1>2, <1>3, <1>4, <1>5, Frame

(* A call that is not where its own call around it is a future may go on. *)
LEMMA Becoming ==
  ASSUME StacksOK, NEW t \in Caller, stack[t] # <<>>, NEW c \in Good,
         stack' = [stack EXCEPT ![t] = Front(@) \o <<c>>],
         c.op = Top(t).op, c.pc # "inside",
         c.pc \in {"runtime", "building", "ready"} \/ Around(t) # "inside",
         c.op.blocking /\ c.pc \notin {"runtime", "building"} => rt' = "built",
         rt = "built" => rt' = "built"
  PROVE  /\ StacksOK'
         /\ \A u \in Caller :
              Builds(stack'[u]) <=> IF u = t THEN c.pc = "building" ELSE Builds(stack[u])
<1> DEFINE s == stack[t]
           r == Replaced(s, c)
<1>1. s \in Seq(Good) /\ Nested(s) /\ Past(s, rt) /\ stack' = [stack EXCEPT ![t] = r]
  BY DEF StacksOK, Replaced
<1> HIDE DEF s
<1>2. /\ r \in Seq(Good) /\ Len(r) = Len(s) /\ r # <<>> /\ DOMAIN r = DOMAIN s
      /\ Len(r) \in DOMAIN r /\ r[Len(r)] = c
      /\ \A i \in DOMAIN r : i # Len(r) => r[i] = s[i]
  <2>1. s # <<>>
    BY DEF s
  <2> QED BY <1>1, <2>1, ReplaceLast
<1> HIDE DEF r
<1>3. s[Len(s)].op = c.op /\ Len(s) \in Nat
  BY TopOf, <1>1 DEF s
<1>4. Nested(r)
  <2>1. \A i \in DOMAIN r : i # 1 => r[i].op = Inner
    BY <1>1, <1>2, <1>3 DEF Nested
  <2>2. ASSUME NEW i \in DOMAIN r, i # Len(r), ~(r[i].pc = "closure" /\ i = 1)
        PROVE  /\ r[i].pc = "inside" /\ i = Len(r) - 1
               /\ r[Len(r)].pc \in {"runtime", "building", "ready"}
    <3>1. s[i].pc = "inside" /\ i = Len(s) - 1 /\ r[i] = s[i]
      BY <1>1, <1>2, <2>2 DEF Nested
    <3>2. Len(s) # 1
      <4>1. i \in 1..Len(s)
        BY <1>1, <1>2
      <4> QED BY <3>1, <4>1, <1>3
    <3>3. Around(t) = "inside"
      BY <3>1, <3>2 DEF Around, s
    <3> QED BY <1>2, <3>1, <3>3
  <2>3. r[Len(r)].pc # "inside"
    BY <1>2
  <2> QED BY <2>1, <2>2, <2>3 DEF Nested
<1>5. Past(r, rt')
  BY <1>1, <1>2 DEF Past
<1>6. Builds(r) <=> c.pc = "building"
  BY <1>2 DEF Builds
<1> QED BY <1>1, <1>2, <1>4, <1>5, <1>6, Frame DEF s

(* The innermost call waits at pc p, in its closure or its future, for another. *)
LEMMA Pushing ==
  ASSUME StacksOK, NEW t \in Caller, stack[t] # <<>>, NEW c \in Good, NEW d \in Good,
         stack' = [stack EXCEPT ![t] = Front(@) \o <<c, d>>], rt' = rt,
         c.op = Top(t).op, d.op = Inner, d.pc = "runtime",
         c.pc \in {"closure", "inside"}, c.op.blocking => rt = "built",
         c.pc = "inside" => Top(t).pc \in {"poll", "sent"},
         c.pc = "closure" => c.op.nested = "closure"
  PROVE  /\ StacksOK'
         /\ \A u \in Caller : Builds(stack'[u]) <=> u # t /\ Builds(stack[u])
<1> DEFINE s == stack[t]
           r == Pushed(s, c, d)
<1>1. s \in Seq(Good) /\ Nested(s) /\ Past(s, rt) /\ stack' = [stack EXCEPT ![t] = r]
  BY DEF StacksOK, Pushed
<1> HIDE DEF s
<1>2. /\ r \in Seq(Good) /\ Len(r) = Len(s) + 1 /\ r # <<>>
      /\ r[Len(r)] = d /\ r[Len(r) - 1] = c
      /\ \A i \in DOMAIN r : i # Len(r) /\ i # Len(r) - 1 =>
           i \in DOMAIN s /\ i # Len(s) /\ r[i] = s[i]
  <2>1. s # <<>>
    BY DEF s
  <2> QED BY <1>1, <2>1, PushOn
<1> HIDE DEF r
<1>3. s[Len(s)] = Top(t) /\ Len(s) \in DOMAIN s /\ Len(s) \in Nat \ {0}
  BY TopOf, <1>1 DEF s
<1>4. Nested(r)
  <2>1. ASSUME NEW i \in DOMAIN r, i # 1
        PROVE  r[i].op = Inner
    <3>1. CASE i = Len(r)
      BY <3>1, <1>2
    <3>2. CASE i = Len(r) - 1
      <4>1. Len(s) # 1
        BY <3>2, <1>2, <2>1
      <4> QED BY <3>2, <4>1, <1>1, <1>2, <1>3 DEF Nested
    <3>3. CASE i # Len(r) /\ i # Len(r) - 1
      BY <3>3, <1>1, <1>2, <2>1 DEF Nested
    <3> QED BY <3>1, <3>2, <3>3
  <2>2. ASSUME NEW i \in DOMAIN r, i # Len(r)
        PROVE  \/ r[i].pc = "closure" /\ i = 1
               \/ /\ r[i].pc = "inside" /\ i = Len(r) - 1
                  /\ r[Len(r)].pc \in {"runtime", "building", "ready"}
    <3>1. CASE i = Len(r) - 1 /\ c.pc = "inside"
      BY <3>1, <1>2
    <3>2. CASE i = Len(r) - 1 /\ c.pc = "closure"
      <4>1. c.op # Inner
        BY <3>2, InnerAssumption
      <4>2. Len(s) = 1
        BY <4>1, <1>1, <1>3 DEF Nested
      <4> QED BY <3>2, <4>2, <1>2
    <3>3. CASE i # Len(r) - 1
      <4>1. i \in DOMAIN s /\ i # Len(s) /\ r[i] = s[i]
        BY <3>3, <2>2, <1>2
      <4>2. i # Len(s) - 1 \/ (s[i].pc = "closure" /\ i = 1)
        <5>1. CASE c.pc = "inside"
          BY <5>1, <4>1, <1>1, <1>3 DEF Nested
        <5>2. CASE c.pc = "closure"
          <6>1. c.op # Inner
            BY <5>2, InnerAssumption
          <6>2. Len(s) = 1
            BY <6>1, <1>1, <1>3 DEF Nested
          <6> QED BY <6>2, <4>1, <1>1
        <5> QED BY <5>1, <5>2
      <4> QED BY <4>1, <4>2, <1>1 DEF Nested
    <3> QED BY <3>1, <3>2, <3>3
  <2>3. r[Len(r)].pc # "inside"
    BY <1>2
  <2> QED BY <2>1, <2>2, <2>3 DEF Nested
<1>5. Past(r, rt')
  <2> SUFFICES ASSUME NEW i \in DOMAIN r, r[i].op.blocking, r[i].pc \notin {"runtime", "building"}
               PROVE  rt' = "built"
    BY DEF Past
  <2>1. CASE i = Len(r)
    BY <2>1, <1>2
  <2>2. CASE i = Len(r) - 1
    BY <2>2, <1>2
  <2>3. CASE i # Len(r) /\ i # Len(r) - 1
    BY <2>3, <1>1, <1>2 DEF Past
  <2> QED BY <2>1, <2>2, <2>3
<1>6. ~Builds(r)
  BY <1>2 DEF Builds
<1> QED BY <1>1, <1>2, <1>4, <1>5, <1>6, Frame DEF s

(* A call that has just been made, or that goes on before it is sent. *)
LEMMA CallIsGood ==
  ASSUME NEW op \in Made, NEW pc \in {"runtime", "poll"}, pc = "runtime" => op.blocking
  PROVE  /\ Call(op, pc) \in Good
         /\ Call(op, pc).op = op /\ Call(op, pc).pc = pc
<1>1. Call(op, pc) \in CallRecord
  BY DEF Call, CallRecord
<1> QED BY <1>1 DEF Call, Good

LEMMA MovedIsGood ==
  ASSUME NEW c \in Good,
         NEW pc \in {"runtime", "building", "ready", "closure", "poll", "inside"},
         pc \in {"runtime", "building", "ready", "closure"} => c.op.blocking,
         pc = "closure" => c.op.nested = "closure",
         pc = "inside" => c.op.nested = "future",
         ~c.sent \/ pc = "inside"
  PROVE  /\ [c EXCEPT !.pc = pc] \in Good
         /\ [c EXCEPT !.pc = pc].op = c.op /\ [c EXCEPT !.pc = pc].pc = pc
<1>1. c \in CallRecord
  BY DEF Good
<1>2. [c EXCEPT !.pc = pc] \in CallRecord
  BY <1>1 DEF CallRecord
<1>3. /\ [c EXCEPT !.pc = pc].op = c.op /\ [c EXCEPT !.pc = pc].pc = pc
      /\ [c EXCEPT !.pc = pc].todo = c.todo /\ [c EXCEPT !.pc = pc].done = c.done
      /\ [c EXCEPT !.pc = pc].sent = c.sent
  BY <1>1 DEF CallRecord
<1> QED BY <1>2, <1>3 DEF Good
-----------------------------------------------------------------------------
(* A step of t that leaves the runtime, when t was not building it. *)
LEMMA BuildsKept ==
  ASSUME BuildsOK, NEW t \in Caller, ~Builds(stack[t]),
         \A u \in Caller : Builds(stack'[u]) <=> u # t /\ Builds(stack[u]),
         UNCHANGED <<rt, built, failed>>
  PROVE  BuildsOK'
BY DEF BuildsOK

LEMMA Quiet ==
  ASSUME last' = NoCall
  PROVE  LastOK'
BY DEF LastOK, RepeatableAfterPanic, OutcomeIsTrue

LEMMA Typed ==
  ASSUME NEW op \in Made
  PROVE  op.typed \in BOOLEAN /\ op.blocking \in BOOLEAN
BY RouteAssumption

(* A call inside a future is not past block_on, where a runtime refuses it. *)
LEMMA NotInside ==
  ASSUME StacksOK, NEW t \in Caller, stack[t] # <<>>,
         Top(t).pc \notin {"runtime", "building", "ready"} \/ ~InAsync(t)
  PROVE  Around(t) # "inside"
<1> SUFFICES ASSUME Around(t) = "inside" PROVE FALSE
  OBVIOUS
<1>1. stack[t] \in Seq(Good) /\ Nested(stack[t]) /\ Top(t) = stack[t][Len(stack[t])]
  BY TopOf DEF StacksOK
<1>2. Len(stack[t]) # 1 /\ stack[t][Len(stack[t]) - 1].pc = "inside"
  BY DEF Around
<1>3. Len(stack[t]) - 1 \in DOMAIN stack[t] /\ Len(stack[t]) - 1 # Len(stack[t])
  <2>1. Len(stack[t]) \in Nat \ {0} /\ DOMAIN stack[t] = 1..Len(stack[t])
    BY <1>1
  <2>2. \A n \in Nat \ {0} : n # 1 => n - 1 \in 1..n /\ n - 1 # n
    OBVIOUS
  <2> QED BY <1>2, <2>1, <2>2
<1>4. InAsync(t)
  BY <1>2, <1>3 DEF InAsync
<1> QED BY <1>1, <1>2, <1>3, <1>4 DEF Nested

LEMMA IsInside ==
  ASSUME StacksOK, NEW t \in Caller, stack[t] # <<>>, t \notin Task, InAsync(t),
         Top(t).pc \in {"ready", "closure"}
  PROVE  Around(t) = "inside"
<1>1. stack[t] \in Seq(Good) /\ Nested(stack[t]) /\ Top(t) = stack[t][Len(stack[t])]
  BY TopOf DEF StacksOK
<1>2. PICK i \in DOMAIN stack[t] : stack[t][i].pc \in {"poll", "inside", "sent"}
  BY DEF InAsync
<1>3. i # Len(stack[t])
  BY <1>1, <1>2
<1>4. stack[t][i].pc = "inside" /\ i = Len(stack[t]) - 1
  BY <1>1, <1>2, <1>3 DEF Nested
<1>5. Len(stack[t]) # 1
  <2>1. i \in 1..Len(stack[t]) /\ Len(stack[t]) \in Nat
    BY <1>1
  <2>2. i # 0
    BY <2>1
  <2> QED BY <1>4, <2>1, <2>2
<1> QED BY <1>4, <1>5 DEF Around

(* What a panic unwinds: only the call right around it can have sent something. *)
LEMMA Unwound ==
  ASSUME StacksOK, NEW t \in Caller, stack[t] # <<>>, NEW i \in DOMAIN Front(stack[t])
  PROVE  LET f == Front(stack[t])
         IN IF f[i].sent THEN i = Len(f) /\ f[i].pc = "inside" /\ f[i].op.nested = "future"
            ELSE f[i].todo = {} /\ f[i].done = {}
<1> DEFINE s == stack[t]
           f == Front(s)
<1>1. s \in Seq(Good) /\ Nested(s)
  BY DEF StacksOK
<1>2. Len(f) = Len(s) - 1 /\ i \in DOMAIN s /\ i # Len(s) /\ f[i] = s[i]
  BY <1>1, FrontOf
<1> HIDE DEF f, s
<1>3. s[i] \in Good
  BY <1>1, <1>2
<1>4. s[i].pc = "closure" \/ (s[i].pc = "inside" /\ i = Len(s) - 1)
  BY <1>1, <1>2 DEF Nested
<1>5. CASE s[i].sent
  BY <1>2, <1>3, <1>4, <1>5 DEF Good, f, s
<1>6. CASE ~s[i].sent
  BY <1>2, <1>3, <1>6 DEF Good, f, s
<1> QED BY <1>5, <1>6

LEMMA Panicked ==
  ASSUME StacksOK, NEW t \in Caller, stack[t] # <<>>, Panic(t),
         Top(t).pc \in {"building", "ready", "closure"}, Top(t).pc # "building" => InAsync(t)
  PROVE  LastOK'
<1> DEFINE k == IF t \in Task THEN "task" ELSE Around(t)
           c == Top(t)
           f == Front(stack[t])
<1>1. c \in Good
  BY TopOf
<1>2. last' = [c EXCEPT !.result = "panic", !.unwound = f, !.kind = k]
  BY DEF Panic
<1>3. /\ last'.op = c.op /\ last'.pc = c.pc /\ last'.done = c.done /\ last'.sent = c.sent
      /\ last'.kind = k /\ last'.result = "panic" /\ last'.unwound = f
  <2>1. c \in CallRecord
    BY <1>1 DEF Good
  <2> HIDE DEF c, k, f
  <2> QED BY <1>2, <2>1 DEF CallRecord
<1>4. c.op.blocking /\ ~c.sent /\ c.done = {}
  BY <1>1 DEF Good
<1>5. c.pc # "building" => k \in {"task", "inside"}
  BY IsInside
<1>6. \A i \in DOMAIN f :
        IF f[i].sent THEN i = Len(f) /\ f[i].pc = "inside" /\ f[i].op.nested = "future"
        ELSE f[i].todo = {} /\ f[i].done = {}
  BY Unwound
<1> HIDE DEF c, k, f
<1>7. c.pc \in {"building", "ready", "closure"}
  BY DEF c
<1>8. RepeatableAfterPanic'
  BY <1>3, <1>4, <1>5, <1>6, <1>7 DEF RepeatableAfterPanic
<1> QED BY <1>3, <1>8 DEF LastOK, OutcomeIsTrue

(* The classes of errors, and what each says. *)
Answers == {"Ok", "ResponseError", "ExecAbortError"}
Unasked == {"CircuitBreakerOpen", "InvalidClientConfig"}

LEMMA ErrorClass ==
  ASSUME NEW op \in Made, NEW kind \in Kinds, kind \notin {"none", "Ok"}
  PROVE  /\ Error(op, kind) \in Kinds \cup Classes /\ Error(op, kind) \notin {"Ok", "panic"}
         /\ ~op.typed => (is_timeout(kind) <=> Error(op, kind) = "Timeout")
         /\ Error(op, kind) \in {"CircuitBreaker", "Configuration"} => kind \in Unasked
         /\ Error(op, kind) = "ExecAbort" => kind = "ExecAbortError"
         /\ ~op.typed => Error(op, kind) \in {"Timeout", "Connection", "Request", "ExecAbort",
                                              "CircuitBreaker", "Configuration"}
BY DEF Error, from_redis_error, is_timeout, Unasked, Losses, Refusals, NotSent, Kinds, Classes

(* A call c ends while the nodes td may still execute it. *)
LEMMA Ended ==
  ASSUME NEW c \in Good, c.pc # "inside", NEW td \in SUBSET c.todo,
         NEW kind \in Kinds, kind # "none",
         last' = [[c EXCEPT !.todo = td] EXCEPT
                    !.kind = kind, !.result = IF kind = "Ok" THEN "Ok" ELSE Error(c.op, kind)],
         kind \in Answers => c.pc = "sent" /\ c.done # {},
         kind \in Unasked => c.pc # "sent",
         kind \in Refusals /\ ~Multi(c.op) => c.done = {} /\ td = {},
         kind = "Ok" => \/ c.todo = {}
                        \/ /\ IsMulti(Routing(c.op)) /\ Routing(c.op).policy = "OneSucceeded"
  PROVE  LastOK'
<1> DEFINE result == IF kind = "Ok" THEN "Ok" ELSE Error(c.op, kind)
<1>1. /\ last'.op = c.op /\ last'.pc = c.pc /\ last'.todo = td /\ last'.done = c.done
      /\ last'.sent = c.sent /\ last'.kind = kind /\ last'.result = result
  <2>1. c \in CallRecord
    BY DEF Good
  <2> HIDE DEF result
  <2>2. last' = [[c EXCEPT !.todo = td] EXCEPT !.kind = kind, !.result = result]
    BY DEF result
  <2> QED BY <2>1, <2>2 DEF CallRecord
<1>2. /\ c.op \in Made /\ c.todo \subseteq Node /\ c.done \subseteq Node
      /\ c.sent \in BOOLEAN /\ (c.sent <=> c.pc = "sent")
  BY DEF Good, CallRecord
<1>3. /\ result # "panic" /\ result \in Kinds \cup Classes
      /\ result = "Ok" <=> kind = "Ok"
  BY <1>2, ErrorClass DEF Kinds, Classes
<1>a. ASSUME c.sent
      PROVE  /\ c.todo \cup c.done \subseteq Named(c.op)
             /\ ~Multi(c.op) => \E n : c.todo \cup c.done = {n}
             /\ Multi(c.op) => c.todo \cup c.done = Named(c.op)
  <2>1. c.todo \cup c.done \in Targets(Routing(c.op))
    BY <1>a DEF Good
  <2> QED BY <2>1, <1>2, Chosen
<1>4. c.done \cup td \subseteq Named(c.op)
  BY <1>a DEF Good
<1>5. ~Multi(c.op) => Cardinality(c.done \cup td) <= 1
  <2>1. CASE c.sent /\ ~Multi(c.op)
    <3>1. PICK n : c.todo \cup c.done = {n}
      BY <2>1, <1>a
    <3>2. c.done \cup td = {n} \/ c.done \cup td = {}
      BY <3>1
    <3>3. Cardinality({n}) = 1 /\ Cardinality({}) = 0
      BY FS_Singleton, FS_EmptySet
    <3> QED BY <3>2, <3>3
  <2>2. CASE ~c.sent
    <3>1. c.done \cup td = {}
      BY <2>2 DEF Good
    <3> QED BY <3>1, FS_EmptySet
  <2> QED BY <2>1, <2>2
<1>6. ASSUME kind = "Ok"
      PROVE  /\ c.done # {}
             /\ \/ Multi(c.op) => c.done = Named(c.op)
                \/ c.op.cmd # "pipeline" /\ Policy[c.op.cmd] = "OneSucceeded"
  <2>1. c.sent /\ c.done # {}
    BY <1>2, <1>6 DEF Answers
  <2>2. CASE c.todo = {}
    <3>1. c.todo \cup c.done = c.done
      BY <2>2
    <3> QED BY <2>1, <3>1, <1>a
  <2>3. CASE IsMulti(Routing(c.op)) /\ Routing(c.op).policy = "OneSucceeded" /\ Multi(c.op)
    <3>1. Routing(c.op).policy = IF c.op.cmd = "pipeline" THEN "None" ELSE Policy[c.op.cmd]
      BY <2>3 DEF Multi, Routing, to_routing_info
    <3> QED BY <2>1, <2>3, <3>1
  <2> QED BY <1>6, <2>1, <2>2, <2>3
<1>7. /\ ~c.op.typed => (is_timeout(kind) <=> result = "Timeout")
      /\ result \in {"CircuitBreaker", "Configuration"} => ~c.sent
      /\ result = "ExecAbort" => c.done # {}
      /\ ~c.op.typed /\ c.sent /\ c.done = {} => result \in {"Timeout", "Connection", "Request"}
  <2>1. CASE kind = "Ok"
    BY <2>1 DEF Answers, is_timeout
  <2>2. CASE kind # "Ok"
    <3>1. result = Error(c.op, kind)
      BY <2>2
    <3>2. /\ ~c.op.typed => (is_timeout(kind) <=> result = "Timeout")
          /\ result \in {"CircuitBreaker", "Configuration"} => kind \in Unasked
          /\ result = "ExecAbort" => kind = "ExecAbortError"
          /\ ~c.op.typed => result \in {"Timeout", "Connection", "Request", "ExecAbort",
                                        "CircuitBreaker", "Configuration"}
      BY <2>2, <3>1, <1>2, ErrorClass
    <3> HIDE DEF result
    <3>3. kind = "ExecAbortError" => c.done # {}
      BY DEF Answers
    <3> QED BY <1>2, <3>2, <3>3
  <2> QED BY <2>1, <2>2
<1>8. ~Multi(c.op) /\ kind \in Refusals => c.done \cup td = {}
  OBVIOUS
<1> HIDE DEF result
<1>9. OutcomeIsTrue'
  BY <1>1, <1>3, <1>4, <1>5, <1>6, <1>7, <1>8 DEF OutcomeIsTrue, Multi
<1>10. RepeatableAfterPanic'
  BY <1>1, <1>3 DEF RepeatableAfterPanic
<1> QED BY <1>1, <1>3, <1>9, <1>10 DEF LastOK
-----------------------------------------------------------------------------
(* Every step keeps the invariant, action by action. *)
LEMMA NotBuilding ==
  ASSUME NEW t \in Caller, Top(t).pc # "building"
  PROVE  ~Builds(stack[t])
BY DEF Builds, Top, Last

(* What the innermost call is when it is past runtime(). *)
LEMMA PastRuntime ==
  ASSUME StacksOK, NEW t \in Caller, stack[t] # <<>>, Top(t).op.blocking,
         Top(t).pc \notin {"runtime", "building"}
  PROVE  rt = "built"
<1>1. Past(stack[t], rt) /\ Len(stack[t]) \in DOMAIN stack[t] /\ Top(t) = stack[t][Len(stack[t])]
  BY TopOf DEF StacksOK
<1> QED BY <1>1 DEF Past

LEMMA InitInv == Init => IInv
<1> SUFFICES ASSUME Init PROVE IInv
  OBVIOUS
<1>1. stack \in [Caller -> Seq(Good)] /\ \A t \in Caller : stack[t] = <<>>
  BY DEF Init
<1>2. Nested(<<>>) /\ Past(<<>>, rt) /\ ~Builds(<<>>)
  BY DEF Nested, Past, Builds
<1>3. StacksOK
  BY <1>1, <1>2 DEF StacksOK
<1>4. BuildsOK
  <2>1. rt = "empty" /\ built = 0 /\ failed = 0
    BY DEF Init
  <2>2. \A t \in Caller : ~Builds(stack[t])
    BY <1>1, <1>2
  <2>3. 0 \in 0..MaxBuildFailures
    BY CallsAssumption
  <2> QED BY <2>1, <2>2, <2>3 DEF BuildsOK
<1>5. LastOK
  BY DEF Init, LastOK, RepeatableAfterPanic, OutcomeIsTrue
<1> QED BY <1>3, <1>4, <1>5 DEF IInv

LEMMA StartInv ==
  ASSUME IInv, NEW t \in Caller, NEW op \in Ops[t], Start(t, op)
  PROVE  IInv'
<1> DEFINE pc == IF op.blocking THEN "runtime" ELSE "poll"
           s == <<Call(op, pc)>>
<1>1. op \in Made
  BY DEF Made
<1>2. Call(op, pc) \in Good /\ Call(op, pc).op = op /\ Call(op, pc).pc = pc
  BY <1>1, CallIsGood
<1>3. StacksOK /\ BuildsOK /\ stack' = [stack EXCEPT ![t] = s] /\ UNCHANGED <<rt, built, failed>>
  BY DEF IInv, Start
<1>4. s \in Seq(Good) /\ Len(s) = 1 /\ s[1] = Call(op, pc) /\ DOMAIN s = {1}
  BY <1>2
<1> HIDE DEF s
<1>5. Nested(s) /\ Past(s, rt') /\ ~Builds(s)
  BY <1>2, <1>4 DEF Nested, Past, Builds
<1>6. /\ StacksOK'
      /\ \A u \in Caller : Builds(stack'[u]) <=> u # t /\ Builds(stack[u])
  BY <1>3, <1>4, <1>5, Frame
<1>7. ~Builds(stack[t])
  BY DEF Start, Builds
<1>8. BuildsOK'
  BY <1>3, <1>6, <1>7, BuildsKept
<1>9. LastOK'
  BY Quiet DEF Start
<1> QED BY <1>6, <1>8, <1>9 DEF IInv

LEMMA GetOrInitInv ==
  ASSUME IInv, NEW t \in Caller, get_or_init(t)
  PROVE  IInv'
<1>1. StacksOK /\ BuildsOK /\ stack[t] # <<>> /\ Top(t).pc = "runtime" /\ Top(t) \in Good
  BY TopOf DEF IInv, get_or_init, At
<1>2. Top(t).op.blocking /\ ~Top(t).sent
  BY <1>1 DEF Good
<1>3. ~Builds(stack[t])
  BY <1>1, NotBuilding
<1>4. LastOK'
  BY Quiet DEF get_or_init, Goto, Becomes
<1>5. CASE rt = "built" /\ rt' = rt /\ Goto(t, "ready")
  <2> DEFINE c == [Top(t) EXCEPT !.pc = "ready"]
  <2>1. c \in Good /\ c.op = Top(t).op /\ c.pc = "ready"
    BY <1>1, <1>2, MovedIsGood
  <2>2. stack' = [stack EXCEPT ![t] = Front(@) \o <<c>>]
    BY <1>5 DEF Goto, Becomes
  <2> HIDE DEF c
  <2>3. /\ StacksOK'
        /\ \A u \in Caller : Builds(stack'[u]) <=> IF u = t THEN FALSE ELSE Builds(stack[u])
    BY <1>1, <1>5, <2>1, <2>2, Becoming
  <2>4. BuildsOK'
    BY <1>1, <1>3, <1>5, <2>3, BuildsKept DEF get_or_init
  <2> QED BY <1>4, <2>3, <2>4 DEF IInv
<1>6. CASE rt = "empty" /\ rt' = "building" /\ Goto(t, "building")
  <2> DEFINE c == [Top(t) EXCEPT !.pc = "building"]
  <2>1. c \in Good /\ c.op = Top(t).op /\ c.pc = "building"
    BY <1>1, <1>2, MovedIsGood
  <2>2. stack' = [stack EXCEPT ![t] = Front(@) \o <<c>>]
    BY <1>6 DEF Goto, Becomes
  <2> HIDE DEF c
  <2>3. /\ StacksOK'
        /\ \A u \in Caller : Builds(stack'[u]) <=> IF u = t THEN TRUE ELSE Builds(stack[u])
    BY <1>1, <1>6, <2>1, <2>2, Becoming
  <2>4. \A u \in Caller : ~Builds(stack[u])
    BY <1>1, <1>6 DEF BuildsOK
  <2>5. BuildsOK'
    BY <1>1, <1>6, <2>3, <2>4 DEF BuildsOK, get_or_init
  <2> QED BY <1>4, <2>3, <2>5 DEF IInv
<1> QED BY <1>5, <1>6 DEF get_or_init

LEMMA BuildOkInv ==
  ASSUME IInv, NEW t \in Caller, BuildOk(t)
  PROVE  IInv'
<1> DEFINE c == [Top(t) EXCEPT !.pc = "ready"]
<1>1. StacksOK /\ BuildsOK /\ stack[t] # <<>> /\ Top(t).pc = "building" /\ Top(t) \in Good
  BY TopOf DEF IInv, BuildOk, At
<1>2. Top(t).op.blocking /\ ~Top(t).sent
  BY <1>1 DEF Good
<1>3. c \in Good /\ c.op = Top(t).op /\ c.pc = "ready"
  BY <1>1, <1>2, MovedIsGood
<1>4. stack' = [stack EXCEPT ![t] = Front(@) \o <<c>>] /\ rt' = "built"
  BY DEF BuildOk, Goto, Becomes
<1> HIDE DEF c
<1>5. /\ StacksOK'
      /\ \A u \in Caller : Builds(stack'[u]) <=> IF u = t THEN FALSE ELSE Builds(stack[u])
  BY <1>1, <1>3, <1>4, Becoming
<1>6. Builds(stack[t])
  BY <1>1 DEF Builds, Top, Last
<1>7. rt = "building" /\ built = 0 /\ \A u \in Caller : ~Builds(stack'[u])
  BY <1>1, <1>5, <1>6 DEF BuildsOK
<1>8. BuildsOK'
  BY <1>1, <1>4, <1>7 DEF BuildsOK, BuildOk
<1>9. LastOK'
  BY Quiet DEF BuildOk, Goto, Becomes
<1> QED BY <1>5, <1>8, <1>9 DEF IInv

LEMMA BuildFailsInv ==
  ASSUME IInv, NEW t \in Caller, BuildFails(t)
  PROVE  IInv'
<1>1. StacksOK /\ BuildsOK /\ stack[t] # <<>> /\ Top(t).pc = "building"
  BY DEF IInv, BuildFails, At
<1>2. Builds(stack[t])
  BY <1>1 DEF Builds, Top, Last
<1>3. rt = "building" /\ built = 0
  BY <1>1, <1>2 DEF BuildsOK
<1>4. stack' = [stack EXCEPT ![t] = <<>>] /\ rt' = "empty"
  BY DEF BuildFails, Panic
<1>5. /\ StacksOK'
      /\ \A u \in Caller : Builds(stack'[u]) <=> u # t /\ Builds(stack[u])
  BY <1>1, <1>3, <1>4, Emptied
<1>6. \A u \in Caller : ~Builds(stack'[u])
  BY <1>1, <1>2, <1>5 DEF BuildsOK
<1>7. failed' \in 0..MaxBuildFailures
  BY <1>1, CallsAssumption DEF BuildsOK, BuildFails
<1>8. BuildsOK'
  BY <1>1, <1>3, <1>4, <1>6, <1>7 DEF BuildsOK, BuildFails
<1>9. LastOK'
  BY <1>1, Panicked DEF BuildFails
<1> QED BY <1>5, <1>8, <1>9 DEF IInv

LEMMA InnerCall == Call(Inner, "runtime") \in Good /\ Call(Inner, "runtime").op = Inner
                   /\ Call(Inner, "runtime").pc = "runtime"
<1>1. Inner \in Made
  BY DEF Made
<1>2. Inner.blocking
  BY InnerAssumption
<1> QED BY <1>1, <1>2, CallIsGood

LEMMA CallClosureInv ==
  ASSUME IInv, NEW t \in Caller, CallClosure(t)
  PROVE  IInv'
<1> DEFINE c == [Top(t) EXCEPT !.pc = "closure"]
           d == Call(Inner, "runtime")
<1>1. /\ StacksOK /\ BuildsOK /\ stack[t] # <<>> /\ Top(t).pc = "ready" /\ Top(t) \in Good
      /\ Top(t).op.nested = "closure"
  BY TopOf DEF IInv, CallClosure, At
<1>2. Top(t).op.blocking /\ ~Top(t).sent
  BY <1>1 DEF Good
<1>3. c \in Good /\ c.op = Top(t).op /\ c.pc = "closure"
  BY <1>1, <1>2, MovedIsGood
<1>4. d \in Good /\ d.op = Inner /\ d.pc = "runtime"
  BY InnerCall
<1>5. stack' = [stack EXCEPT ![t] = Front(@) \o <<c, d>>] /\ UNCHANGED <<rt, built, failed>>
  BY DEF CallClosure
<1> HIDE DEF c, d
<1>6. rt = "built"
  BY <1>1, <1>2, PastRuntime
<1>7. /\ StacksOK'
      /\ \A u \in Caller : Builds(stack'[u]) <=> u # t /\ Builds(stack[u])
  BY <1>1, <1>3, <1>4, <1>5, <1>6, Pushing
<1>8. BuildsOK'
  BY <1>1, <1>5, <1>7, NotBuilding, BuildsKept
<1>9. LastOK'
  BY Quiet DEF CallClosure
<1> QED BY <1>7, <1>8, <1>9 DEF IInv

LEMMA BlockOnInv ==
  ASSUME IInv, NEW t \in Caller, block_on(t)
  PROVE  IInv'
<1>1. /\ StacksOK /\ BuildsOK /\ stack[t] # <<>> /\ Top(t).pc \in {"ready", "closure"}
      /\ Top(t) \in Good /\ UNCHANGED <<rt, built, failed>>
  BY TopOf DEF IInv, block_on, HasFuture, At
<1>2. Top(t).op.blocking /\ ~Top(t).sent
  BY <1>1 DEF Good
<1>3. ~Builds(stack[t])
  BY <1>1, NotBuilding
<1>4. CASE InAsync(t)
  <2>1. Panic(t)
    BY <1>4 DEF block_on
  <2>2. /\ StacksOK'
        /\ \A u \in Caller : Builds(stack'[u]) <=> u # t /\ Builds(stack[u])
    BY <1>1, <2>1, Emptied DEF Panic
  <2>3. BuildsOK'
    BY <1>1, <1>3, <2>2, BuildsKept
  <2>4. LastOK'
    BY <1>1, <1>4, <2>1, Panicked
  <2> QED BY <2>2, <2>3, <2>4 DEF IInv
<1>5. CASE ~InAsync(t)
  <2> DEFINE c == [Top(t) EXCEPT !.pc = "poll"]
  <2>1. c \in Good /\ c.op = Top(t).op /\ c.pc = "poll"
    BY <1>1, <1>2, MovedIsGood
  <2>2. stack' = [stack EXCEPT ![t] = Front(@) \o <<c>>] /\ last' = NoCall
    BY <1>5 DEF block_on, Goto, Becomes
  <2> HIDE DEF c
  <2>3. Around(t) # "inside" /\ rt = "built"
    BY <1>1, <1>2, <1>5, NotInside, PastRuntime
  <2>4. /\ StacksOK'
        /\ \A u \in Caller : Builds(stack'[u]) <=> IF u = t THEN FALSE ELSE Builds(stack[u])
    BY <1>1, <2>1, <2>2, <2>3, Becoming
  <2>5. BuildsOK'
    BY <1>1, <1>3, <2>4, BuildsKept
  <2>6. LastOK'
    BY <2>2, Quiet
  <2> QED BY <2>4, <2>5, <2>6 DEF IInv
<1> QED BY <1>4, <1>5

LEMMA CallInsideInv ==
  ASSUME IInv, NEW t \in Caller, CallInside(t)
  PROVE  IInv'
<1> DEFINE c == [Top(t) EXCEPT !.pc = "inside"]
           d == Call(Inner, "runtime")
<1>1. /\ StacksOK /\ BuildsOK /\ stack[t] # <<>> /\ Top(t).pc \in {"poll", "sent"}
      /\ Top(t) \in Good /\ Top(t).op.nested = "future"
  BY TopOf DEF IInv, CallInside, At
<1>2. c \in Good /\ c.op = Top(t).op /\ c.pc = "inside"
  BY <1>1, MovedIsGood
<1>3. d \in Good /\ d.op = Inner /\ d.pc = "runtime"
  BY InnerCall
<1>4. stack' = [stack EXCEPT ![t] = Front(@) \o <<c, d>>] /\ UNCHANGED <<rt, built, failed>>
  BY DEF CallInside
<1> HIDE DEF c, d
<1>5. Top(t).op.blocking => rt = "built"
  BY <1>1, PastRuntime
<1>6. /\ StacksOK'
      /\ \A u \in Caller : Builds(stack'[u]) <=> u # t /\ Builds(stack[u])
  BY <1>1, <1>2, <1>3, <1>4, <1>5, Pushing
<1>7. BuildsOK'
  BY <1>1, <1>4, <1>6, NotBuilding, BuildsKept
<1>8. LastOK'
  BY Quiet DEF CallInside
<1> QED BY <1>6, <1>7, <1>8 DEF IInv

(* A call that a step of the core leaves under way. *)
LEMMA UnderWay ==
  ASSUME IInv, NEW t \in Caller, stack[t] # <<>>, Top(t).pc \in {"poll", "inside", "sent"},
         NEW c \in Good, c.op = Top(t).op, c.pc = "sent", Becomes(t, c),
         UNCHANGED <<rt, built, failed>>
  PROVE  IInv'
<1>1. StacksOK /\ BuildsOK /\ Around(t) # "inside" /\ ~Builds(stack[t])
  BY NotInside, NotBuilding DEF IInv
<1>2. c.op.blocking => rt = "built"
  BY <1>1, PastRuntime
<1>3. /\ StacksOK'
      /\ \A u \in Caller : Builds(stack'[u]) <=> IF u = t THEN FALSE ELSE Builds(stack[u])
  BY <1>1, <1>2, Becoming DEF Becomes
<1>4. BuildsOK'
  BY <1>1, <1>3, BuildsKept
<1>5. LastOK'
  BY Quiet DEF Becomes
<1> QED BY <1>3, <1>4, <1>5 DEF IInv

(* A call that returns what the core says, while the nodes td may still execute it. *)
LEMMA ReturnInv ==
  ASSUME IInv, NEW t \in Caller, stack[t] # <<>>, Top(t).pc \in {"poll", "inside", "sent"},
         NEW td \in SUBSET Top(t).todo, NEW kind \in Kinds, kind # "none",
         \/ Return(t, [Top(t) EXCEPT !.todo = td], kind)
         \/ td = Top(t).todo /\ Return(t, Top(t), kind),
         kind \in Answers => Top(t).pc = "sent" /\ Top(t).done # {},
         kind \in Unasked => Top(t).pc # "sent",
         kind \in Refusals /\ ~Multi(Top(t).op) => Top(t).done = {} /\ td = {},
         kind = "Ok" => \/ Top(t).todo = {}
                        \/ /\ IsMulti(Routing(Top(t).op))
                           /\ Routing(Top(t).op).policy = "OneSucceeded",
         UNCHANGED <<rt, built, failed>>
  PROVE  IInv'
<1>1. StacksOK /\ BuildsOK /\ ~Builds(stack[t])
  BY NotBuilding DEF IInv
<1>2. Top(t) \in Good /\ Top(t) \in CallRecord /\ Top(t).pc # "inside"
  BY <1>1, TopOf DEF StacksOK, Nested, Good
<1>3. /\ StacksOK'
      /\ \A u \in Caller : Builds(stack'[u]) <=> u # t /\ Builds(stack[u])
  BY <1>1, Returned DEF Return
<1>4. BuildsOK'
  BY <1>1, <1>3, BuildsKept
<1>5. last' = [[Top(t) EXCEPT !.todo = td] EXCEPT
                 !.kind = kind, !.result = IF kind = "Ok" THEN "Ok" ELSE Error(Top(t).op, kind)]
  <2>1. [Top(t) EXCEPT !.todo = td].op = Top(t).op
    BY <1>2 DEF CallRecord
  <2>2. td = Top(t).todo => [Top(t) EXCEPT !.todo = td] = Top(t)
    BY <1>2 DEF CallRecord
  <2> QED BY <2>1, <2>2 DEF Return
<1>6. LastOK'
  BY <1>2, <1>5, Ended
<1> QED BY <1>3, <1>4, <1>6 DEF IInv

LEMMA SendInv ==
  ASSUME IInv, NEW t \in Caller, send_command(t)
  PROVE  IInv'
<1> DEFINE op == Top(t).op
           ts == Targets(Routing(op))
<1>1. /\ stack[t] # <<>> /\ Top(t).pc \in {"poll", "inside"} /\ Top(t) \in Good
      /\ UNCHANGED <<rt, built, failed>>
  BY TopOf DEF IInv, send_command, CanSend, At
<1>2. Top(t) \in CallRecord /\ op \in Made /\ Top(t).pc = "poll" /\ Top(t).todo = {}
      /\ Top(t).done = {}
  <2>1. Top(t).pc # "inside"
    BY <1>1, TopOf DEF IInv, StacksOK, Nested
  <2> QED BY <1>1, <2>1 DEF Good, CallRecord
<1>3. ASSUME NEW ns \in ts,
             Becomes(t, [Top(t) EXCEPT !.pc = "sent", !.todo = ns, !.done = {}, !.sent = TRUE])
      PROVE  IInv'
  <2> DEFINE c == [Top(t) EXCEPT !.pc = "sent", !.todo = ns, !.done = {}, !.sent = TRUE]
  <2>1. ns \subseteq Node
    BY <1>2, Chosen
  <2>2. /\ c \in CallRecord
        /\ c.op = op /\ c.pc = "sent" /\ c.todo = ns /\ c.done = {} /\ c.sent
    BY <1>2, <2>1 DEF CallRecord
  <2> HIDE DEF c
  <2>3. c.todo \cup c.done = ns /\ c.todo \cap c.done = {}
    BY <2>2
  <2>4. c \in Good
    BY <2>2, <2>3 DEF Good
  <2>5. Becomes(t, c)
    BY <1>3 DEF c
  <2> QED BY <1>1, <2>2, <2>4, <2>5, UnderWay
<1>4. ASSUME NEW kind \in NotSent \cup {"ConnectionNotFoundForRoute"}, Return(t, Top(t), kind)
      PROVE  IInv'
  <2>1. kind \in Kinds /\ kind \notin Answers /\ kind # "none" /\ kind # "Ok"
    BY DEF NotSent, Refusals, Kinds, Answers
  <2>2. Top(t).todo \in SUBSET Top(t).todo
    OBVIOUS
  <2> QED BY <1>1, <1>2, <1>4, <2>1, <2>2, ReturnInv
<1>5. \/ \E ns \in ts :
            Becomes(t, [Top(t) EXCEPT !.pc = "sent", !.todo = ns, !.done = {}, !.sent = TRUE])
      \/ \E kind \in NotSent \cup {"ConnectionNotFoundForRoute"} : Return(t, Top(t), kind)
  BY DEF send_command
<1> QED BY <1>3, <1>4, <1>5

LEMMA ExecuteInv ==
  ASSUME IInv, NEW t \in Caller, NEW n \in Node, Execute(t, n)
  PROVE  IInv'
<1> DEFINE c == [Top(t) EXCEPT !.todo = @ \ {n}, !.done = @ \cup {n}]
<1>1. /\ stack[t] # <<>> /\ Top(t).pc = "sent" /\ n \in Top(t).todo /\ Top(t) \in Good
      /\ UNCHANGED <<rt, built, failed>>
  BY TopOf DEF IInv, Execute, At
<1>2. Top(t) \in CallRecord /\ Top(t).sent
  BY <1>1 DEF Good
<1>3. /\ c \in CallRecord /\ c.op = Top(t).op /\ c.pc = "sent" /\ c.sent
      /\ c.todo = Top(t).todo \ {n} /\ c.done = Top(t).done \cup {n}
  BY <1>1, <1>2 DEF CallRecord
<1>4. Becomes(t, c)
  BY DEF Execute
<1> HIDE DEF c
<1>5. c.todo \cup c.done = Top(t).todo \cup Top(t).done
  BY <1>1, <1>3
<1>6. c.todo \cap c.done = {}
  BY <1>1, <1>2, <1>3 DEF Good
<1>7. c \in Good
  BY <1>1, <1>2, <1>3, <1>5, <1>6 DEF Good
<1> QED BY <1>1, <1>3, <1>4, <1>7, UnderWay

LEMMA AnswerInv ==
  ASSUME IInv, NEW t \in Caller,
         \/ AnswerOk(t) \/ AnswerErr(t)
         \/ \E ns \in SUBSET Node, kind \in Refusals : Refused(t, ns, kind)
         \/ \E kind \in Losses : GiveUp(t, kind)
  PROVE  IInv'
<1> DEFINE c == Top(t)
<1>1. /\ stack[t] # <<>> /\ c.pc = "sent" /\ c \in Good /\ c.op \in Made
      /\ UNCHANGED <<rt, built, failed>>
  BY TopOf DEF IInv, AnswerOk, AnswerErr, Refused, GiveUp, At, Good, CallRecord
<1>2. c.todo \in SUBSET c.todo /\ c.todo \cup c.done \in Targets(Routing(c.op))
  BY <1>1 DEF Good
<1>3. CASE AnswerOk(t)
  <2>1. Return(t, c, "Ok")
    BY <1>3 DEF AnswerOk
  <2>2. \/ c.todo = {}
        \/ IsMulti(Routing(c.op)) /\ Routing(c.op).policy = "OneSucceeded" /\ c.done # {}
    BY <1>3 DEF AnswerOk
  <2>3. c.done # {}
    <3>1. c.todo \cup c.done # {}
      BY <1>1, <1>2, Chosen
    <3> QED BY <2>2, <3>1
  <2>4. "Ok" \in Kinds /\ "Ok" # "none" /\ "Ok" \notin Unasked /\ "Ok" \notin Refusals
    BY DEF Kinds, Unasked, Refusals
  <2> HIDE DEF c
  <2> QED BY <1>1, <1>2, <2>1, <2>2, <2>3, <2>4, ReturnInv DEF c
<1>4. CASE AnswerErr(t)
  <2>1. PICK kind \in {"ResponseError", "ExecAbortError"} : Return(t, c, kind)
    BY <1>4 DEF AnswerErr
  <2>2. c.done # {}
    BY <1>4 DEF AnswerErr
  <2>3. kind \in Kinds /\ kind # "none" /\ kind # "Ok" /\ kind \notin Unasked \cup Refusals
    BY DEF Kinds, Unasked, Refusals
  <2> HIDE DEF c
  <2> QED BY <1>1, <1>2, <2>1, <2>2, <2>3, ReturnInv DEF c
<1>5. ASSUME NEW ns \in SUBSET Node, NEW kind \in Refusals, Refused(t, ns, kind)
      PROVE  IInv'
  <2> DEFINE td == c.todo \ ns
  <2>1. ns # {} /\ ns \subseteq c.todo /\ Return(t, [c EXCEPT !.todo = @ \ ns], kind)
    BY <1>5 DEF Refused
  <2>2. Return(t, [c EXCEPT !.todo = td], kind) /\ td \in SUBSET c.todo
    BY <2>1
  <2>3. ~Multi(c.op) => c.done = {} /\ td = {}
    <3> SUFFICES ASSUME ~Multi(c.op) PROVE c.done = {} /\ td = {}
      OBVIOUS
    <3>1. PICK n : c.todo \cup c.done = {n}
      BY <1>1, <1>2, Chosen
    <3>2. c.todo \cap c.done = {}
      BY <1>1 DEF Good
    <3> QED BY <2>1, <3>1, <3>2
  <2>4. kind \in Kinds /\ kind # "none" /\ kind # "Ok" /\ kind \notin Unasked \cup Answers
    BY DEF Kinds, Unasked, Refusals, Answers
  <2> HIDE DEF c, td
  <2> QED BY <1>1, <2>2, <2>3, <2>4, ReturnInv DEF c
<1>6. ASSUME NEW kind \in Losses, GiveUp(t, kind)
      PROVE  IInv'
  <2>1. Return(t, c, kind)
    BY <1>6 DEF GiveUp
  <2>2. /\ kind \in Kinds /\ kind # "none" /\ kind # "Ok"
        /\ kind \notin Unasked \cup Answers \cup Refusals
    BY DEF Kinds, Unasked, Refusals, Answers, Losses
  <2> HIDE DEF c
  <2> QED BY <1>1, <1>2, <2>1, <2>2, ReturnInv DEF c
<1> QED BY <1>3, <1>4, <1>5, <1>6

LEMMA StutterInv ==
  ASSUME IInv, UNCHANGED vars
  PROVE  IInv'
<1>1. StacksOK' /\ BuildsOK'
  BY DEF IInv, vars, StacksOK, BuildsOK
<1>2. LastOK'
  BY DEF IInv, vars, LastOK, RepeatableAfterPanic, OutcomeIsTrue
<1> QED BY <1>1, <1>2 DEF IInv
-----------------------------------------------------------------------------
(***************************************************************************)
(* The invariant holds in every state: calls of sync/mod.rs, executor.rs   *)
(* and client/mod.rs keep it however they interleave and nest.             *)
(***************************************************************************)
THEOREM Inductive == Spec => []IInv
<1>1. ASSUME IInv, [Next]_vars PROVE IInv'
  <2>1. CASE UNCHANGED vars
    BY <1>1, <2>1, StutterInv
  <2>2. CASE Next
    <3>1. PICK t \in Caller :
            \/ \E op \in Ops[t] : Start(t, op)
            \/ Step(t) \/ CallInside(t)
            \/ \E n \in Node : Execute(t, n)
            \/ AnswerOk(t) \/ AnswerErr(t)
            \/ \E ns \in SUBSET Node, kind \in Refusals : Refused(t, ns, kind)
            \/ \E kind \in Losses : GiveUp(t, kind)
      BY <2>2 DEF Next
    <3>2. CASE \E op \in Ops[t] : Start(t, op)
      BY <1>1, <3>2, StartInv
    <3>3. CASE Step(t) \/ CallInside(t)
      BY <1>1, <3>3, GetOrInitInv, BuildOkInv, BuildFailsInv, CallClosureInv, BlockOnInv,
         CallInsideInv, SendInv DEF Step
    <3>4. CASE \E n \in Node : Execute(t, n)
      BY <1>1, <3>4, ExecuteInv
    <3>5. CASE \/ AnswerOk(t) \/ AnswerErr(t)
               \/ \E ns \in SUBSET Node, kind \in Refusals : Refused(t, ns, kind)
               \/ \E kind \in Losses : GiveUp(t, kind)
      BY <1>1, <3>5, AnswerInv
    <3> QED BY <3>1, <3>2, <3>3, <3>4, <3>5
  <2> QED BY <1>1, <2>1, <2>2
<1> QED BY <1>1, InitInv, PTL DEF Spec

(* Every variable has its type, and no call ever ends with the Closing class. *)
THEOREM TypeCorrect == Spec => []TypeOK
<1>1. ASSUME IInv PROVE TypeOK
  <2>1. ASSUME NEW t \in Caller, NEW i \in DOMAIN stack[t]
        PROVE  /\ stack[t][i].pc \in {"runtime", "building", "ready", "closure", "poll", "inside",
                                      "sent"}
               /\ stack[t][i].todo \cap stack[t][i].done = {}
               /\ stack[t][i].todo \cup stack[t][i].done \subseteq Node
    <3>1. stack[t][i] \in Good
      BY <1>1 DEF IInv, StacksOK
    <3> QED BY <3>1 DEF Good, CallRecord
  <2>2. /\ rt \in {"empty", "building", "built"} /\ built \in Nat
        /\ failed \in 0..MaxBuildFailures
    BY <1>1 DEF IInv, BuildsOK
  <2> QED BY <1>1, <2>1, <2>2 DEF TypeOK, IInv, LastOK
<1> QED BY <1>1, Inductive, PTL

(***************************************************************************)
(* RUNTIME of sync/mod.rs is built once and by one caller at a time,       *)
(* however many race for it and however often building fails, and nobody   *)
(* goes past runtime() without it.                                         *)
(***************************************************************************)
THEOREM RuntimeIsOne == Spec => []OneRuntime
<1>1. ASSUME IInv PROVE OneRuntime
  <2> DEFINE building == {t \in Caller : At(t, "building")}
  <2>1. \A t \in Caller : At(t, "building") <=> Builds(stack[t])
    BY DEF At, Builds, Top, Last
  <2>2. /\ built \in {0, 1} /\ (built = 1 <=> rt = "built")
        /\ (rt = "building" <=> building # {})
        /\ \A t, u \in building : t = u
    BY <1>1, <2>1 DEF IInv, BuildsOK
  <2>3. Cardinality(building) <= 1
    <3>1. CASE building = {}
      BY <3>1, FS_EmptySet
    <3>2. CASE building # {}
      <4>1. PICK t : building = {t}
        BY <2>2, <3>2
      <4>2. Cardinality({t}) = 1
        BY FS_Singleton
      <4> QED BY <4>1, <4>2
    <3> QED BY <3>1, <3>2
  <2>4. \A t \in Caller : \A i \in DOMAIN stack[t] :
          stack[t][i].op.blocking /\ stack[t][i].pc \notin {"runtime", "building"} => built = 1
    BY <1>1, <2>2 DEF IInv, StacksOK, Past
  <2> HIDE DEF building
  <2>5. built <= 1
    BY <2>2
  <2> QED BY <2>2, <2>3, <2>4, <2>5 DEF OneRuntime, building
<1> QED BY <1>1, Inductive, PTL

(***************************************************************************)
(* A call of sync/mod.rs that panics has sent nothing, and panics only     *)
(* where a runtime is polling or when none can be built; of the calls it   *)
(* unwinds only a run() whose future made it may have sent anything.       *)
(***************************************************************************)
THEOREM PanicIsClean == Spec => []RepeatableAfterPanic
<1>1. IInv => RepeatableAfterPanic
  BY DEF IInv, LastOK
<1> QED BY <1>1, Inductive, PTL

(***************************************************************************)
(* The outcome of a call is true of the nodes its route or its client's    *)
(* read_from names (routes.rs, executor.rs, error.rs), for every cluster,  *)
(* route, policy and read strategy, whether it was answered, refused, lost *)
(* or never sent.                                                          *)
(***************************************************************************)
THEOREM OutcomesAreTrue == Spec => []OutcomeIsTrue
<1>1. IInv => OutcomeIsTrue
  BY DEF IInv, LastOK
<1> QED BY <1>1, Inductive, PTL
=============================================================================
