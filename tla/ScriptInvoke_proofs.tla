------------------------ MODULE ScriptInvoke_proofs ------------------------
(***************************************************************************)
(* Proofs about ScriptInvoke for any number of invocations, nodes and      *)
(* scripts, and any parameters.                                            *)
(***************************************************************************)
EXTENDS ScriptInvoke, SequenceTheorems, TLAPS

(* No script answers an error that begins with NOSCRIPT of its own.  When  *)
(* one does, invoke takes it for a missing script (run script_own_error).  *)
PlainScripts == "noscript" \notin RunReplies

(* The only run an invocation may cause: of its script, on its words. *)
OwnRun(c) == Run(c.script, eval_cmd(c))

(* What is on the wire is the command the caller waits for, or waited for  *)
(* when it gave up; there is no reply while a request is under way.        *)
WireInv(i) ==
  /\ pc[i] = "new" => wire[i] = {} /\ runs[i] = <<>> /\ reply[i] = "none"
  /\ pc[i] = "evalsha" => wire[i] \subseteq {evalsha_cmd(call[i])}
  /\ pc[i] = "eval" => wire[i] \subseteq {eval_cmd(call[i])}
  /\ wire[i] # {} => reply[i] = "none"

(* How often the script has run, whatever scripts answer: a request under  *)
(* way is a run to come, and only an invoke that fell back had one before. *)
CountInv(i) ==
  LET fellBack == call[i].mode = "invoke" /\ pc[i] \in {"eval", "done"}
  IN /\ runs[i] \in Seq({OwnRun(call[i])})
     /\ Len(runs[i]) <= IF fellBack THEN 2 ELSE 1
     /\ wire[i] # {} => Len(runs[i]) <= IF fellBack THEN 1 ELSE 0

(* A NOSCRIPT of the server's own means that nothing ran. *)
PlainInv(i) ==
  /\ Len(runs[i]) <= 1
  /\ wire[i] # {} => runs[i] = <<>>
  /\ reply[i] = "noscript" => runs[i] = <<>> /\ pc[i] # "eval"
  /\ reply[i] \in {"ok", "error"} => Len(runs[i]) = 1

(* What the caller returned is the reply it got. *)
OutInv(i) ==
  /\ out[i] # "none" => pc[i] = "done"
  /\ out[i] \in {"ok", "error", "decode_error"} => reply[i] \in {"ok", "error"}
  /\ out[i] = "noscript" =>
       reply[i] = "noscript" /\ (PlainScripts => call[i].mode # "invoke")

IInv ==
  /\ TypeOK
  /\ \A i \in Invocation : WireInv(i) /\ CountInv(i) /\ OutInv(i)
  /\ PlainScripts => \A i \in Invocation : PlainInv(i)
-----------------------------------------------------------------------------
(* The words of a call are its keys' words followed by its arguments. *)
LEMMA CallWords ==
  ASSUME NEW c \in Calls
  PROVE  /\ KeyWords(c) \in Seq(Word) /\ c.args \in Seq(Word)
         /\ c.mode \in Modes /\ c.script \in Script
BY ScriptAssumption DEF Calls, KeyWords

(* A command says which script it runs, so its run is the call's own. *)
LEMMA CommandRun ==
  ASSUME NEW c, NEW s,
         NEW q \in {evalsha_cmd(c), eval_cmd(c)},
         \/ q.verb = "EVAL" /\ q.script = Code(s)
         \/ q.verb = "EVALSHA" /\ q.script = Hash(s)
  PROVE  s = c.script /\ Run(s, q) = OwnRun(c)
<1>1. CASE q = eval_cmd(c)
  <2>1. Code(s) = Code(c.script)
    BY <1>1 DEF eval_cmd
  <2>2. s = c.script
    BY <2>1 DEF Code
  <2> QED BY <1>1, <2>2 DEF OwnRun
<1>2. CASE q = evalsha_cmd(c)
  <2>1. Hash(s) = Hash(c.script)
    BY <1>2 DEF evalsha_cmd
  <2>2. s = c.script
    BY <2>1 DEF Hash
  <2>3. q.numkeys = eval_cmd(c).numkeys /\ q.words = eval_cmd(c).words
    BY <1>2 DEF evalsha_cmd, eval_cmd
  <2> QED BY <2>2, <2>3 DEF OwnRun, Run
<1> QED BY <1>1, <1>2

(***************************************************************************)
(* The run of an invoke has the call's own KEYS and ARGV: the number of    *)
(* keys sent is the number of words the keys were written as, even when a  *)
(* key writes several words (script.rs counts them after writing them).    *)
(***************************************************************************)
LEMMA OwnKeysAndArgs ==
  ASSUME NEW c \in Calls, c.mode = "invoke"
  PROVE  OwnRun(c) = [script |-> c.script, keys |-> KeyWords(c), argv |-> c.args]
<1> DEFINE k == KeyWords(c)
           a == c.args
           w == k \o a
<1>1. k \in Seq(Word) /\ a \in Seq(Word)
  BY CallWords
<1>2. /\ w \in Seq(Word) /\ Len(w) = Len(k) + Len(a)
      /\ \A j \in 1..Len(k) + Len(a) :
           w[j] = IF j <= Len(k) THEN k[j] ELSE a[j - Len(k)]
  BY <1>1, ConcatProperties
<1>3. OwnRun(c) = [script |-> c.script, keys |-> SubSeq(w, 1, Len(k)),
                   argv |-> SubSeq(w, Len(k) + 1, Len(w))]
  BY DEF OwnRun, Run, eval_cmd, numkeys
<1> HIDE DEF k, a, w
<1>4. Len(k) \in Nat /\ Len(a) \in Nat /\ \A j \in 1..Len(w) : w[j] \in Word
  BY <1>1, <1>2, LenProperties, ElementOfSeq
<1>5. SubSeq(w, 1, Len(k)) = k
  <2>1. /\ SubSeq(w, 1, Len(k)) \in Seq(Word)
        /\ Len(SubSeq(w, 1, Len(k))) = IF 1 <= Len(k) THEN Len(k) - 1 + 1 ELSE 0
        /\ \A j \in 1..Len(k) - 1 + 1 : SubSeq(w, 1, Len(k))[j] = w[1 + j - 1]
    <3>1. \A j \in 1..Len(k) : w[j] \in Word
      BY <1>4, <1>2
    <3> QED BY <3>1, <1>4, SubSeqProperties
  <2>2. Len(SubSeq(w, 1, Len(k))) = Len(k)
    BY <2>1, <1>4
  <2>3. \A j \in 1..Len(k) : SubSeq(w, 1, Len(k))[j] = k[j]
    BY <2>1, <1>2, <1>4
  <2> QED BY <2>1, <2>2, <2>3, <1>1, SeqEqual
<1>6. SubSeq(w, Len(k) + 1, Len(w)) = a
  <2> DEFINE b == SubSeq(w, Len(k) + 1, Len(w))
  <2>1. /\ b \in Seq(Word)
        /\ Len(b) = IF Len(k) + 1 <= Len(w) THEN Len(w) - (Len(k) + 1) + 1 ELSE 0
        /\ \A j \in 1..Len(w) - (Len(k) + 1) + 1 : b[j] = w[(Len(k) + 1) + j - 1]
    <3>1. \A j \in Len(k) + 1..Len(w) : w[j] \in Word
      BY <1>4, <1>2
    <3> QED BY <3>1, <1>2, <1>4, SubSeqProperties
  <2> HIDE DEF b
  <2>2. Len(b) = Len(a)
    BY <2>1, <1>2, <1>4
  <2>3. ASSUME NEW j \in 1..Len(a) PROVE b[j] = a[j]
    <3>1. j \in 1..Len(w) - (Len(k) + 1) + 1 /\ (Len(k) + 1) + j - 1 = Len(k) + j
      BY <1>2, <1>4
    <3>2. b[j] = w[Len(k) + j]
      BY <2>1, <3>1
    <3>3. /\ Len(k) + j \in 1..Len(k) + Len(a) /\ ~(Len(k) + j <= Len(k))
          /\ (Len(k) + j) - Len(k) = j
      BY <1>4
    <3> QED BY <3>2, <3>3, <1>2
  <2>4. b = a
    BY <2>1, <2>2, <2>3, <1>1, SeqEqual
  <2> QED BY <2>4 DEF b
<1> QED BY <1>3, <1>5, <1>6 DEF k, a
-----------------------------------------------------------------------------
InvOf(i) == WireInv(i) /\ CountInv(i) /\ OutInv(i) /\ (PlainScripts => PlainInv(i))

(* A step that leaves an invocation alone keeps what is said of it. *)
LEMMA OthersStep ==
  ASSUME NEW i \in Invocation, InvOf(i), call' = call, pc'[i] = pc[i],
         wire'[i] = wire[i], reply'[i] = reply[i], runs'[i] = runs[i],
         out'[i] = out[i]
  PROVE  InvOf(i)'
BY DEF InvOf, WireInv, CountInv, PlainInv, OutInv, OwnRun, eval_cmd, evalsha_cmd,
       Run, numkeys, KeyWords

(* The server's own steps (loads, flushes, moves) touch no invocation. *)
LEMMA ServerStep ==
  ASSUME IInv,
         \/ \E n \in Node : Forget(n) \/ Move(n) \/ \E s \in Script : Load(n, s)
         \/ UNCHANGED vars
  PROVE  IInv'
<1>1. UNCHANGED <<pc, call, wire, reply, runs, out>>
  BY DEF Forget, Move, Load, vars
<1>2. cache' \in [Node -> SUBSET Script] /\ owner' \in Node
  BY DEF IInv, TypeOK, Forget, Move, Load, vars
<1>3. TypeOK'
  BY <1>1, <1>2 DEF IInv, TypeOK, evalsha_cmd, eval_cmd, numkeys, KeyWords
<1>4. \A i \in Invocation : InvOf(i)'
  BY <1>1, OthersStep DEF IInv, InvOf
<1> QED BY <1>3, <1>4 DEF IInv, InvOf

(* The start of an invocation: one command on the wire, nothing run. *)
LEMMA StartStep ==
  ASSUME IInv, NEW i \in Invocation, Start(i)
  PROVE  TypeOK' /\ InvOf(i)'
<1>1. /\ pc[i] = "new" /\ wire[i] = {} /\ runs[i] = <<>> /\ reply[i] = "none"
      /\ out[i] = "none"
  BY DEF IInv, WireInv, OutInv, Start
<1>2. UNCHANGED <<cache, owner, call, reply, runs, out>>
  BY DEF Start, serverVars
<1>3. \/ pc'[i] = "eval" /\ wire'[i] = {eval_cmd(call[i])}
      \/ pc'[i] = "evalsha" /\ wire'[i] = {evalsha_cmd(call[i])}
  BY DEF Start, IInv, TypeOK
<1>4. TypeOK'
  BY <1>2, <1>3 DEF Start, IInv, TypeOK, evalsha_cmd, eval_cmd, numkeys, KeyWords
<1>5. WireInv(i)' /\ OutInv(i)' /\ PlainInv(i)'
  BY <1>1, <1>2, <1>3 DEF WireInv, OutInv, PlainInv
<1>6. CountInv(i)'
  <2>1. runs'[i] = <<>> /\ Len(<<>>) = 0 /\ <<>> \in Seq({OwnRun(call[i])'})
    BY <1>1, <1>2, EmptySeq
  <2> QED BY <2>1, <1>3 DEF CountInv
<1> QED BY <1>4, <1>5, <1>6 DEF InvOf

(* The fallback: the server said NOSCRIPT, and without a script that says  *)
(* so itself, nothing has run yet.                                         *)
LEMMA FallbackStep ==
  ASSUME IInv, NEW i \in Invocation, Fallback(i)
  PROVE  TypeOK' /\ InvOf(i)'
<1>1. /\ pc[i] = "evalsha" /\ call[i].mode = "invoke" /\ reply[i] = "noscript"
      /\ out[i] = "none" /\ Len(runs[i]) <= 1
  BY DEF IInv, CountInv, OutInv, Fallback
<1>2. UNCHANGED <<cache, owner, call, runs, out>>
  BY DEF Fallback, serverVars
<1>3. pc'[i] = "eval" /\ wire'[i] = {eval_cmd(call[i])} /\ reply'[i] = "none"
  BY DEF Fallback, IInv, TypeOK
<1>4. TypeOK'
  BY <1>2, <1>3 DEF Fallback, IInv, TypeOK, evalsha_cmd, eval_cmd, numkeys, KeyWords
<1>5. WireInv(i)' /\ OutInv(i)'
  BY <1>1, <1>2, <1>3 DEF WireInv, OutInv
<1>6. CountInv(i)'
  <2>1. CountInv(i)
    BY DEF IInv
  <2>2. runs'[i] \in Seq({OwnRun(call[i])'})
    BY <2>1, <1>2 DEF CountInv, OwnRun, Run, eval_cmd, numkeys, KeyWords
  <2>3. Len(runs'[i]) \in Nat /\ Len(runs'[i]) <= 1
    BY <1>1, <1>2, <2>2, LenProperties
  <2> QED BY <1>1, <1>2, <1>3, <2>2, <2>3 DEF CountInv
<1>7. ASSUME PlainScripts PROVE PlainInv(i)'
  BY <1>1, <1>2, <1>3, <1>7 DEF PlainInv, IInv
<1> QED BY <1>4, <1>5, <1>6, <1>7 DEF InvOf

(* The two ways to return: with the reply, or with an I/O error. *)
LEMMA ReturnStep ==
  ASSUME IInv, NEW i \in Invocation,
         Finish(i) \/ \E lost \in BOOLEAN : Fail(i, lost)
  PROVE  TypeOK' /\ InvOf(i)'
<1>1. UNCHANGED <<cache, owner, call, reply, runs>>
  BY DEF Finish, Fail, serverVars
<1>2. pc[i] \in {"evalsha", "eval"} /\ out[i] = "none" /\ pc'[i] = "done"
  BY DEF Finish, Fail, IInv, TypeOK, OutInv
<1>3. wire'[i] \in {{}, wire[i]}
  BY DEF Finish, Fail, IInv, TypeOK
<1>4. TypeOK'
  <2>1. \A j \in Invocation : wire'[j] \in {{}, wire[j]}
    BY DEF Finish, Fail, IInv, TypeOK
  <2>2. DOMAIN wire' = Invocation
    BY DEF Finish, Fail, IInv, TypeOK
  <2>3. \A j \in Invocation :
          wire'[j] \in {{}, {evalsha_cmd(call[j])}, {eval_cmd(call[j])}}
    BY <2>1 DEF IInv, TypeOK
  <2>4. /\ pc' \in [Invocation -> {"new", "evalsha", "eval", "done"}]
        /\ out' \in [Invocation -> {"none", "ok", "error", "noscript",
                                    "decode_error", "io_error"}]
    BY DEF Finish, Fail, IInv, TypeOK
  <2> QED BY <1>1, <2>2, <2>3, <2>4
    DEF IInv, TypeOK, evalsha_cmd, eval_cmd, numkeys, KeyWords
<1>5. WireInv(i)'
  BY <1>1, <1>2, <1>3 DEF WireInv, IInv
<1>6. CountInv(i)'
  <2>1. CountInv(i) /\ call[i].mode \in Modes
    BY CallWords DEF IInv, TypeOK
  <2> QED BY <1>1, <1>2, <1>3, <2>1, LenProperties
    DEF CountInv, OwnRun, Run, eval_cmd, numkeys, KeyWords
<1>7. OutInv(i)'
  <2>1. CASE Finish(i)
    <3>1. PICK r \in (IF reply[i] = "ok" THEN {"ok", "decode_error"} ELSE {reply[i]}) :
            out' = [out EXCEPT ![i] = r]
      BY <2>1 DEF Finish
    <3>2. out'[i] = r
      BY <3>1 DEF IInv, TypeOK
    <3>3. PlainScripts /\ pc[i] = "eval" => reply[i] # "noscript"
      BY DEF IInv, PlainInv
    <3> QED BY <2>1, <3>1, <3>2, <3>3, <1>1, <1>2 DEF Finish, OutInv, IInv, TypeOK
  <2>2. CASE \E lost \in BOOLEAN : Fail(i, lost)
    BY <2>2, <1>1, <1>2 DEF Fail, OutInv, IInv, TypeOK
  <2> QED BY <2>1, <2>2
<1>8. ASSUME PlainScripts PROVE PlainInv(i)'
  BY <1>1, <1>2, <1>3, <1>8 DEF PlainInv, IInv
<1> QED BY <1>4, <1>5, <1>6, <1>7, <1>8 DEF InvOf

(* A request that runs the script adds the call's own run and uses up the  *)
(* request; the caller, if it still waits, gets what the script answered.  *)
LEMMA RunStep ==
  ASSUME IInv, NEW i \in Invocation, ServeEval(i) \/ ServeEvalsha(i)
  PROVE  TypeOK' /\ InvOf(i)'
<1>1. PICK q \in wire[i], s \in Script, r \in RunReplies :
        /\ \/ q.verb = "EVAL" /\ q.script = Code(s)
           \/ q.verb = "EVALSHA" /\ q.script = Hash(s)
        /\ runs' = [runs EXCEPT ![i] = Append(@, Run(s, q))]
        /\ Answer(i, r)
        /\ cache' \in [Node -> SUBSET Script]
  <2>1. CASE ServeEval(i)
    <3>1. PICK q \in wire[i], s \in Script, r \in RunReplies :
            /\ q.verb = "EVAL" /\ q.script = Code(s)
            /\ cache' = [cache EXCEPT ![owner] = @ \cup {s}]
            /\ runs' = [runs EXCEPT ![i] = Append(@, Run(s, q))]
            /\ Answer(i, r)
      BY <2>1 DEF ServeEval
    <3>2. cache' \in [Node -> SUBSET Script]
      BY <3>1 DEF IInv, TypeOK
    <3> QED BY <3>1, <3>2
  <2>2. CASE ServeEvalsha(i)
    <3>1. PICK q \in wire[i], s \in cache[owner], r \in RunReplies :
            /\ q.verb = "EVALSHA" /\ q.script = Hash(s)
            /\ runs' = [runs EXCEPT ![i] = Append(@, Run(s, q))]
            /\ Answer(i, r)
            /\ UNCHANGED cache
      BY <2>2 DEF ServeEvalsha
    <3>2. s \in Script /\ cache' \in [Node -> SUBSET Script]
      BY <3>1 DEF IInv, TypeOK
    <3> QED BY <3>1, <3>2
  <2> QED BY <2>1, <2>2
<1>2. UNCHANGED <<owner, pc, call, out>>
  BY <1>1 DEF Answer
<1>3. s = call[i].script /\ Run(s, q) = OwnRun(call[i])
  <2>1. q \in {evalsha_cmd(call[i]), eval_cmd(call[i])}
    BY <1>1 DEF IInv, TypeOK
  <2> QED BY <1>1, <2>1, CommandRun
<1>4. /\ runs'[i] = Append(runs[i], OwnRun(call[i])) /\ wire'[i] = {}
      /\ reply'[i] = IF pc[i] = "done" THEN reply[i] ELSE r
  BY <1>1, <1>3 DEF Answer, IInv, TypeOK
<1>5. wire[i] # {}
  BY <1>1
<1>6. /\ runs[i] \in Seq({OwnRun(call[i])}) /\ Len(runs[i]) \in Nat
      /\ runs'[i] \in Seq({OwnRun(call[i])}) /\ Len(runs'[i]) = Len(runs[i]) + 1
  BY <1>4, AppendProperties, LenProperties DEF IInv, CountInv
<1>7. r \in {"ok", "error", "noscript"} /\ (PlainScripts => r # "noscript")
  BY <1>1, ScriptAssumption DEF PlainScripts
<1>8. TypeOK'
  <2>1. \A k \in DOMAIN runs'[i] : runs'[i][k].script \in Script
    <3>1. \A k \in 1..Len(runs'[i]) : runs'[i][k] = OwnRun(call[i])
      BY <1>6, ElementOfSeq
    <3>2. OwnRun(call[i]).script \in Script
      BY <1>1, <1>3 DEF OwnRun, Run
    <3>3. DOMAIN runs'[i] = 1..Len(runs'[i])
      BY <1>6, LenProperties
    <3> QED BY <3>1, <3>2, <3>3
  <2>2. /\ DOMAIN wire' = Invocation /\ DOMAIN runs' = Invocation
        /\ \A j \in Invocation : j # i => runs'[j] = runs[j] /\ wire'[j] = wire[j]
    BY <1>1 DEF Answer, IInv, TypeOK
  <2>3. reply' \in [Invocation -> {"none", "ok", "error", "noscript"}]
    BY <1>1, <1>7 DEF Answer, IInv, TypeOK
  <2> QED BY <1>1, <1>2, <1>4, <2>1, <2>2, <2>3
    DEF IInv, TypeOK, evalsha_cmd, eval_cmd, numkeys, KeyWords
<1>9. WireInv(i)'
  BY <1>2, <1>4, <1>5 DEF WireInv, IInv
<1>10. CountInv(i)'
  <2>1. Len(runs[i]) <= IF call[i].mode = "invoke" /\ pc[i] \in {"eval", "done"}
                          THEN 1 ELSE 0
    BY <1>5 DEF IInv, CountInv
  <2>2. runs'[i] \in Seq({OwnRun(call[i])'})
    BY <1>2, <1>6 DEF OwnRun, Run, eval_cmd, numkeys, KeyWords
  <2> QED BY <1>2, <1>4, <1>6, <2>1, <2>2 DEF CountInv
<1>11. OutInv(i)'
  <2>1. OutInv(i) /\ (pc[i] = "done" => reply'[i] = reply[i]) /\ out' = out
    BY <1>2, <1>4 DEF IInv
  <2> QED BY <2>1, <1>2 DEF OutInv, PlainScripts
<1>12. ASSUME PlainScripts PROVE PlainInv(i)'
  <2>1. PlainInv(i) /\ runs[i] = <<>>
    BY <1>12, <1>5 DEF IInv, PlainInv
  <2>2. Len(runs'[i]) = 1
    BY <2>1, <1>6, EmptySeq
  <2>3. reply'[i] # "noscript"
    <3>1. CASE pc[i] # "done"
      BY <3>1, <1>4, <1>7, <1>12
    <3>2. CASE pc[i] = "done"
      BY <3>2, <1>4, <1>5 DEF IInv, WireInv
    <3> QED BY <3>1, <3>2
  <2> QED BY <1>4, <2>2, <2>3 DEF PlainInv
<1> QED BY <1>8, <1>9, <1>10, <1>11, <1>12 DEF InvOf

(* NOSCRIPT from the server runs nothing. *)
LEMMA UnknownStep ==
  ASSUME IInv, NEW i \in Invocation, ServeUnknown(i)
  PROVE  TypeOK' /\ InvOf(i)'
<1>1. PICK q \in wire[i] : q.verb = "EVALSHA" /\ Answer(i, "noscript")
  BY DEF ServeUnknown
<1>2. UNCHANGED <<cache, owner, pc, call, runs, out>>
  BY DEF ServeUnknown, Answer
<1>3. /\ wire[i] # {} /\ wire'[i] = {}
      /\ reply'[i] = IF pc[i] = "done" THEN reply[i] ELSE "noscript"
  BY <1>1 DEF Answer, IInv, TypeOK
<1>4. TypeOK'
  BY <1>1, <1>2, <1>3 DEF Answer, IInv, TypeOK, evalsha_cmd, eval_cmd, numkeys, KeyWords
<1>5. WireInv(i)'
  BY <1>2, <1>3 DEF WireInv, IInv
<1>6. CountInv(i)'
  BY <1>2, <1>3 DEF CountInv, IInv, OwnRun, Run, eval_cmd, numkeys, KeyWords
<1>7. OutInv(i)'
  <2>1. OutInv(i) /\ (pc[i] = "done" => reply'[i] = reply[i]) /\ out' = out
    BY <1>2, <1>3 DEF IInv
  <2> QED BY <2>1, <1>2 DEF OutInv, PlainScripts
<1>8. ASSUME PlainScripts PROVE PlainInv(i)'
  <2>1. runs[i] = <<>> /\ reply[i] = "none"
    BY <1>8, <1>3 DEF IInv, PlainInv, WireInv
  <2>2. pc[i] # "eval"
    <3>1. pc[i] = "eval" => q = eval_cmd(call[i])
      BY <1>1 DEF IInv, WireInv
    <3>2. eval_cmd(call[i]).verb = "EVAL" /\ q.verb # "EVAL"
      BY <1>1 DEF eval_cmd
    <3> QED BY <3>1, <3>2
  <2>3. Len(runs'[i]) = 0
    BY <2>1, <1>2, EmptySeq
  <2> QED BY <1>2, <1>3, <2>1, <2>2, <2>3 DEF PlainInv
<1> QED BY <1>4, <1>5, <1>6, <1>7, <1>8 DEF InvOf

(* Only one invocation moves at a time. *)
LEMMA InvocationStep ==
  ASSUME IInv, NEW i \in Invocation,
         \/ Start(i) \/ Fallback(i) \/ Finish(i) \/ Serve(i)
         \/ \E lost \in BOOLEAN : Fail(i, lost)
  PROVE  IInv'
<1>1. TypeOK' /\ InvOf(i)'
  BY StartStep, FallbackStep, ReturnStep, RunStep, UnknownStep DEF Serve
<1>2. ASSUME NEW j \in Invocation, j # i
      PROVE  /\ call' = call /\ pc'[j] = pc[j] /\ wire'[j] = wire[j]
             /\ reply'[j] = reply[j] /\ runs'[j] = runs[j] /\ out'[j] = out[j]
  BY <1>2 DEF IInv, TypeOK, Start, Fallback, Finish, Serve, ServeEval, ServeEvalsha,
              ServeUnknown, Answer, Fail, serverVars
<1>3. \A j \in Invocation : InvOf(j)'
  BY <1>1, <1>2, OthersStep DEF IInv, InvOf
<1> QED BY <1>1, <1>3 DEF IInv, InvOf
-----------------------------------------------------------------------------
(* The conjunction of the above is an inductive invariant. *)
THEOREM Inductive == Spec => []IInv
<1>1. Init => IInv
  <2> SUFFICES ASSUME Init PROVE IInv
    OBVIOUS
  <2>1. TypeOK
    BY DEF Init, TypeOK
  <2>2. ASSUME NEW i \in Invocation
        PROVE  WireInv(i) /\ CountInv(i) /\ OutInv(i) /\ PlainInv(i)
    <3>1. /\ pc[i] = "new" /\ wire[i] = {} /\ runs[i] = <<>> /\ reply[i] = "none"
          /\ out[i] = "none"
      BY DEF Init
    <3>2. Len(<<>>) = 0 /\ <<>> \in Seq({OwnRun(call[i])})
      BY EmptySeq
    <3>3. CountInv(i)
      BY <3>1, <3>2 DEF CountInv
    <3> QED BY <3>1, <3>2, <3>3 DEF WireInv, OutInv, PlainInv
  <2> QED BY <2>1, <2>2 DEF IInv
<1>2. IInv /\ [Next]_vars => IInv'
  BY ServerStep, InvocationStep DEF Next
<1> QED BY <1>1, <1>2, PTL DEF Spec

(* Every variable of the invocations and the nodes keeps its type. *)
THEOREM TypeCorrect == Spec => []TypeOK
<1>1. IInv => TypeOK
  BY DEF IInv
<1> QED BY <1>1, Inductive, PTL

(***************************************************************************)
(* However scripts answer, an invocation runs its script at most twice,    *)
(* and a raw eval or evalsha at most once.                                 *)
(***************************************************************************)
THEOREM RunsTwiceAtMost ==
  Spec => [](\A i \in Invocation :
               Len(runs[i]) <= IF call[i].mode = "invoke" THEN 2 ELSE 1)
<1>1. IInv => \A i \in Invocation :
                Len(runs[i]) <= IF call[i].mode = "invoke" THEN 2 ELSE 1
  <2> SUFFICES ASSUME IInv, NEW i \in Invocation
               PROVE  Len(runs[i]) <= IF call[i].mode = "invoke" THEN 2 ELSE 1
    OBVIOUS
  <2>1. CountInv(i) /\ Len(runs[i]) \in Nat
    BY LenProperties DEF IInv, CountInv
  <2> QED BY <2>1 DEF CountInv
<1> QED BY <1>1, Inductive, PTL

(***************************************************************************)
(* When no script answers NOSCRIPT of its own, the fallback never runs a   *)
(* script twice, whatever is flushed, moved, lost or late.                 *)
(***************************************************************************)
THEOREM RunsOnce == ASSUME PlainScripts PROVE Spec => []AtMostOnce
<1>1. IInv => AtMostOnce
  BY PlainScripts DEF IInv, PlainInv, AtMostOnce
<1> QED BY <1>1, Inductive, PTL

(***************************************************************************)
(* A caller that gets a value, a script error or a decoding error knows    *)
(* that its script ran once; with invoke, on its own KEYS and ARGV.        *)
(***************************************************************************)
THEOREM RepliesAreTrue == ASSUME PlainScripts PROVE Spec => []ReplyMeansRun
<1>1. IInv => ReplyMeansRun
  <2> SUFFICES ASSUME IInv, NEW i \in Invocation,
                      out[i] \in {"ok", "error", "decode_error"}
               PROVE  /\ Len(runs[i]) = 1
                      /\ call[i].mode = "invoke" =>
                           runs[i][1] = [script |-> call[i].script,
                                         keys |-> KeyWords(call[i]),
                                         argv |-> call[i].args]
    BY DEF ReplyMeansRun
  <2>1. Len(runs[i]) = 1
    BY PlainScripts DEF IInv, PlainInv, OutInv
  <2>2. runs[i] \in Seq({OwnRun(call[i])})
    BY DEF IInv, CountInv
  <2>3. runs[i][1] = OwnRun(call[i])
    <3>1. 1 \in 1..Len(runs[i])
      BY <2>1
    <3>2. runs[i][1] \in {OwnRun(call[i])}
      BY <2>2, <3>1, ElementOfSeq
    <3> QED BY <3>2
  <2>4. call[i] \in Calls
    BY DEF IInv, TypeOK
  <2> QED BY <2>1, <2>3, <2>4, OwnKeysAndArgs
<1> QED BY <1>1, Inductive, PTL

(***************************************************************************)
(* Script::invoke never returns NOSCRIPT, even if its script is flushed or *)
(* its keys move between the two commands.                                 *)
(***************************************************************************)
THEOREM CacheIsHidden == ASSUME PlainScripts PROVE Spec => []NoScriptIsHidden
<1>1. IInv => NoScriptIsHidden
  BY PlainScripts DEF IInv, OutInv, NoScriptIsHidden
<1> QED BY <1>1, Inductive, PTL
=============================================================================
