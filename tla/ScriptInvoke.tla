---------------------------- MODULE ScriptInvoke ----------------------------
(***************************************************************************)
(* Script invocations (script.rs): EVALSHA first, EVAL when the server     *)
(* answers NOSCRIPT, beside the raw eval and evalsha commands              *)
(* (commands/scripting.rs).  The script caches of the nodes change under   *)
(* the invocations: other clients load and flush, nodes restart, and the   *)
(* node that serves the keys may change between the two commands.  A       *)
(* request whose caller timed out may still be executed later.             *)
(***************************************************************************)
EXTENDS Integers, SequencesExt

CONSTANTS Invocation,   \* the invocations of a behaviour, all concurrent
          Node,         \* the nodes that may serve their keys
          Script,       \* the scripts
          Word,         \* the words keys and arguments are written as
          Params,       \* [keys, args] an invocation may be given
          RunReplies    \* what running a script may answer

(* Each key is a sequence of words, so all of them together are one. *)
ASSUME ScriptAssumption ==
  /\ RunReplies \subseteq {"ok", "error", "noscript"}
  /\ \A p \in Params : FlattenSeq(p.keys) \in Seq(Word) /\ p.args \in Seq(Word)

VARIABLES
  cache,    \* cache[n]: scripts in the cache of node n
  owner,    \* the node that serves the keys
  pc,       \* where the invocation is
  call,     \* [mode, script, keys, args] of the invocation
  wire,     \* its request on its way to a node, as a set of at most one
  reply,    \* the reply on its way back
  runs,     \* history: the runs of the script made for it
  out       \* how the invocation ended

serverVars == <<cache, owner>>
vars == <<cache, owner, pc, call, wire, reply, runs, out>>

Modes == {"invoke", "eval", "evalsha"}

(* The hash is taken to identify the script: SHA-1 collisions are ignored. *)
Hash(s) == [sha1 |-> s]
Code(s) == [code |-> s]
-----------------------------------------------------------------------------
(***************************************************************************)
(* The commands.  A key given to ScriptInvocation::key may write several   *)
(* words; they are counted after they are written.  The raw commands count *)
(* the keys of the slice instead.                                          *)
(***************************************************************************)
KeyWords(c) == FlattenSeq(c.keys)

(* Mutant of numkeys: each key is taken to be one word. *)
numkeysOfSlice(c) == Len(c.keys)

numkeys(c) == IF c.mode = "invoke" THEN Len(KeyWords(c)) ELSE Len(c.keys)

evalsha_cmd(c) == [verb |-> "EVALSHA", script |-> Hash(c.script),
                   numkeys |-> numkeys(c), words |-> KeyWords(c) \o c.args]

eval_cmd(c) == [verb |-> "EVAL", script |-> Code(c.script),
                numkeys |-> numkeys(c), words |-> KeyWords(c) \o c.args]

(* The run of script s that command q asks for. *)
Run(s, q) == [script |-> s,
              keys |-> SubSeq(q.words, 1, q.numkeys),
              argv |-> SubSeq(q.words, q.numkeys + 1, Len(q.words))]
-----------------------------------------------------------------------------
Calls == {[mode |-> m, script |-> s, keys |-> p.keys, args |-> p.args] :
            m \in Modes, s \in Script, p \in Params}

Init ==
  /\ cache = [n \in Node |-> {}]
  /\ owner \in Node
  /\ pc = [i \in Invocation |-> "new"]
  /\ call \in [Invocation -> Calls]
  /\ wire = [i \in Invocation |-> {}]
  /\ reply = [i \in Invocation |-> "none"]
  /\ runs = [i \in Invocation |-> <<>>]
  /\ out = [i \in Invocation |-> "none"]

(***************************************************************************)
(* The server.  Load is SCRIPT LOAD, by Script::load, script_load or some  *)
(* other client; Forget is SCRIPT FLUSH or a restart of the node; Move     *)
(* gives the keys to another node.                                         *)
(***************************************************************************)
Load(n, s) ==
  /\ s \notin cache[n]
  /\ cache' = [cache EXCEPT ![n] = @ \cup {s}]
  /\ UNCHANGED <<owner, pc, call, wire, reply, runs, out>>

Forget(n) ==
  /\ cache[n] # {}
  /\ cache' = [cache EXCEPT ![n] = {}]
  /\ UNCHANGED <<owner, pc, call, wire, reply, runs, out>>

Move(n) ==
  /\ owner' = n /\ n # owner
  /\ UNCHANGED <<cache, pc, call, wire, reply, runs, out>>

(* The reply reaches the invocation if it still waits for it. *)
Answer(i, r) ==
  /\ wire' = [wire EXCEPT ![i] = {}]
  /\ reply' = [reply EXCEPT ![i] = IF pc[i] = "done" THEN @ ELSE r]
  /\ UNCHANGED <<owner, pc, call, out>>

(* EVAL stores the script and runs it. *)
ServeEval(i) == \E q \in wire[i], s \in Script, r \in RunReplies :
  /\ q.verb = "EVAL" /\ q.script = Code(s)
  /\ cache' = [cache EXCEPT ![owner] = @ \cup {s}]
  /\ runs' = [runs EXCEPT ![i] = Append(@, Run(s, q))]
  /\ Answer(i, r)

(* EVALSHA runs a script the cache holds ... *)
ServeEvalsha(i) == \E q \in wire[i], s \in cache[owner], r \in RunReplies :
  /\ q.verb = "EVALSHA" /\ q.script = Hash(s)
  /\ runs' = [runs EXCEPT ![i] = Append(@, Run(s, q))]
  /\ Answer(i, r)
  /\ UNCHANGED cache

(* ... and answers NOSCRIPT for any other. *)
ServeUnknown(i) == \E q \in wire[i] :
  /\ q.verb = "EVALSHA"
  /\ \A s \in cache[owner] : q.script # Hash(s)
  /\ Answer(i, "noscript")
  /\ UNCHANGED <<cache, runs>>
-----------------------------------------------------------------------------
(* Mutant of Start: the command says it has no keys. *)
StartNoKeys(i) ==
  /\ pc[i] = "new"
  /\ pc' = [pc EXCEPT ![i] = "evalsha"]
  /\ wire' = [wire EXCEPT ![i] = {[evalsha_cmd(call[i]) EXCEPT !.numkeys = 0]}]
  /\ UNCHANGED <<serverVars, call, reply, runs, out>>

(* The caller starts: invoke and invoke_async begin with EVALSHA. *)
Start(i) ==
  /\ pc[i] = "new"
  /\ LET verb == IF call[i].mode = "eval" THEN "eval" ELSE "evalsha"
     IN /\ pc' = [pc EXCEPT ![i] = verb]
        /\ wire' = [wire EXCEPT ![i] =
                      {IF verb = "eval" THEN eval_cmd(call[i])
                                        ELSE evalsha_cmd(call[i])}]
  /\ UNCHANGED <<serverVars, call, reply, runs, out>>

(* Mutants of Fallback: on any error; by hash again, once; by hash until known. *)
FallbackOnAnyError(i) ==
  /\ pc[i] = "evalsha" /\ call[i].mode = "invoke"
  /\ reply[i] \in {"noscript", "error"}
  /\ pc' = [pc EXCEPT ![i] = "eval"]
  /\ wire' = [wire EXCEPT ![i] = {eval_cmd(call[i])}]
  /\ reply' = [reply EXCEPT ![i] = "none"]
  /\ UNCHANGED <<serverVars, call, runs, out>>

FallbackByHash(i) ==
  /\ pc[i] = "evalsha" /\ call[i].mode = "invoke"
  /\ reply[i] = "noscript"
  /\ pc' = [pc EXCEPT ![i] = "eval"]
  /\ wire' = [wire EXCEPT ![i] = {evalsha_cmd(call[i])}]
  /\ reply' = [reply EXCEPT ![i] = "none"]
  /\ UNCHANGED <<serverVars, call, runs, out>>

FallbackUntilKnown(i) ==
  /\ pc[i] = "evalsha" /\ call[i].mode = "invoke"
  /\ reply[i] = "noscript"
  /\ wire' = [wire EXCEPT ![i] = {evalsha_cmd(call[i])}]
  /\ reply' = [reply EXCEPT ![i] = "none"]
  /\ UNCHANGED <<serverVars, pc, call, runs, out>>

(* Err(err) if err.kind() == NoScriptError: the EVAL fallback. *)
Fallback(i) ==
  /\ pc[i] = "evalsha" /\ call[i].mode = "invoke"
  /\ reply[i] = "noscript"
  /\ pc' = [pc EXCEPT ![i] = "eval"]
  /\ wire' = [wire EXCEPT ![i] = {eval_cmd(call[i])}]
  /\ reply' = [reply EXCEPT ![i] = "none"]
  /\ UNCHANGED <<serverVars, call, runs, out>>

(* Any other reply is returned; a good one may not decode as asked. *)
Finish(i) ==
  /\ pc[i] \in {"evalsha", "eval"}
  /\ reply[i] # "none"
  /\ ~(pc[i] = "evalsha" /\ call[i].mode = "invoke" /\ reply[i] = "noscript")
  /\ pc' = [pc EXCEPT ![i] = "done"]
  /\ \E r \in (IF reply[i] = "ok" THEN {"ok", "decode_error"} ELSE {reply[i]}) :
       out' = [out EXCEPT ![i] = r]
  /\ UNCHANGED <<serverVars, call, wire, reply, runs>>

(* The request or the reply is lost, or the timeout fires: no fallback. *)
Fail(i, lost) ==
  /\ pc[i] \in {"evalsha", "eval"}
  /\ pc' = [pc EXCEPT ![i] = "done"]
  /\ out' = [out EXCEPT ![i] = "io_error"]
  /\ wire' = [wire EXCEPT ![i] = IF lost THEN {} ELSE @]
  /\ UNCHANGED <<serverVars, call, reply, runs>>

Serve(i) == ServeEval(i) \/ ServeEvalsha(i) \/ ServeUnknown(i)

Next ==
  \/ \E n \in Node : Forget(n) \/ Move(n) \/ \E s \in Script : Load(n, s)
  \/ \E i \in Invocation : \/ Start(i) \/ Fallback(i) \/ Finish(i) \/ Serve(i)
                           \/ \E lost \in BOOLEAN : Fail(i, lost)

Spec == Init /\ [][Next]_vars

(* Requests are answered and a caller with its reply is polled. *)
FairSpec == Spec /\ \A i \in Invocation :
                      WF_vars(Serve(i)) /\ WF_vars(Fallback(i) \/ Finish(i))
-----------------------------------------------------------------------------
(* Every variable has its type. *)
TypeOK ==
  /\ cache \in [Node -> SUBSET Script]
  /\ owner \in Node
  /\ pc \in [Invocation -> {"new", "evalsha", "eval", "done"}]
  /\ call \in [Invocation -> Calls]
  /\ DOMAIN wire = Invocation /\ DOMAIN runs = Invocation
  /\ \A i \in Invocation :
       wire[i] \in {{}, {evalsha_cmd(call[i])}, {eval_cmd(call[i])}}
  /\ reply \in [Invocation -> {"none", "ok", "error", "noscript"}]
  /\ \A i \in Invocation : \A k \in DOMAIN runs[i] : runs[i][k].script \in Script
  /\ out \in [Invocation -> {"none", "ok", "error", "noscript", "decode_error",
                             "io_error"}]

(***************************************************************************)
(* The fallback never runs a script twice: EVAL is sent only after an      *)
(* EVALSHA that ran nothing, whatever happens to the caches in between and *)
(* however late a timed-out request is executed (invoke does not fall back *)
(* on a timeout or a lost connection).                                     *)
(***************************************************************************)
AtMostOnce == \A i \in Invocation : Len(runs[i]) <= 1

(***************************************************************************)
(* A caller that gets a value, a script error or a decoding error knows    *)
(* that its script ran, once, with its own KEYS and ARGV.                  *)
(***************************************************************************)
ReplyMeansRun ==
  \A i \in Invocation : out[i] \in {"ok", "error", "decode_error"} =>
    /\ Len(runs[i]) = 1
    /\ call[i].mode = "invoke" =>
         runs[i][1] = [script |-> call[i].script, keys |-> KeyWords(call[i]),
                       argv |-> call[i].args]

(***************************************************************************)
(* Script::invoke hides the cache: it never ends with NOSCRIPT, even if    *)
(* the script is flushed, or its keys move, between the two commands.      *)
(***************************************************************************)
NoScriptIsHidden ==
  \A i \in Invocation : call[i].mode = "invoke" => out[i] # "noscript"

(***************************************************************************)
(* Every invocation ends, fallback included: EVAL needs no cache, so       *)
(* flushes cannot send it round again.                                     *)
(***************************************************************************)
InvocationsEnd == \A i \in Invocation : pc[i] \in {"evalsha", "eval"} ~> pc[i] = "done"

(***************************************************************************)
(* "transparently fall back to EVAL ... when the server does not know the  *)
(* hash (NOSCRIPT)": an invocation that has fallen back has not run yet.   *)
(***************************************************************************)
FallbackOnlyIfUnknown ==
  \A i \in Invocation :
    pc[i] = "eval" /\ call[i].mode = "invoke" /\ wire[i] # {} => runs[i] = <<>>
=============================================================================
