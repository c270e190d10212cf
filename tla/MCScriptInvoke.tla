--------------------------- MODULE MCScriptInvoke ---------------------------
(* TLC instances of ScriptInvoke: a plain invocation, and one whose first key *)
(* writes two words.                                                          *)
EXTENDS ScriptInvoke

CONSTANTS k1, k2, a1

MCParams == {[keys |-> <<<<k1>>>>, args |-> <<a1>>],
             [keys |-> <<<<k1, k2>>>>, args |-> <<>>]}
MCParamsFew == {[keys |-> <<<<k1>>>>, args |-> <<a1>>]}
=============================================================================
