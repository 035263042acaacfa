---------------------------- MODULE LlamaContext ----------------------------
(***************************************************************************)
(* What the model of project-c/m6-llm promises its callers: each token fed *)
(* to it joins the context, and the logits of a call are those of the      *)
(* whole context, in order, and of nothing else.  LlamaNPU implements it.  *)
(***************************************************************************)
EXTENDS Sequences

CONSTANT Tokens

VARIABLES
    context,        \* the tokens fed since the last reset
    logits          \* the context the last logits belong to

vars == <<context, logits>>

Init == context = <<>> /\ logits = <<>>

Feed ==
    /\ \E t \in Tokens : context' = Append(context, t)
    /\ logits' = context'

Forget == context' = <<>> /\ UNCHANGED logits

Next == Feed \/ Forget

Spec == Init /\ [][Next]_vars
==============================================================================
