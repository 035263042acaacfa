------------------------------ MODULE LlamaNPU ------------------------------
(***************************************************************************)
(* The model, class LlamaNPU of project-c/m6-llm/llama_npu.py: one         *)
(* forward_token() takes a token through all layers, and every layer keeps *)
(* its own lists of keys and values, which nothing but the length of the   *)
(* lists and pos ties together.                                            *)
(*                                                                         *)
(* A key is named by its token and the position it was rotated by, a value *)
(* by its token, and what a layer computed by the keys and values that its *)
(* attention read.                                                         *)
(***************************************************************************)
EXTENDS Integers, Sequences

CONSTANTS
    n_layers,
    Tokens,
    MaxPos          \* bound: tokens in the cache

VARIABLES
    k_cache, v_cache,   \* per layer
    pos,
    token,              \* argument of the call that runs
    li,                 \* its layer, 0 while no call runs
    h,                  \* what the layers passed so far have read, layer by layer
    logits,             \* the same of the last call that returned
    fed                 \* history: the tokens fed since the last reset

cache == <<k_cache, v_cache, pos>>
call == <<token, li, h>>
vars == <<cache, call, logits, fed>>

ASSUME ConstantsAssumption ==
    /\ n_layers \in Nat \ {0}
    /\ Tokens # {}
    /\ MaxPos \in Nat

Layers == 1..n_layers

Empty == [l \in Layers |-> <<>>]

Init ==
    /\ k_cache = Empty /\ v_cache = Empty
    /\ pos = 0
    /\ token \in Tokens /\ li = 0 /\ h = <<>>
    /\ logits = <<>>
    /\ fed = <<>>

(* A slip: pos goes on from where it was. *)
WhereItWas == pos
Start == 0

reset ==
    /\ li = 0
    /\ k_cache' = Empty /\ v_cache' = Empty
    /\ pos' = Start
    /\ fed' = <<>>
    /\ UNCHANGED <<call, logits>>

------------------------------------------------------------------------------
(* forward_token *)

Begin(t) ==
    /\ li = 0
    /\ token' = t
    /\ li' = 1
    /\ h' = <<>>
    /\ fed' = Append(fed, t)
    /\ UNCHANGED <<cache, logits>>

(* K and V of a layer, read row by row. *)
Read(K, V) == [i \in 1..Len(K) |-> [key |-> K[i], value |-> V[i]]]

(* A slip: attention runs before the token's own key and value are kept. *)
Earlier == Read(k_cache[li], v_cache[li])
Attended == Read(k_cache'[li], v_cache'[li])

Layer ==
    /\ li \in Layers
    /\ k_cache' = [k_cache EXCEPT ![li] = Append(@, [tok |-> token, at |-> pos])]
    /\ v_cache' = [v_cache EXCEPT ![li] = Append(@, token)]
    /\ h' = Append(h, Attended)
    /\ li' = li + 1
    /\ UNCHANGED <<pos, token, logits, fed>>

Return ==
    /\ li = n_layers + 1
    /\ logits' = h
    /\ pos' = pos + 1
    /\ li' = 0
    /\ UNCHANGED <<k_cache, v_cache, token, h, fed>>

------------------------------------------------------------------------------

Next ==
    \/ reset
    \/ pos < MaxPos /\ \E t \in Tokens : Begin(t)
    \/ Layer
    \/ Return

Spec == Init /\ [][Next]_vars

------------------------------------------------------------------------------
(* Properties. *)

(* What attention has to read after "tokens": each with the position it    *)
(* has in the context.                                                     *)
Reading(tokens) ==
    [i \in 1..Len(tokens) |-> [key |-> [tok |-> tokens[i], at |-> i - 1],
                               value |-> tokens[i]]]

(* Between calls the lists of all layers hold the context, nothing of it   *)
(* is lost at a reset or left over from before it.                         *)
CacheIsContext ==
    li = 0 => /\ pos = Len(fed)
              /\ \A l \in Layers : Read(k_cache[l], v_cache[l]) = Reading(fed)

(* LlamaNPU implements LlamaContext: a call feeds its token when it        *)
(* returns.                                                                *)
Kept == SubSeq(fed, 1, pos)

Said == [i \in 1..Len(logits[n_layers]) |-> logits[n_layers][i].value]

Context == INSTANCE LlamaContext
    WITH context <- Kept, logits <- IF logits = <<>> THEN <<>> ELSE Said

ContextSpec == Context!Spec
==============================================================================
