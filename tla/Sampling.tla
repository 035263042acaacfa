------------------------------ MODULE Sampling -------------------------------
(***************************************************************************)
(* sample_next() of project-c/m6-llm/llama_npu.py: the tokens that may be  *)
(* drawn.  A probability is a number of units; rounding lets those of all  *)
(* tokens sum to less than the unit that top_p is measured in, or more.    *)
(***************************************************************************)
EXTENDS Integers, FiniteSets, SequencesExt

CONSTANTS
    Vocabulary,     \* tokens 1..Vocabulary
    MaxMass         \* bound: units of a token, and of top_p per token

ASSUME SamplingAssumption == Vocabulary \in Nat \ {0} /\ MaxMass \in Nat

Ids == 1..Vocabulary

(* np.argsort(p)[::-1]: equal probabilities come in any order. *)
Orders(p) ==
    {s \in [Ids -> Ids] : /\ \A i, j \in Ids : i # j => s[i] # s[j]
                          /\ \A i \in 1..(Vocabulary - 1) : p[s[i]] >= p[s[i + 1]]}

(* np.cumsum(p[order]). *)
cum(p, order, i) == SumFunctionOnSet([k \in Ids |-> p[order[k]]], 1..i)

(* A slip: np.searchsorted without the one more. *)
CutBefore(p, order, top_p) == Cardinality({i \in Ids : cum(p, order, i) < top_p})

cut(p, order, top_p) == Cardinality({i \in Ids : cum(p, order, i) < top_p}) + 1

(* order[:cut] ends with order. *)
keep(p, order, top_p) ==
    {order[i] : i \in {k \in Ids : k <= cut(p, order, top_p)}}

(* The units of a set of tokens. *)
Mass(p, tokens) == SumFunctionOnSet(p, tokens)

Smallest(p, top_p, nucleus) ==
    LET enough == {s \in (SUBSET Ids) \ {{}} : Mass(p, s) >= top_p}
    IN IF enough = {} THEN nucleus = Ids
       ELSE /\ nucleus \in enough
            /\ \A s \in enough : Cardinality(s) >= Cardinality(nucleus)

AlwaysSmallest ==
    \A p \in [Ids -> 0..MaxMass], top_p \in 0..(Vocabulary * MaxMass) :
        \A order \in Orders(p) : Smallest(p, top_p, keep(p, order, top_p))
==============================================================================
