--------------------------- MODULE LlamaChatProofs ---------------------------
(***************************************************************************)
(* The KV cache and the conversation in it, for every number of layers,    *)
(* every set of answers and every length of reply.                         *)
(***************************************************************************)
EXTENDS LlamaChat, FiniteSetTheorems, SequenceTheorems, TLAPS

USE ConstantsAssumption

Keys == [tok : Tokens, at : Nat]
Reads == Seq([key : Keys, value : Tokens])

ModelType ==
    /\ k_cache \in [Layers -> Seq(Keys)] /\ v_cache \in [Layers -> Seq(Tokens)]
    /\ pos \in Nat /\ token \in Tokens /\ li \in 0..(n_layers + 1)
    /\ h \in Seq(Reads) /\ logits \in Seq(Reads) /\ fed \in Seq(Tokens)

(* A layer holds the first m tokens of the context.                        *)
Holds(K, V, m) ==
    /\ Len(K) = m /\ Len(V) = m
    /\ \A i \in 1..m : K[i] = [tok |-> fed[i], at |-> i - 1] /\ V[i] = fed[i]

(* While a call runs the layers it has passed are one token ahead of pos.  *)
CacheInv ==
    /\ li = 0 => pos = Len(fed)
    /\ li # 0 => pos + 1 = Len(fed) /\ fed[Len(fed)] = token
    /\ \A l \in Layers :
           Holds(k_cache[l], v_cache[l], IF li = 0 \/ l < li THEN Len(fed) ELSE pos)

(* The layers of a call, and those of the last one, have read the whole    *)
(* context.                                                                *)
ReadInv ==
    /\ li # 0 => Len(h) = li - 1 /\ \A l \in 1..(li - 1) : h[l] = Reading(fed)
    /\ li = 0 /\ Len(fed) > 0 =>
           Len(logits) = n_layers /\ \A l \in Layers : logits[l] = Reading(fed)

ModelInv == ModelType /\ CacheInv /\ ReadInv

ReplType ==
    /\ pc \in {"main", "prompt", "prefill", "generate", "closing", "closed",
               "feed", "loop", "done"}
    /\ n \in 0..MaxNew /\ ids \in Seq(Tokens)

(* Tokens wait to be fed only in the two prefills, and a call runs in none *)
(* of the states that talk to the user.                                    *)
ReplInv ==
    /\ pc \notin {"prefill", "feed"} => ids = <<>>
    /\ pc \in {"main", "prompt"} => li = 0
    /\ pc = "main" => first /\ fed = <<>>
    /\ pc = "prompt" => (first <=> fed = <<>>)
    /\ pc \in {"prefill", "generate", "closing", "closed"} => ~first /\ fed \o ids # <<>>

(* The shape of a dialogue in which a reply is open or not.                *)
Shaped(dialog, open) ==
    /\ dialog # <<>> => dialog[1] = "bos"
    /\ \A i \in 2..Len(dialog) : dialog[i] # "bos"
    /\ \A i \in 1..(Len(dialog) - 1) : dialog[i] \in Replies \cup {"asst"} =>
           dialog[i + 1] \in Replies \cup {"eot"}
    /\ open => dialog # <<>> /\ dialog[Len(dialog)] \in Replies \cup {"asst"}
    /\ ~open /\ dialog # <<>> => dialog[Len(dialog)] = "eot"

Spoken == IF OneShot THEN <<>> ELSE fed \o ids
Replying == pc \in {"prefill", "generate", "closing"}

DialogInv == Shaped(Spoken, Replying)

------------------------------------------------------------------------------
(* Sequences. *)

LEMMA FunctionIsSeq == ASSUME NEW S, NEW m \in Nat, NEW f \in [1..m -> S] PROVE f \in Seq(S)
  BY SeqDef

LEMMA ReadingIsRead ==
    ASSUME NEW tokens \in Seq(Tokens)
    PROVE  Reading(tokens) \in Reads
<1>1. Reading(tokens) \in [1..Len(tokens) -> [key : Keys, value : Tokens]]
  <2>1. \A i \in 1..Len(tokens) : tokens[i] \in Tokens /\ i - 1 \in Nat
    BY ElementOfSeq
  <2>2. QED
    BY <2>1 DEF Reading, Keys
<1>2. Len(tokens) \in Nat
  BY LenProperties
<1>3. QED
  BY <1>1, <1>2, FunctionIsSeq DEF Reads

(* What a layer that holds the context reads. *)
LEMMA ReadIsReading ==
    ASSUME NEW K, NEW V, fed \in Seq(Tokens), Holds(K, V, Len(fed))
    PROVE  Read(K, V) = Reading(fed)
<1>1. Len(K) = Len(fed)
  BY DEF Holds
<1>2. ASSUME NEW i \in 1..Len(fed)
      PROVE  [key |-> K[i], value |-> V[i]]
             = [key |-> [tok |-> fed[i], at |-> i - 1], value |-> fed[i]]
  <2>1. K[i] = [tok |-> fed[i], at |-> i - 1] /\ V[i] = fed[i]
    BY DEF Holds
  <2>2. QED
    BY <2>1, Zenon
<1>3. QED
  BY <1>1, <1>2, Zenon DEF Read, Reading

(* A layer is told of the token that the context already ends with. *)
LEMMA HoldsOneMore ==
    ASSUME NEW K \in Seq(Keys), NEW V \in Seq(Tokens), NEW m \in Nat,
           Holds(K, V, m), NEW key \in Keys, NEW t \in Tokens,
           key = [tok |-> fed[m + 1], at |-> m], t = fed[m + 1]
    PROVE  Holds(Append(K, key), Append(V, t), m + 1)
<1> DEFINE KK == Append(K, key)
           VV == Append(V, t)
<1>1. Len(K) = m /\ Len(V) = m
  BY DEF Holds
<1>2. /\ Len(KK) = m + 1
      /\ KK[m + 1] = key /\ \A i \in 1..m : KK[i] = K[i]
  BY <1>1, AppendProperties
<1>3. /\ Len(VV) = m + 1
      /\ VV[m + 1] = t /\ \A i \in 1..m : VV[i] = V[i]
  BY <1>1, AppendProperties
<1> HIDE DEF KK, VV
<1>4. ASSUME NEW i \in 1..(m + 1)
      PROVE  KK[i] = [tok |-> fed[i], at |-> i - 1] /\ VV[i] = fed[i]
  <2>1. CASE i = m + 1
    BY <1>2, <1>3, <2>1
  <2>2. CASE i \in 1..m
    BY <1>2, <1>3, <2>2 DEF Holds
  <2>3. QED
    BY <2>1, <2>2
<1>5. QED
  BY <1>2, <1>3, <1>4 DEF Holds, KK, VV

------------------------------------------------------------------------------
(* The model, whoever calls it. *)

Called == reset \/ (\E t \in Tokens : Begin(t)) \/ Layer \/ Return

LEMMA ModelInit == Init => ModelInv
<1> SUFFICES ASSUME Init PROVE ModelInv
  OBVIOUS
<1>1. Len(<<>>) = 0 /\ <<>> \in Seq(Keys) /\ <<>> \in Seq(Tokens) /\ <<>> \in Seq(Reads)
  BY EmptySeq
<1>2. ModelType
  BY <1>1 DEF Init, ModelType, Empty
<1>3. CacheInv /\ ReadInv
  BY <1>1 DEF Init, CacheInv, ReadInv, Empty, Holds
<1>4. QED
  BY <1>2, <1>3 DEF ModelInv

LEMMA ResetKeeps == ModelInv /\ reset => ModelInv'
<1> SUFFICES ASSUME ModelInv, reset PROVE ModelInv'
  OBVIOUS
<1>1. Len(<<>>) = 0 /\ <<>> \in Seq(Keys) /\ <<>> \in Seq(Tokens)
  BY EmptySeq
<1>2. ModelType'
  BY <1>1 DEF ModelInv, ModelType, reset, Start, Empty, call
<1>3. CacheInv' /\ ReadInv'
  BY <1>1 DEF reset, Start, CacheInv, ReadInv, Empty, Holds, call
<1>4. QED
  BY <1>2, <1>3 DEF ModelInv

LEMMA BeginKeeps == ASSUME ModelInv, NEW t \in Tokens, Begin(t) PROVE ModelInv'
<1> USE DEF ModelInv, ModelType, CacheInv
<1>1. /\ fed' \in Seq(Tokens) /\ Len(fed') = Len(fed) + 1
      /\ \A i \in 1..Len(fed) : fed'[i] = fed[i]
      /\ fed'[Len(fed) + 1] = t /\ Len(fed) \in Nat
  BY AppendProperties, LenProperties DEF Begin
<1>2. <<>> \in Seq(Reads) /\ Len(<<>>) = 0
  BY EmptySeq
<1>3. ModelType'
  BY <1>1, <1>2 DEF Begin, cache
<1>4. CacheInv'
  <2>1. li = 0 /\ li' = 1 /\ UNCHANGED <<k_cache, v_cache, pos>> /\ token' = t
    BY DEF Begin, cache
  <2>2. ASSUME NEW l \in Layers PROVE Holds(k_cache[l], v_cache[l], pos)'
    BY <1>1, <2>1 DEF Holds
  <2>3. QED
    BY <1>1, <2>1, <2>2 DEF Layers
<1>5. ReadInv'
  BY <1>1, <1>2 DEF Begin, ReadInv
<1>6. QED
  BY <1>3, <1>4, <1>5

LEMMA LayerKeeps == ModelInv /\ Layer => ModelInv'
<1> SUFFICES ASSUME ModelInv, Layer PROVE ModelInv'
  OBVIOUS
<1> USE DEF ModelInv, ModelType, CacheInv, Layers
<1>1. /\ li \in Layers /\ li' = li + 1
      /\ UNCHANGED <<pos, token, logits, fed>>
      /\ Len(fed) \in Nat /\ pos + 1 = Len(fed) /\ fed[pos + 1] = token
  BY LenProperties DEF Layer
<1> DEFINE key == [tok |-> token, at |-> pos]
<1>2. key \in Keys
  BY DEF Keys
<1>3. k_cache'[li] = Append(k_cache[li], key) /\ v_cache'[li] = Append(v_cache[li], token)
  BY <1>1 DEF Layer
<1>4. /\ k_cache' \in [Layers -> Seq(Keys)] /\ v_cache' \in [Layers -> Seq(Tokens)]
      /\ \A l \in Layers : l # li => k_cache'[l] = k_cache[l] /\ v_cache'[l] = v_cache[l]
  <2>1. Append(k_cache[li], key) \in Seq(Keys) /\ Append(v_cache[li], token) \in Seq(Tokens)
    BY <1>1, <1>2, AppendProperties
  <2>2. QED
    BY <1>1, <2>1 DEF Layer
<1>5. Holds(k_cache'[li], v_cache'[li], Len(fed))
  <2>1. Holds(k_cache[li], v_cache[li], pos)
    BY <1>1
  <2>2. k_cache[li] \in Seq(Keys) /\ v_cache[li] \in Seq(Tokens)
    BY <1>1
  <2>3. Holds(Append(k_cache[li], key), Append(v_cache[li], token), pos + 1)
    BY <1>1, <1>2, <2>1, <2>2, HoldsOneMore
  <2>4. QED
    BY <1>1, <1>3, <2>3
<1>6. Attended = Reading(fed)
  BY <1>5, ReadIsReading DEF Attended
<1>7. /\ h' \in Seq(Reads) /\ Len(h') = li
      /\ \A l \in 1..li : h'[l] = Reading(fed)
  <2>1. Len(h) = li - 1 /\ \A l \in 1..(li - 1) : h[l] = Reading(fed)
    BY <1>1 DEF ReadInv
  <2>2. h' = Append(h, Reading(fed))
    BY <1>6 DEF Layer
  <2>3. Reading(fed) \in Reads /\ h \in Seq(Reads) /\ Len(h) + 1 = li
    BY <1>1, <2>1, ReadingIsRead
  <2>4. /\ h' \in Seq(Reads) /\ Len(h') = Len(h) + 1
        /\ h'[Len(h) + 1] = Reading(fed) /\ \A l \in 1..Len(h) : h'[l] = h[l]
    BY <2>2, <2>3, AppendProperties
  <2> HIDE DEF ModelInv
  <2>5. QED
    BY <1>1, <2>1, <2>3, <2>4
<1>8. ModelType'
  <2>1. li' \in 0..(n_layers + 1)
    BY <1>1
  <2>2. QED
    BY <1>1, <1>4, <1>7, <2>1
<1>9. CacheInv'
  <2>1. ASSUME NEW l \in Layers
        PROVE  Holds(k_cache[l], v_cache[l], IF li = 0 \/ l < li THEN Len(fed) ELSE pos)'
    <3>1. Holds(k_cache'[l], v_cache'[l], IF l < li + 1 THEN Len(fed) ELSE pos)
      <4>1. CASE l = li
        BY <1>5, <4>1
      <4>2. CASE l # li
        BY <1>1, <1>4, <4>2
      <4>3. QED
        BY <4>1, <4>2
    <3>2. QED
      BY <1>1, <3>1 DEF Holds
  <2>2. QED
    BY <1>1, <2>1
<1>10. ReadInv'
  BY <1>1, <1>7 DEF ReadInv, Reading
<1>11. QED
  BY <1>8, <1>9, <1>10

LEMMA ReturnKeeps == ModelInv /\ Return => ModelInv'
<1> SUFFICES ASSUME ModelInv, Return PROVE ModelInv'
  OBVIOUS
<1>1. ModelType'
  BY DEF ModelInv, ModelType, Return
<1>2. CacheInv'
  BY DEF ModelInv, ModelType, Return, CacheInv, Holds, Layers
<1>3. ReadInv'
  BY DEF ModelInv, ModelType, Return, ReadInv, Reading, Layers
<1>4. QED
  BY <1>1, <1>2, <1>3 DEF ModelInv

LEMMA ModelKeeps == ModelInv /\ (Called \/ UNCHANGED vars) => ModelInv'
<1> SUFFICES ASSUME ModelInv, Called \/ UNCHANGED vars PROVE ModelInv'
  OBVIOUS
<1>1. CASE UNCHANGED vars
  BY <1>1 DEF vars, cache, call, ModelInv, ModelType, CacheInv, ReadInv, Holds, Reading
<1>2. QED
  BY <1>1, ResetKeeps, BeginKeeps, LayerKeeps, ReturnKeeps DEF Called

LEMMA CacheFollows == ModelInv => CacheIsContext
<1> SUFFICES ASSUME ModelInv, li = 0 PROVE CacheIsContext
  BY DEF CacheIsContext
<1>1. pos = Len(fed) /\ \A l \in Layers : Holds(k_cache[l], v_cache[l], Len(fed))
  BY DEF ModelInv, CacheInv
<1>2. ASSUME NEW l \in Layers PROVE Read(k_cache[l], v_cache[l]) = Reading(fed)
  BY <1>1, ReadIsReading DEF ModelInv, ModelType
<1>3. QED
  BY <1>1, <1>2 DEF CacheIsContext

(* What the logits belong to, and how the kept context grows. *)
LEMMA SaidIsRead ==
    ASSUME NEW tokens \in Seq(Tokens)
    PROVE  [i \in 1..Len(Reading(tokens)) |-> Reading(tokens)[i].value] = tokens
<1>1. Len(Reading(tokens)) = Len(tokens)
  <2>1. Len(Reading(tokens)) \in Nat /\ DOMAIN Reading(tokens) = 1..Len(Reading(tokens))
    BY ReadingIsRead, LenProperties DEF Reads
  <2>2. DOMAIN Reading(tokens) = 1..Len(tokens) /\ Len(tokens) \in Nat
    BY LenProperties DEF Reading
  <2>3. QED
    BY <2>1, <2>2
<1>2. \A i \in 1..Len(tokens) : Reading(tokens)[i].value = tokens[i]
  BY DEF Reading
<1>3. tokens = [i \in 1..Len(tokens) |-> tokens[i]]
  BY LenProperties
<1>4. QED
  BY <1>1, <1>2, <1>3

LEMMA KeptBetween == ModelInv /\ li = 0 => Kept = fed /\ Kept \in Seq(Tokens)
  BY SubSeqFull DEF ModelInv, ModelType, CacheInv, Kept

LEMMA KeptMeanwhile ==
    ModelInv /\ li # 0 => fed = Append(Kept, token) /\ Kept \in Seq(Tokens)
<1> SUFFICES ASSUME ModelInv, li # 0
             PROVE  fed = Append(Kept, token) /\ Kept \in Seq(Tokens)
  OBVIOUS
<1>1. /\ fed \in Seq(Tokens) /\ pos \in Nat /\ token \in Tokens
      /\ Len(fed) = pos + 1 /\ fed[pos + 1] = token
  BY DEF ModelInv, ModelType, CacheInv
<1>2. \A i \in 1..pos : fed[i] \in Tokens
  BY <1>1, ElementOfSeq
<1>3. /\ Kept \in Seq(Tokens) /\ Len(Kept) = pos
      /\ \A i \in 1..pos : Kept[i] = fed[i]
  BY <1>1, <1>2, SubSeqProperties DEF Kept
<1>4. /\ Append(Kept, token) \in Seq(Tokens) /\ Len(Append(Kept, token)) = pos + 1
      /\ \A i \in 1..pos : Append(Kept, token)[i] = Kept[i]
      /\ Append(Kept, token)[pos + 1] = token
  BY <1>1, <1>3, AppendProperties
<1>5. \A i \in 1..Len(fed) : fed[i] = Append(Kept, token)[i]
  BY <1>1, <1>3, <1>4
<1>6. QED
  BY <1>1, <1>3, <1>4, <1>5, SeqEqual

LEMMA CallRefines ==
    ModelInv /\ (Called \/ UNCHANGED vars) => [Context!Next]_(Context!vars)
<1> SUFFICES ASSUME ModelInv, Called \/ UNCHANGED vars
             PROVE  Context!Next \/ UNCHANGED Context!vars
  BY DEF Context!vars
<1>1. ModelInv'
  BY ModelKeeps
<1>2. (li = 0 => Kept = fed /\ Kept \in Seq(Tokens))'
  <2>1. (ModelInv /\ li = 0 => Kept = fed /\ Kept \in Seq(Tokens))'
    BY KeptBetween, PTL
  <2>2. QED
    BY <1>1, <2>1
<1>3. (li # 0 => fed = Append(Kept, token) /\ Kept \in Seq(Tokens))'
  <2>1. (ModelInv /\ li # 0 => fed = Append(Kept, token) /\ Kept \in Seq(Tokens))'
    BY KeptMeanwhile, PTL
  <2>2. QED
    BY <1>1, <2>1
<1>4. ASSUME UNCHANGED <<Kept, logits>> PROVE UNCHANGED Context!vars
  BY <1>4 DEF Context!vars, Said
<1>5. CASE reset
  <2>1. fed' = <<>> /\ li' = 0 /\ logits' = logits
    BY <1>5 DEF reset, call
  <2>2. Kept' = fed'
    BY <1>1, <2>1, SubSeqFull DEF Kept, ModelInv, ModelType, CacheInv
  <2>3. QED
    BY <2>1, <2>2 DEF Context!Next, Context!Forget, Said
<1>6. ASSUME NEW t \in Tokens, Begin(t) PROVE UNCHANGED Context!vars
  <2>1. li = 0 /\ li' = 1 /\ token' = t /\ fed' = Append(fed, t) /\ logits' = logits
    BY <1>6 DEF Begin
  <2>2. Kept = fed /\ Kept \in Seq(Tokens)
    BY <2>1, KeptBetween
  <2>3. (fed = Append(Kept, token) /\ Kept \in Seq(Tokens))'
    BY <1>3, <2>1
  <2>4. Kept' = Kept
    <3>1. Append(Kept', t) = Append(Kept, t) /\ Kept' \in Seq(Tokens)
      BY <2>1, <2>2, <2>3
    <3>2. QED
      BY <2>2, <3>1, AppendInjective
  <2>5. QED
    BY <1>4, <2>1, <2>4
<1>7. CASE Layer
  BY <1>4, <1>7 DEF Layer, Kept
<1>8. CASE Return
  <2>1. li # 0 /\ li' = 0 /\ fed' = fed /\ logits' = h
    BY <1>8 DEF Return
  <2>2. Kept' = Append(Kept, token) /\ Kept' = fed' /\ token \in Tokens /\ fed \in Seq(Tokens)
    BY <1>2, <2>1, KeptMeanwhile DEF ModelInv, ModelType
  <2>3. Len(h) = n_layers /\ h[n_layers] = Reading(fed) /\ h # <<>>
    <3>1. li = n_layers + 1 /\ n_layers \in 1..(li - 1)
      BY <1>8 DEF Return
    <3>2. Len(h) = n_layers /\ h[n_layers] = Reading(fed)
      BY <3>1 DEF ModelInv, ReadInv
    <3>3. Len(<<>>) = 0
      BY EmptySeq
    <3>4. QED
      BY <3>2, <3>3
  <2>4. Said' = fed'
    <3>1. Said' = [i \in 1..Len(Reading(fed)) |-> Reading(fed)[i].value]
      BY <2>1, <2>3, Zenon DEF Said
    <3>2. QED
      BY <2>1, <2>2, <3>1, SaidIsRead
  <2>5. Context!Feed
    BY <2>1, <2>2, <2>3, <2>4 DEF Context!Feed
  <2>6. QED
    BY <2>5 DEF Context!Next
<1>9. CASE UNCHANGED vars
  BY <1>4, <1>9 DEF vars, cache, Kept
<1>10. QED
  BY <1>5, <1>6, <1>7, <1>8, <1>9 DEF Called

LEMMA ContextInit == Init => Context!Init
  BY SubSeqEmpty DEF Init, Context!Init, Kept

(* Whoever calls the model, between two calls the lists of all layers hold *)
(* the tokens fed since the last reset, each with its place.               *)
THEOREM CacheHoldsContext == Spec => []CacheIsContext
<1>1. Next => Called
  BY DEF Next, Called
<1>2. ModelInv /\ [Next]_vars => ModelInv'
  BY <1>1, ModelKeeps
<1>3. QED
  BY <1>2, ModelInit, CacheFollows, PTL DEF Spec

(* The layers and their lists together are one context that grows by a     *)
(* token a call: LlamaNPU implements LlamaContext.                         *)
THEOREM ModelIsContext == Spec => ContextSpec
<1>1. Next => Called
  BY DEF Next, Called
<1>2. ModelInv /\ [Next]_vars => ModelInv'
  BY <1>1, ModelKeeps
<1>3. ModelInv /\ [Next]_vars => [Context!Next]_(Context!vars)
  BY <1>1, CallRefines
<1>4. QED
  BY <1>2, <1>3, ModelInit, ContextInit, PTL DEF Spec, ContextSpec, Context!Spec

------------------------------------------------------------------------------
(* The conversation. *)

LEMMA TemplateIsTokens ==
    /\ "bos" \in Tokens /\ "sys" \in Tokens /\ "user" \in Tokens /\ "eot" \in Tokens
    /\ "asst" \in Tokens /\ Replies \subseteq Tokens
  BY ChatAssumption DEF Template

LEMMA TurnIsSeq ==
    /\ _user_turn \in Seq(Tokens) /\ _user_turn # <<>>
    /\ _user_turn = (IF first THEN Dialog!Opening ELSE <<>>) \o Dialog!Question
<1>1. Dialog!Opening \in Seq(Tokens) /\ Dialog!Question \in Seq(Tokens) /\ <<>> \in Seq(Tokens)
      /\ Len(Dialog!Question) = 3
  <2>1. <<"bos", "sys", "eot">> \in Seq(Tokens) /\ <<"bos">> \in Seq(Tokens)
        /\ <<"user", "eot", "asst">> \in Seq(Tokens)
    BY TemplateIsTokens
  <2>2. Len(<<"user", "eot", "asst">>) = 3 /\ <<>> \in Seq(Tokens)
    BY EmptySeq
  <2>3. QED
    BY <2>1, <2>2 DEF Dialog!Opening, Dialog!Question
<1>2. _user_turn = (IF first THEN Dialog!Opening ELSE <<>>) \o Dialog!Question
  BY DEF _user_turn, Dialog!Opening, Dialog!Question
<1> DEFINE start == IF first THEN Dialog!Opening ELSE <<>>
<1>3. start \in Seq(Tokens)
  BY <1>1
<1> HIDE DEF start
<1>4. start \o Dialog!Question \in Seq(Tokens)
  BY <1>1, <1>3, ConcatProperties
<1>5. start \o Dialog!Question # <<>>
  <2>1. Dialog!Question # <<>>
    BY <1>1, EmptySeq
  <2>2. QED
    BY <1>1, <1>3, <2>1, ConcatEqualIffEmpty
<1>6. QED
  BY <1>2, <1>4, <1>5 DEF start

(* To feed the next token of the turn leaves the dialogue as it is. *)
LEMMA FeedIsSame ==
    ASSUME NEW s \in Seq(Tokens), NEW t \in Seq(Tokens), t # <<>>
    PROVE  Append(s, Head(t)) \o Tail(t) = s \o t
<1>1. /\ Head(t) \in Tokens /\ Head(t) = t[1] /\ Tail(t) \in Seq(Tokens)
      /\ Len(Tail(t)) = Len(t) - 1 /\ \A i \in 1..Len(Tail(t)) : Tail(t)[i] = t[i + 1]
      /\ Len(s) \in Nat /\ Len(t) \in Nat /\ Len(t) > 0
  BY HeadTailProperties, EmptySeq, LenProperties
<1> DEFINE u == Append(s, Head(t))
<1>2. /\ u \in Seq(Tokens) /\ Len(u) = Len(s) + 1
      /\ u[Len(s) + 1] = t[1] /\ \A i \in 1..Len(s) : u[i] = s[i]
  BY <1>1, AppendProperties
<1> HIDE DEF u
<1>3. /\ u \o Tail(t) \in Seq(Tokens) /\ Len(u \o Tail(t)) = Len(s) + Len(t)
      /\ \A i \in 1..(Len(s) + Len(t)) : (u \o Tail(t))[i]
             = IF i <= Len(s) + 1 THEN u[i] ELSE Tail(t)[i - (Len(s) + 1)]
  <2>1. /\ u \o Tail(t) \in Seq(Tokens) /\ Len(u \o Tail(t)) = Len(u) + Len(Tail(t))
        /\ \A i \in 1..(Len(u) + Len(Tail(t))) : (u \o Tail(t))[i]
               = IF i <= Len(u) THEN u[i] ELSE Tail(t)[i - Len(u)]
    BY <1>1, <1>2, ConcatProperties
  <2>2. Len(u) + Len(Tail(t)) = Len(s) + Len(t)
    BY <1>1, <1>2
  <2>3. QED
    BY <1>2, <2>1, <2>2
<1>4. /\ s \o t \in Seq(Tokens) /\ Len(s \o t) = Len(s) + Len(t)
      /\ \A i \in 1..(Len(s) + Len(t)) : (s \o t)[i] = IF i <= Len(s) THEN s[i] ELSE t[i - Len(s)]
  BY ConcatProperties
<1>5. ASSUME NEW i \in 1..(Len(s) + Len(t)) PROVE (u \o Tail(t))[i] = (s \o t)[i]
  <2>1. CASE i <= Len(s)
    BY <1>1, <1>2, <1>3, <1>4, <2>1
  <2>2. CASE i = Len(s) + 1
    <3>1. (u \o Tail(t))[i] = t[1]
      BY <1>1, <1>2, <1>3, <2>2
    <3>2. (s \o t)[i] = t[i - Len(s)] /\ i - Len(s) = 1
      BY <1>1, <1>4, <2>2
    <3>3. QED
      BY <3>1, <3>2
  <2>3. CASE i > Len(s) + 1
    <3>1. (u \o Tail(t))[i] = Tail(t)[i - (Len(s) + 1)] /\ i - (Len(s) + 1) \in 1..Len(Tail(t))
      BY <1>1, <1>3, <2>3
    <3>2. (s \o t)[i] = t[i - Len(s)] /\ i - Len(s) = (i - (Len(s) + 1)) + 1
      BY <1>1, <1>4, <2>3
    <3>3. QED
      BY <1>1, <3>1, <3>2
  <2>4. i \in Int /\ Len(s) \in Int
    BY <1>1
  <2>5. i <= Len(s) \/ i = Len(s) + 1 \/ i > Len(s) + 1
    BY <2>4
  <2>6. QED
    BY <2>1, <2>2, <2>3, <2>5
<1>6. QED
  BY <1>3, <1>4, <1>5, SeqEqual DEF u

LEMMA ReplTypeKeeps == ReplType /\ [ChatNext]_chat_vars => ReplType'
<1> SUFFICES ASSUME ReplType, [ChatNext]_chat_vars PROVE ReplType'
  OBVIOUS
<1> USE DEF ReplType
<1>1. CASE Compute \/ StartChat
  BY <1>1 DEF Compute, StartChat, repl
<1>2. CASE StartOneShot
  <2>1. ids' \in Seq(Tokens)
    <3>1. <<"bos", "user", "eot", "asst">> \in Seq(Tokens) /\ <<"bos", "user">> \in Seq(Tokens)
          /\ <<"user">> \in Seq(Tokens) /\ <<>> \in Seq(Tokens)
      BY TemplateIsTokens, EmptySeq
    <3>2. QED
      BY <1>2, <3>1 DEF StartOneShot
  <2>2. QED
    BY <1>2, <2>1 DEF StartOneShot
<1>3. CASE Prefill \/ FeedPrompt
  BY <1>3, HeadTailProperties DEF Prefill, FeedPrompt
<1>4. CASE Answer \/ EndsReply \/ CloseTurn \/ Prompt \/ Exhausted
  BY <1>4 DEF Answer, EndsReply, CloseTurn, Prompt, Exhausted
<1>5. CASE Sample \/ Generate
  BY <1>5, ChatAssumption DEF Sample, Generate
<1>6. CASE Input
  <2>1. ids' \in Seq(Tokens)
    BY <1>6, TurnIsSeq DEF Input
  <2>2. n' \in 0..MaxNew /\ pc' = "prefill"
    BY <1>6, ChatAssumption DEF Input
  <2>3. QED
    BY <2>1, <2>2
<1>7. CASE Reset
  BY <1>7 DEF Reset
<1>8. CASE Exit \/ Dies \/ UNCHANGED chat_vars
  BY <1>8 DEF Exit, Dies, chat_vars, repl
<1>9. QED
  BY <1>1, <1>2, <1>3, <1>4, <1>5, <1>6, <1>7, <1>8
     DEF ChatNext, Command, Turn, Ends

LEMMA ChatCalls == ReplType /\ [ChatNext]_chat_vars => Called \/ UNCHANGED vars
<1> SUFFICES ASSUME ReplType, [ChatNext]_chat_vars PROVE Called \/ UNCHANGED vars
  OBVIOUS
<1> USE DEF Called, model
<1>1. CASE Compute \/ Reset
  BY <1>1 DEF Compute, Reset
<1>2. CASE Prefill \/ FeedPrompt
  BY <1>2, HeadTailProperties DEF Prefill, FeedPrompt, ReplType
<1>3. CASE Sample \/ CloseTurn \/ Generate
  BY <1>3, TemplateIsTokens DEF Sample, CloseTurn, Generate
<1>4. CASE StartChat \/ StartOneShot \/ Answer \/ EndsReply \/ Prompt \/ Exhausted
  BY <1>4 DEF StartChat, StartOneShot, Answer, EndsReply, Prompt, Exhausted
<1>5. CASE Input \/ Exit \/ Dies \/ UNCHANGED chat_vars
  BY <1>5 DEF Input, Exit, Dies, chat_vars
<1>6. QED
  BY <1>1, <1>2, <1>3, <1>4, <1>5 DEF ChatNext, Command, Turn, Ends

ChatInv == ModelInv /\ ReplType /\ ReplInv

LEMMA OneMoreSaid ==
    ASSUME NEW s \in Seq(Tokens), NEW t \in Tokens
    PROVE  Append(s, t) \o <<>> = Append(s \o <<>>, t) /\ Append(s, t) \o <<>> # <<>>
<1>1. Append(s, t) \in Seq(Tokens) /\ Append(s, t) # <<>>
  BY AppendProperties
<1>2. Append(s, t) \o <<>> = Append(s, t) /\ s \o <<>> = s
  BY <1>1, ConcatEmptySeq
<1>3. QED
  BY <1>1, <1>2

LEMMA ReplInvKeeps == ChatInv /\ [ChatNext]_chat_vars => ReplInv'
<1> SUFFICES ASSUME ChatInv, [ChatNext]_chat_vars PROVE ReplInv'
  OBVIOUS
<1>1. fed \in Seq(Tokens) /\ ids \in Seq(Tokens) /\ ReplInv
  BY DEF ChatInv, ModelInv, ModelType, ReplType
<1> USE DEF ReplInv
<1>2. CASE Compute
  <2>1. li # 0 /\ UNCHANGED <<pc, ids, first, fed>>
    BY <1>2 DEF Compute, Layer, Return, Layers, repl
  <2>2. QED
    BY <1>1, <2>1
<1>3. CASE StartChat \/ StartOneShot
  BY <1>1, <1>3 DEF StartChat, StartOneShot, model, vars, call
<1>4. CASE Input
  <2>1. fed \o _user_turn # <<>>
    BY <1>1, TurnIsSeq, ConcatEqualIffEmpty
  <2>2. ids' = _user_turn /\ fed' = fed /\ pc' = "prefill" /\ ~first'
    BY <1>4 DEF Input, NoLonger, model, vars
  <2>3. QED
    BY <2>1, <2>2
<1>5. CASE Reset
  BY <1>1, <1>5 DEF Reset, reset, call
<1>6. CASE Prefill
  <2>1. fed' \o ids' = fed \o ids
    BY <1>1, <1>6, FeedIsSame DEF Prefill, Begin
  <2>2. pc = "prefill" /\ pc' = "prefill" /\ first' = first
    BY <1>6 DEF Prefill
  <2>3. QED
    BY <1>1, <2>1, <2>2
<1>7. CASE Answer \/ EndsReply
  BY <1>1, <1>7 DEF Answer, AllFed, EndsReply, model, vars
<1>8. CASE Sample \/ CloseTurn
  <2>1. PICK t \in Tokens : Begin(t)
    BY <1>8, TemplateIsTokens DEF Sample, CloseTurn
  <2>2. fed' = Append(fed, t)
    BY <2>1 DEF Begin
  <2>3. ids = <<>> /\ ids' = <<>> /\ pc' \in {"generate", "closed"} /\ ~first /\ first' = first
    BY <1>1, <1>8 DEF Sample, CloseTurn
  <2>4. fed' \o ids' # <<>>
    BY <1>1, <2>2, <2>3, OneMoreSaid
  <2>5. QED
    BY <2>3, <2>4
<1>9. CASE Prompt
  <2>1. fed # <<>> /\ ~first /\ ids = <<>>
    BY <1>1, <1>9, ConcatEmptySeq DEF Prompt
  <2>2. fed' = fed /\ first' = first /\ ids' = ids /\ pc' = "prompt" /\ li' = 0
    BY <1>9 DEF Prompt, model, vars, call
  <2>3. QED
    BY <2>1, <2>2
<1>10. CASE FeedPrompt \/ Generate \/ Exhausted
  BY <1>1, <1>10 DEF FeedPrompt, Generate, Exhausted
<1>11. CASE Exit \/ Dies \/ UNCHANGED chat_vars
  BY <1>1, <1>11 DEF Exit, Dies, chat_vars, model, vars, call, repl
<1>12. QED
  BY <1>2, <1>3, <1>4, <1>5, <1>6, <1>7, <1>8, <1>9, <1>10, <1>11
     DEF ChatNext, Command, Turn, Ends

LEMMA ChatKeeps == ChatInv /\ [ChatNext]_chat_vars => ChatInv'
<1> SUFFICES ASSUME ChatInv, [ChatNext]_chat_vars PROVE ChatInv'
  OBVIOUS
<1>1. ModelInv'
  BY ChatCalls, ModelKeeps DEF ChatInv
<1>2. QED
  BY <1>1, ReplTypeKeeps, ReplInvKeeps DEF ChatInv

LEMMA ChatStarts == ChatInit => ChatInv
<1> SUFFICES ASSUME ChatInit PROVE ChatInv
  OBVIOUS
<1>1. ModelInv
  BY ModelInit DEF ChatInit
<1>2. ReplType
  BY ChatAssumption, EmptySeq DEF ChatInit, ReplType
<1>3. ReplInv
  BY DEF ChatInit, Init, ReplInv
<1>4. QED
  BY <1>1, <1>2, <1>3 DEF ChatInv

(* The chat implements Conversation. *)
LEMMA ChatTalks == ChatInv /\ [ChatNext]_chat_vars => [Dialog!Next]_(Dialog!vars)
<1> SUFFICES ASSUME ChatInv, [ChatNext]_chat_vars
             PROVE  Dialog!Next \/ UNCHANGED Dialog!vars
  BY DEF Dialog!vars
<1>1. /\ fed \in Seq(Tokens) /\ ids \in Seq(Tokens) /\ n \in 0..MaxNew
      /\ ReplInv
  BY DEF ChatInv, ModelInv, ModelType, ReplType
<1>2. ASSUME UNCHANGED <<Spoken, pc, n>> PROVE UNCHANGED Dialog!vars
  BY <1>2 DEF Dialog!vars, Spoken
<1>3. CASE Compute
  BY <1>2, <1>3 DEF Compute, Layer, Return, Spoken, OneShot, repl
<1>4. CASE StartChat \/ StartOneShot
  <2>1. fed = <<>> /\ ids = <<>> /\ pc = "main"
    BY <1>1, <1>4 DEF StartChat, StartOneShot, ReplInv
  <2>2. <<>> \o <<>> = <<>>
    BY ConcatEmptySeq, EmptySeq
  <2>3. Spoken = <<>> /\ Spoken' = <<>> /\ pc' \in {"prompt", "feed"}
    BY <1>4, <2>1, <2>2 DEF StartChat, StartOneShot, Spoken, OneShot, model, vars
  <2>4. QED
    BY <2>1, <2>3 DEF Dialog!vars, Spoken
<1>5. CASE Input
  <2>1. pc = "prompt" /\ pc' = "prefill" /\ n' = 0 /\ fed' = fed /\ ids' = _user_turn
    BY <1>5 DEF Input, model, vars
  <2>2. Spoken = fed /\ Spoken' = fed \o _user_turn /\ (first <=> fed = <<>>)
    BY <1>1, <2>1, ConcatEmptySeq DEF Spoken, OneShot, ReplInv
  <2>3. fed \o _user_turn = IF fed = <<>> THEN Dialog!Opening \o Dialog!Question
                            ELSE fed \o Dialog!Question
    <3>1. CASE fed = <<>>
      <4>1. _user_turn = Dialog!Opening \o Dialog!Question /\ _user_turn \in Seq(Tokens)
        BY <2>2, <3>1, TurnIsSeq
      <4>2. fed \o _user_turn = _user_turn
        BY <3>1, <4>1, ConcatEmptySeq
      <4>3. QED
        BY <3>1, <4>1, <4>2
    <3>2. CASE fed # <<>>
      <4>1. Dialog!Question \in Seq(Tokens)
        BY TemplateIsTokens DEF Dialog!Question
      <4>2. _user_turn = Dialog!Question
        BY <2>2, <3>2, <4>1, TurnIsSeq, ConcatEmptySeq
      <4>3. QED
        BY <3>2, <4>2
    <3>3. QED
      BY <3>1, <3>2
  <2>4. Dialog!Ask
    BY <2>1, <2>2, <2>3 DEF Dialog!Ask, Spoken
  <2>5. QED
    BY <2>4 DEF Dialog!Next
<1>6. CASE Reset
  <2>1. pc = "prompt" /\ pc' = "prompt" /\ n' = n /\ fed' = <<>> /\ ids' = <<>>
    BY <1>1, <1>6 DEF Reset, reset, ReplInv
  <2>2. Spoken' = <<>>
    BY <2>1, ConcatEmptySeq, EmptySeq DEF Spoken, OneShot
  <2>3. QED
    BY <2>1, <2>2 DEF Dialog!Next, Dialog!Forget, Spoken
<1>7. CASE Prefill
  <2>1. fed' \o ids' = fed \o ids
    BY <1>1, <1>7, FeedIsSame DEF Prefill, Begin
  <2>2. QED
    BY <1>2, <1>7, <2>1 DEF Prefill, Spoken, OneShot
<1>8. CASE Answer \/ EndsReply
  BY <1>8 DEF Answer, EndsReply, model, vars, Dialog!vars, OneShot
<1>9. CASE Sample
  <2>1. PICK nxt \in Replies : Begin(nxt)
    BY <1>9 DEF Sample
  <2>2. /\ pc = "generate" /\ pc' = "generate" /\ n < MaxNew /\ n' = n + 1
        /\ ids = <<>> /\ ids' = <<>> /\ fed' = Append(fed, nxt)
    BY <1>1, <1>9, <2>1 DEF Sample, Begin, ReplInv
  <2>3. Spoken' = Append(Spoken, nxt)
    BY <1>1, <2>2, OneMoreSaid, TemplateIsTokens DEF Spoken, OneShot
  <2>4. Dialog!Say
    BY <2>2, <2>3 DEF Dialog!Say, Spoken
  <2>5. QED
    BY <2>4 DEF Dialog!Next
<1>10. CASE CloseTurn
  <2>1. /\ pc = "closing" /\ pc' = "closed" /\ n' = n
        /\ ids = <<>> /\ ids' = <<>> /\ fed' = Append(fed, "eot")
    BY <1>1, <1>10 DEF CloseTurn, Begin, ReplInv
  <2>2. Spoken' = Append(Spoken, "eot")
    BY <1>1, <2>1, OneMoreSaid, TemplateIsTokens DEF Spoken, OneShot
  <2>3. Dialog!EndTurn
    BY <2>1, <2>2 DEF Dialog!EndTurn, Spoken
  <2>4. QED
    BY <2>3 DEF Dialog!Next
<1>11. CASE Prompt
  BY <1>11 DEF Prompt, model, vars, Dialog!vars, OneShot
<1>12. CASE FeedPrompt \/ Generate \/ Exhausted
  BY <1>12 DEF FeedPrompt, Generate, Exhausted, Dialog!vars, OneShot
<1>13. CASE Exit \/ Dies \/ UNCHANGED chat_vars
  BY <1>2, <1>13 DEF Exit, Dies, chat_vars, model, vars, repl, Spoken, OneShot
<1>14. QED
  BY <1>3, <1>4, <1>5, <1>6, <1>7, <1>8, <1>9, <1>10, <1>11, <1>12, <1>13
     DEF ChatNext, Command, Turn, Ends

------------------------------------------------------------------------------
(* The shape of the dialogue. *)

LEMMA ElementsOfConcat ==
    ASSUME NEW S, NEW s \in Seq(S), NEW q \in Seq(S)
    PROVE  /\ s \o q \in Seq(S) /\ Len(s \o q) = Len(s) + Len(q)
           /\ \A i \in 1..Len(s) : (s \o q)[i] = s[i]
           /\ \A j \in 1..Len(q) : (s \o q)[Len(s) + j] = q[j]
<1> DEFINE d == s \o q
<1>1. /\ d \in Seq(S) /\ Len(d) = Len(s) + Len(q)
      /\ \A i \in 1..(Len(s) + Len(q)) : d[i] = IF i <= Len(s) THEN s[i] ELSE q[i - Len(s)]
  BY ConcatProperties
<1> HIDE DEF d
<1>2. Len(s) \in Nat /\ Len(q) \in Nat
  BY LenProperties
<1>3. QED
  BY <1>1, <1>2 DEF d

LEMMA AskedIsShaped ==
    ASSUME NEW s \in Seq(Tokens), Len(s) > 0, s[1] = "bos",
           \A i \in 2..Len(s) : s[i] # "bos",
           \A i \in 1..(Len(s) - 1) : s[i] \in Replies \cup {"asst"} =>
               s[i + 1] \in Replies \cup {"eot"},
           s[Len(s)] \notin Replies \cup {"asst"}
    PROVE  Shaped(s \o Dialog!Question, TRUE)
<1> DEFINE d == s \o Dialog!Question
<1>1. /\ Dialog!Question \in Seq(Tokens) /\ Len(Dialog!Question) = 3
      /\ Dialog!Question[1] = "user" /\ Dialog!Question[2] = "eot"
      /\ Dialog!Question[3] = "asst"
  BY TemplateIsTokens DEF Dialog!Question
<1>2. Len(s) \in Nat
  BY LenProperties
<1>3. /\ d \in Seq(Tokens) /\ Len(d) = Len(s) + Len(Dialog!Question)
      /\ \A i \in 1..Len(s) : d[i] = s[i]
      /\ \A j \in 1..Len(Dialog!Question) : d[Len(s) + j] = Dialog!Question[j]
  <2>1. Dialog!Question \in Seq(Tokens)
    BY <1>1
  <2>2. QED
    BY <2>1, ElementsOfConcat
<1>4. /\ Len(d) = Len(s) + 3
      /\ d[Len(s) + 1] = "user" /\ d[Len(s) + 2] = "eot" /\ d[Len(s) + 3] = "asst"
  BY <1>1, <1>3
<1> HIDE DEF d
<1>5. "user" \notin Replies /\ "eot" \notin Replies
  BY ChatAssumption DEF Template
<1>6. ASSUME NEW i \in 2..Len(d) PROVE d[i] # "bos"
  BY <1>2, <1>3, <1>4
<1>7. ASSUME NEW i \in 1..(Len(d) - 1), d[i] \in Replies \cup {"asst"}
      PROVE  d[i + 1] \in Replies \cup {"eot"}
  <2>1. i \in 1..Len(s) \/ i = Len(s) + 1 \/ i = Len(s) + 2
    BY <1>2, <1>4
  <2>2. i \in 1..(Len(s) - 1)
    BY <1>2, <1>3, <1>4, <1>5, <1>7, <2>1
  <2>3. d[i] = s[i] /\ d[i + 1] = s[i + 1]
    BY <1>2, <1>3, <2>2
  <2>4. QED
    BY <1>7, <2>2, <2>3
<1>8. d # <<>>
  BY <1>2, <1>3, EmptySeq
<1>9. QED
  BY <1>2, <1>3, <1>4, <1>6, <1>7, <1>8 DEF Shaped, d

LEMMA OpeningIsShaped == Shaped(Dialog!Opening \o Dialog!Question, TRUE)
<1> DEFINE s == Dialog!Opening
<1>1. CASE System
  <2>1. s \in Seq(Tokens) /\ Len(s) = 3 /\ s[1] = "bos" /\ s[2] = "sys" /\ s[3] = "eot"
    BY <1>1, TemplateIsTokens DEF Dialog!Opening
  <2>2. "bos" \notin Replies /\ "sys" \notin Replies /\ "eot" \notin Replies
    BY ChatAssumption DEF Template
  <2> HIDE DEF s
  <2>3. ASSUME NEW i \in 1..3 PROVE s[i] \notin Replies \cup {"asst"} /\ (i # 1 => s[i] # "bos")
    BY <2>1, <2>2
  <2>4. /\ s \in Seq(Tokens) /\ Len(s) > 0 /\ s[1] = "bos"
        /\ \A i \in 2..Len(s) : s[i] # "bos"
        /\ \A i \in 1..(Len(s) - 1) : s[i] \in Replies \cup {"asst"} =>
               s[i + 1] \in Replies \cup {"eot"}
        /\ s[Len(s)] \notin Replies \cup {"asst"}
    BY <2>1, <2>3
  <2>5. Shaped(s \o Dialog!Question, TRUE)
    BY <2>4, AskedIsShaped
  <2>6. QED
    BY <2>5 DEF s
<1>2. CASE ~System
  <2>1. s \in Seq(Tokens) /\ Len(s) = 1 /\ s[1] = "bos"
    BY <1>2, TemplateIsTokens DEF Dialog!Opening
  <2>2. "bos" \notin Replies
    BY ChatAssumption DEF Template
  <2> HIDE DEF s
  <2>3. /\ s \in Seq(Tokens) /\ Len(s) > 0 /\ s[1] = "bos"
        /\ \A i \in 2..Len(s) : s[i] # "bos"
        /\ \A i \in 1..(Len(s) - 1) : s[i] \in Replies \cup {"asst"} =>
               s[i + 1] \in Replies \cup {"eot"}
        /\ s[Len(s)] \notin Replies \cup {"asst"}
    BY <2>1, <2>2
  <2>4. Shaped(s \o Dialog!Question, TRUE)
    BY <2>3, AskedIsShaped
  <2>5. QED
    BY <2>4 DEF s
<1>3. QED
  BY <1>1, <1>2

LEMMA SaidIsShaped ==
    ASSUME NEW s \in Seq(Tokens), Shaped(s, TRUE), NEW t \in Tokens, NEW open \in BOOLEAN,
           open => t \in Replies, ~open => t = "eot"
    PROVE  Shaped(Append(s, t), open)
<1> DEFINE d == Append(s, t)
<1>1. s # <<>> /\ s[1] = "bos"
  BY DEF Shaped
<1>2. Len(s) \in Nat /\ Len(s) > 0
  BY <1>1, EmptySeq, LenProperties
<1>3. /\ d # <<>> /\ Len(d) = Len(s) + 1
      /\ d[Len(s) + 1] = t /\ \A i \in 1..Len(s) : d[i] = s[i]
  BY AppendProperties
<1> HIDE DEF d
<1>4. "bos" \notin Replies
  BY ChatAssumption DEF Template
<1>5. ASSUME NEW i \in 2..Len(d) PROVE d[i] # "bos"
  BY <1>2, <1>3, <1>4 DEF Shaped
<1>6. ASSUME NEW i \in 1..(Len(d) - 1), d[i] \in Replies \cup {"asst"}
      PROVE  d[i + 1] \in Replies \cup {"eot"}
  <2>1. CASE i = Len(s)
    BY <1>3, <2>1
  <2>2. CASE i \in 1..(Len(s) - 1)
    BY <1>2, <1>3, <1>6, <2>2 DEF Shaped
  <2>3. QED
    BY <1>2, <1>3, <2>1, <2>2
<1>7. QED
  BY <1>1, <1>2, <1>3, <1>5, <1>6 DEF Shaped, d

LEMMA NothingIsShaped == Shaped(<<>>, FALSE)
  BY EmptySeq DEF Shaped

LEMMA DialogKeeps == ChatInv /\ DialogInv /\ [ChatNext]_chat_vars => DialogInv'
<1> SUFFICES ASSUME ChatInv, DialogInv, [ChatNext]_chat_vars PROVE Shaped(Spoken, Replying)'
  BY DEF DialogInv
<1>1. Dialog!Next \/ UNCHANGED Dialog!vars
  BY ChatTalks DEF Dialog!vars
<1>2. Spoken \in Seq(Tokens)
  BY ConcatProperties, EmptySeq DEF Spoken, ChatInv, ModelInv, ModelType, ReplType
<1>3. Shaped(Spoken, Replying)
  BY DEF DialogInv
<1>4. CASE Dialog!Ask
  <2>1. /\ ~Replying /\ Replying'
        /\ Spoken' = IF Spoken = <<>> THEN Dialog!Opening \o Dialog!Question
                     ELSE Spoken \o Dialog!Question
    BY <1>4 DEF Dialog!Ask, Spoken, Replying
  <2>2. CASE Spoken = <<>>
    BY <2>1, <2>2, OpeningIsShaped DEF Shaped
  <2>3. CASE Spoken # <<>>
    <3>1. Len(Spoken) \in Nat /\ Len(Spoken) > 0
      BY <1>2, <2>3, EmptySeq, LenProperties
    <3>2. Spoken[Len(Spoken)] \notin Replies \cup {"asst"}
      BY <1>3, <2>1, <2>3, ChatAssumption DEF Shaped, Template
    <3>3. Shaped(Spoken \o Dialog!Question, TRUE)
      BY <1>2, <1>3, <2>3, <3>1, <3>2, AskedIsShaped DEF Shaped
    <3>4. QED
      BY <2>1, <2>3, <3>3 DEF Shaped
  <2>4. QED
    BY <2>2, <2>3
<1>5. CASE Dialog!Say
  <2>1. PICK t \in Replies : Spoken' = Append(Spoken, t)
    BY <1>5 DEF Dialog!Say, Spoken
  <2>2. Replying /\ Replying'
    BY <1>5 DEF Dialog!Say, Replying
  <2>3. Shaped(Spoken, TRUE) /\ t \in Tokens
    BY <1>3, <2>2, TemplateIsTokens DEF Shaped
  <2>4. Shaped(Append(Spoken, t), TRUE)
    BY <1>2, <2>3, SaidIsShaped
  <2>5. QED
    BY <2>1, <2>2, <2>4 DEF Shaped
<1>6. CASE Dialog!EndTurn
  <2>1. Replying /\ ~Replying' /\ Spoken' = Append(Spoken, "eot")
    BY <1>6 DEF Dialog!EndTurn, Spoken, Replying
  <2>2. Shaped(Spoken, TRUE)
    BY <1>3, <2>1 DEF Shaped
  <2>3. Shaped(Append(Spoken, "eot"), FALSE)
    BY <1>2, <2>2, SaidIsShaped, TemplateIsTokens
  <2>4. QED
    BY <2>1, <2>3 DEF Shaped
<1>7. CASE Dialog!Forget
  <2>1. ~Replying' /\ Spoken' = <<>>
    BY <1>7 DEF Dialog!Forget, Spoken, Replying
  <2>2. QED
    BY <2>1, NothingIsShaped DEF Shaped
<1>8. CASE UNCHANGED Dialog!vars
  <2>1. Spoken' = Spoken /\ (Replying' <=> Replying)
    BY <1>8 DEF Dialog!vars, Spoken, Replying
  <2>2. QED
    BY <1>3, <2>1 DEF Shaped
<1>9. QED
  BY <1>1, <1>4, <1>5, <1>6, <1>7, <1>8 DEF Dialog!Next

------------------------------------------------------------------------------

LEMMA ChatInvariant == ChatSpec => [](ChatInv /\ DialogInv)
<1>1. ChatInit => ChatInv /\ DialogInv
  <2> SUFFICES ASSUME ChatInit PROVE ChatInv /\ DialogInv
    OBVIOUS
  <2>1. fed = <<>> /\ ids = <<>> /\ pc = "main" /\ <<>> \o <<>> = <<>>
    BY ConcatEmptySeq, EmptySeq DEF ChatInit, Init
  <2>2. Spoken = <<>> /\ ~Replying
    BY <2>1 DEF Spoken, Replying
  <2>3. QED
    BY <2>2, ChatStarts, NothingIsShaped DEF DialogInv, Shaped
<1>2. QED
  BY <1>1, ChatKeeps, DialogKeeps, PTL DEF ChatSpec

(* In the chat, too, every layer holds the whole context between calls, in *)
(* spite of resets and of the end-of-turn token fed by hand.               *)
THEOREM ChatCacheIsContext == ChatSpec => []CacheIsContext
<1>1. ChatInv => CacheIsContext
  BY CacheFollows DEF ChatInv
<1>2. QED
  BY <1>1, ChatInvariant, PTL

(* Every token is sampled from what all layers made of the whole           *)
(* conversation, including its last token.                                 *)
THEOREM SampledFromWhole == ChatSpec => []SampledFromDialog
<1>1. ChatInv => SampledFromDialog
  <2> SUFFICES ASSUME ChatInv, pc \in {"generate", "loop"}, li = 0, fed \o ids # <<>>,
                      NEW l \in 1..n_layers
               PROVE  logits[l] = Reading(fed \o ids)
    BY DEF SampledFromDialog
  <2>1. fed \in Seq(Tokens) /\ ids = <<>>
    BY DEF ChatInv, ModelInv, ModelType, ReplInv
  <2>2. fed \o ids = fed /\ fed # <<>>
    BY <2>1, ConcatEmptySeq
  <2>3. Len(fed) > 0
    BY <2>1, <2>2, EmptySeq
  <2>4. QED
    BY <2>2, <2>3 DEF ChatInv, ModelInv, ReadInv, Layers
<1>2. QED
  BY <1>1, ChatInvariant, PTL

(* At the prompt the context is a row of whole turns of the template.      *)
THEOREM PromptHoldsWholeTurns == ChatSpec => []PromptIsWellFormed
<1>1. ChatInv /\ DialogInv => PromptIsWellFormed
  <2> SUFFICES ASSUME ChatInv, DialogInv, pc = "prompt", fed # <<>>
               PROVE  /\ CacheIsContext
                      /\ fed[1] = "bos" /\ fed[Len(fed)] = "eot"
                      /\ \A i \in 2..Len(fed) : fed[i] # "bos"
                      /\ \A i \in 1..(Len(fed) - 1) : fed[i] \in Replies \cup {"asst"} =>
                             fed[i + 1] \in Replies \cup {"eot"}
    BY DEF PromptIsWellFormed
  <2>1. CacheIsContext
    BY CacheFollows DEF ChatInv
  <2>2. fed \in Seq(Tokens) /\ ids = <<>>
    BY DEF ChatInv, ModelInv, ModelType, ReplInv
  <2>3. Spoken = fed /\ ~Replying
    BY <2>2, ConcatEmptySeq DEF Spoken, OneShot, Replying
  <2>4. QED
    BY <2>1, <2>3 DEF DialogInv, Shaped
<1>2. QED
  BY <1>1, ChatInvariant, PTL

(* The chat uses the model as a context that grows by a token a call.      *)
THEOREM ChatKeepsContext == ChatSpec => ContextSpec
<1>1. ChatInv /\ [ChatNext]_chat_vars => [Context!Next]_(Context!vars)
  BY ChatCalls, CallRefines DEF ChatInv
<1>2. ChatInit => Context!Init
  BY ContextInit DEF ChatInit
<1>3. QED
  BY <1>1, <1>2, ChatInvariant, PTL DEF ChatSpec, ContextSpec, Context!Spec

(* What is fed to the model over all turns, resets and cut-off replies is  *)
(* a conversation in the template.                                         *)
THEOREM ChatIsConversation == ChatSpec => ConversationSpec
<1>1. ChatInit => Dialog!Init
  <2> SUFFICES ASSUME ChatInit PROVE Dialog!Init
    OBVIOUS
  <2>1. fed = <<>> /\ ids = <<>> /\ pc = "main" /\ <<>> \o <<>> = <<>>
    BY ConcatEmptySeq, EmptySeq DEF ChatInit, Init
  <2>2. QED
    BY <2>1 DEF Dialog!Init
<1>2. QED
  BY <1>1, ChatTalks, ChatInvariant, PTL DEF ChatSpec, ConversationSpec, Dialog!Spec

------------------------------------------------------------------------------
(* The end of a turn. *)

(* Steps of the call that runs, tokens of the turn that may still be fed,  *)
(* and places of the program still ahead.                                  *)
CallLeft == IF li = 0 THEN 0 ELSE n_layers + 2 - li

ToFeed ==
    CASE pc = "prefill"  -> Len(ids) + (MaxNew - n) + 1
      [] pc = "generate" -> (MaxNew - n) + 1
      [] pc = "closing"  -> 1
      [] pc = "feed"     -> Len(ids) + (MaxNew - n)
      [] pc = "loop"     -> MaxNew - n
      [] OTHER           -> 0

Ahead ==
    CASE pc = "prefill"               -> 4
      [] pc = "generate"              -> 3
      [] pc \in {"closing", "feed"}   -> 2
      [] pc \in {"closed", "loop"}    -> 1
      [] OTHER                        -> 0

Steps == ToFeed * (n_layers + 2) + CallLeft + Ahead

(* Each place of a turn has a step it can take: a call under way goes on,  *)
(* otherwise the program feeds a token or moves on.                        *)
CanGoOn ==
    \/ li \in Layers
    \/ li = n_layers + 1
    \/ li = 0 /\ \/ pc \in {"feed", "closing", "closed"}
                 \/ pc = "prefill" /\ (ids # <<>> \/ AllFed)
                 \/ pc = "generate" /\ StopTokenOrLimit
                 \/ pc = "loop" /\ (n < MaxNew \/ n = MaxNew)

LEMMA Weighs ==
    ASSUME NEW a \in Nat, NEW b \in Nat, NEW k \in Nat, b <= a
    PROVE  /\ a * k \in Nat /\ b * k \in Nat /\ b * k <= a * k
           /\ a = b + 1 => a * k = b * k + k
<1>1. PICK c \in Nat : c = a - b
  OBVIOUS
<1>2. a * k = (b + c) * k
  BY <1>1
<1>3. (b + c) * k = b * k + c * k
  BY <1>1
<1>4. a * k \in Nat /\ b * k \in Nat /\ c * k \in Nat
  BY <1>1
<1>5. a = b + 1 => a * k = b * k + k
  OBVIOUS
<1>6. QED
  BY <1>2, <1>3, <1>4, <1>5

LEMMA SharesNat ==
    ChatInv => ToFeed \in Nat /\ CallLeft \in Nat /\ Ahead \in Nat /\ Steps \in Nat
<1> SUFFICES ASSUME ChatInv
             PROVE  ToFeed \in Nat /\ CallLeft \in Nat /\ Ahead \in Nat /\ Steps \in Nat
  OBVIOUS
<1>1. Len(ids) \in Nat /\ MaxNew - n \in Nat
  BY ChatAssumption, LenProperties DEF ChatInv, ReplType
<1>2. ToFeed \in Nat /\ Ahead \in Nat
  BY <1>1 DEF ToFeed, Ahead, ChatInv, ReplType
<1>3. CallLeft \in Nat /\ n_layers + 2 \in Nat
  BY DEF CallLeft, ChatInv, ModelInv, ModelType
<1>4. ToFeed * (n_layers + 2) \in Nat
  BY <1>2, <1>3, Weighs
<1>5. QED
  BY <1>2, <1>3, <1>4 DEF Steps

LEMMA LessIsLeft ==
    ASSUME NEW f \in Nat, NEW c \in Nat, NEW a \in Nat,
           NEW g \in Nat, NEW d \in Nat, NEW b \in Nat, NEW k \in Nat,
           \/ f = g + 1 /\ c = 0 /\ d + 1 = k /\ b <= a
           \/ g <= f /\ d = c /\ b < a
           \/ g = f /\ d < c /\ b = a
    PROVE  g * k + d + b < f * k + c + a
<1>1. g <= f
  OBVIOUS
<1>2. PICK w \in Nat, u \in Nat : w = f * k /\ u = g * k /\ u <= w /\ (f = g + 1 => w = u + k)
  BY <1>1, Weighs
<1>3. u + d + b < w + c + a
  <2>1. CASE f = g + 1 /\ c = 0 /\ d + 1 = k /\ b <= a
    <3>1. w = u + k
      BY <1>2, <2>1
    <3>2. QED
      BY <2>1, <3>1
  <2>2. CASE g <= f /\ d = c /\ b < a
    BY <1>2, <2>2
  <2>3. CASE g = f /\ d < c /\ b = a
    <3>1. w = u
      BY <1>2, <2>3
    <3>2. QED
      BY <2>3, <3>1
  <2>4. QED
    BY <2>1, <2>2, <2>3
<1>4. QED
  BY <1>2, <1>3

(* A step that feeds a token, one that leaves the tokens alone, and one    *)
(* that goes on in the call.                                               *)
LEMMA StepsDone ==
    ASSUME ChatInv, ChatInv',
           \/ ToFeed = ToFeed' + 1 /\ CallLeft = 0 /\ CallLeft' = n_layers + 1 /\ Ahead' <= Ahead
           \/ ToFeed' <= ToFeed /\ CallLeft' = CallLeft /\ Ahead' < Ahead
           \/ ToFeed' = ToFeed /\ CallLeft' < CallLeft /\ Ahead' = Ahead
    PROVE  Steps' < Steps
<1> DEFINE k == n_layers + 2
<1>1. (ChatInv => ToFeed \in Nat /\ CallLeft \in Nat /\ Ahead \in Nat)'
  BY SharesNat, PTL
<1>2. PICK f \in Nat, c \in Nat, a \in Nat : f = ToFeed /\ c = CallLeft /\ a = Ahead
  BY SharesNat
<1>3. PICK g \in Nat, d \in Nat, b \in Nat : g = ToFeed' /\ d = CallLeft' /\ b = Ahead'
  BY <1>1
<1>4. k \in Nat /\ \A x : x = n_layers + 1 => x + 1 = k
  OBVIOUS
<1>5. \/ f = g + 1 /\ c = 0 /\ d = n_layers + 1 /\ b <= a
      \/ g <= f /\ d = c /\ b < a
      \/ g = f /\ d < c /\ b = a
  <2>1. CASE ToFeed = ToFeed' + 1 /\ CallLeft = 0 /\ CallLeft' = n_layers + 1 /\ Ahead' <= Ahead
    BY <1>2, <1>3, <2>1
  <2>2. CASE ToFeed' <= ToFeed /\ CallLeft' = CallLeft /\ Ahead' < Ahead
    BY <1>2, <1>3, <2>2
  <2>3. CASE ToFeed' = ToFeed /\ CallLeft' < CallLeft /\ Ahead' = Ahead
    BY <1>2, <1>3, <2>3
  <2>4. QED
    BY <2>1, <2>2, <2>3
<1> HIDE DEF k
<1>6. g * k + d + b < f * k + c + a
  BY <1>4, <1>5, LessIsLeft
<1>7. Steps = f * k + c + a /\ Steps' = g * k + d + b
  BY <1>2, <1>3 DEF Steps, k
<1>8. QED
  BY <1>6, <1>7

LEMMA TurnGoesDown ==
    ASSUME ChatInv, ChatInv', Turn, pc # "main"
    PROVE  Steps' < Steps
<1> DEFINE left == MaxNew - n
<1>0. /\ ids \in Seq(Tokens) /\ Len(ids) \in Nat /\ left \in Nat /\ n \in 0..MaxNew
      /\ MaxNew \in Nat /\ n_layers \in Nat /\ li \in 0..(n_layers + 1)
  BY ChatAssumption, LenProperties DEF ChatInv, ReplType, ModelInv, ModelType
<1>1. CASE Compute
  <2>1. UNCHANGED <<ids, n, pc>>
    BY <1>1 DEF Compute, repl
  <2>2. ToFeed' = ToFeed /\ Ahead' = Ahead
    BY <2>1 DEF ToFeed, Ahead
  <2>3. \/ li \in 1..n_layers /\ li' = li + 1
        \/ li = n_layers + 1 /\ li' = 0
    BY <1>1 DEF Compute, Layer, Return, Layers
  <2>4. CallLeft' < CallLeft
    BY <1>0, <2>3 DEF CallLeft
  <2>5. QED
    BY <2>2, <2>4, StepsDone
<1>2. ASSUME NEW t, Begin(t) PROVE CallLeft = 0 /\ CallLeft' = n_layers + 1
  BY <1>0, <1>2 DEF Begin, CallLeft
<1>3. ASSUME UNCHANGED model PROVE CallLeft' = CallLeft
  BY <1>3 DEF model, vars, call, CallLeft
<1>4. ASSUME ids # <<>>, ids' = Tail(ids) PROVE Len(ids) = Len(ids') + 1 /\ Len(ids') \in Nat
  BY <1>0, <1>4, HeadTailProperties, EmptySeq
<1>5. CASE Prefill
  <2>1. /\ pc = "prefill" /\ pc' = "prefill" /\ n' = n /\ ids # <<>> /\ ids' = Tail(ids)
        /\ Begin(Head(ids))
    BY <1>5 DEF Prefill
  <2>2. ToFeed = Len(ids) + left + 1 /\ ToFeed' = Len(ids') + left + 1 /\ Ahead' = 4 /\ Ahead = 4
    BY <2>1 DEF ToFeed, Ahead
  <2>3. ToFeed = ToFeed' + 1 /\ Ahead' <= Ahead
    BY <1>0, <1>4, <2>1, <2>2
  <2>4. QED
    BY <1>2, <2>1, <2>3, StepsDone
<1>6. CASE Answer
  <2>1. /\ pc = "prefill" /\ pc' = "generate" /\ n' = n /\ ids = <<>> /\ UNCHANGED model
    BY <1>6 DEF Answer, AllFed
  <2>2. ToFeed = Len(ids) + left + 1 /\ ToFeed' = left + 1 /\ Ahead = 4 /\ Ahead' = 3
    BY <2>1 DEF ToFeed, Ahead
  <2>3. ToFeed' <= ToFeed /\ Ahead' < Ahead
    BY <1>0, <2>2
  <2>4. QED
    BY <1>3, <2>1, <2>3, StepsDone
<1>7. CASE Sample
  <2>1. PICK t : Begin(t)
    BY <1>7 DEF Sample
  <2>2. pc = "generate" /\ pc' = "generate" /\ n' = n + 1
    BY <1>7 DEF Sample
  <2>3. ToFeed = left + 1 /\ ToFeed' = (MaxNew - (n + 1)) + 1 /\ Ahead = 3 /\ Ahead' = 3
    BY <2>2 DEF ToFeed, Ahead
  <2>4. ToFeed = ToFeed' + 1 /\ Ahead' <= Ahead
    BY <1>0, <2>3
  <2>5. QED
    BY <1>2, <2>1, <2>4, StepsDone
<1>8. CASE EndsReply
  <2>1. pc = "generate" /\ pc' = "closing" /\ n' = n /\ UNCHANGED model
    BY <1>8 DEF EndsReply
  <2>2. ToFeed = left + 1 /\ ToFeed' = 1 /\ Ahead = 3 /\ Ahead' = 2
    BY <2>1 DEF ToFeed, Ahead
  <2>3. ToFeed' <= ToFeed /\ Ahead' < Ahead
    BY <1>0, <2>2
  <2>4. QED
    BY <1>3, <2>1, <2>3, StepsDone
<1>9. CASE CloseTurn
  <2>1. pc = "closing" /\ pc' = "closed" /\ Begin("eot")
    BY <1>9 DEF CloseTurn
  <2>2. ToFeed = ToFeed' + 1 /\ Ahead' <= Ahead
    BY <2>1 DEF ToFeed, Ahead
  <2>3. QED
    BY <1>2, <2>1, <2>2, StepsDone
<1>10. CASE Prompt
  <2>1. pc = "closed" /\ pc' = "prompt" /\ UNCHANGED model
    BY <1>10 DEF Prompt
  <2>2. ToFeed' <= ToFeed /\ Ahead' < Ahead
    BY <2>1 DEF ToFeed, Ahead
  <2>3. QED
    BY <1>3, <2>1, <2>2, StepsDone
<1>11. CASE FeedPrompt
  <2>1. pc = "feed" /\ n' = n
    BY <1>11 DEF FeedPrompt
  <2>2. ToFeed = Len(ids) + left /\ Ahead = 2
    BY <2>1 DEF ToFeed, Ahead
  <2>3. CASE ids # <<>>
    <3>1. Begin(Head(ids)) /\ ids' = Tail(ids) /\ pc' = "feed"
      BY <1>11, <2>3 DEF FeedPrompt
    <3>2. ToFeed' = Len(ids') + left /\ Ahead' = 2
      BY <2>1, <3>1 DEF ToFeed, Ahead
    <3>3. ToFeed = ToFeed' + 1 /\ Ahead' <= Ahead
      BY <1>0, <1>4, <2>2, <2>3, <3>1, <3>2
    <3>4. QED
      BY <1>2, <3>1, <3>3, StepsDone
  <2>4. CASE ids = <<>>
    <3>1. pc' = "loop" /\ UNCHANGED model
      BY <1>11, <2>4 DEF FeedPrompt
    <3>2. ToFeed' = left /\ Ahead' = 1
      BY <2>1, <3>1 DEF ToFeed, Ahead
    <3>3. ToFeed' <= ToFeed /\ Ahead' < Ahead
      BY <1>0, <2>2, <3>2
    <3>4. QED
      BY <1>3, <3>1, <3>3, StepsDone
  <2>5. QED
    BY <2>3, <2>4
<1>12. CASE Generate
  <2>1. pc = "loop" /\ n < MaxNew /\ n' = n + 1
    BY <1>12 DEF Generate
  <2>2. ToFeed = left /\ Ahead = 1
    BY <2>1 DEF ToFeed, Ahead
  <2>3. CASE \E nxt \in Replies : Begin(nxt) /\ UNCHANGED pc
    <3>1. PICK t : Begin(t)
      BY <2>3
    <3>2. ToFeed' = MaxNew - (n + 1) /\ Ahead' = 1
      BY <2>1, <2>3 DEF ToFeed, Ahead
    <3>3. ToFeed = ToFeed' + 1 /\ Ahead' <= Ahead
      BY <1>0, <2>2, <3>2
    <3>4. QED
      BY <1>2, <3>1, <3>3, StepsDone
  <2>4. CASE pc' = "done" /\ UNCHANGED model
    <3>1. ToFeed' = 0 /\ Ahead' = 0
      BY <2>4 DEF ToFeed, Ahead
    <3>2. ToFeed' <= ToFeed /\ Ahead' < Ahead
      BY <1>0, <2>2, <3>1
    <3>3. QED
      BY <1>3, <2>4, <3>2, StepsDone
  <2>5. QED
    BY <1>12, <2>3, <2>4 DEF Generate
<1>13. CASE Exhausted
  <2>1. pc = "loop" /\ pc' = "done" /\ UNCHANGED model
    BY <1>13 DEF Exhausted
  <2>2. ToFeed = left /\ ToFeed' = 0 /\ Ahead = 1 /\ Ahead' = 0
    BY <2>1 DEF ToFeed, Ahead
  <2>3. ToFeed' <= ToFeed /\ Ahead' < Ahead
    BY <1>0, <2>2
  <2>4. QED
    BY <1>3, <2>1, <2>3, StepsDone
<1>14. CASE StartChat \/ StartOneShot
  BY <1>14 DEF StartChat, StartOneShot
<1>15. QED
  BY <1>1, <1>5, <1>6, <1>7, <1>8, <1>9, <1>10, <1>11, <1>12, <1>13, <1>14 DEF Turn

(* llama_npu.py:299-341: however the model answers, a turn is never stuck, *)
(* neither in its prompt, its reply, its end-of-turn token nor in a call.  *)
THEOREM TurnNeverStuck ==
    ChatSpec => [](pc \in {"prefill", "generate", "closing", "closed", "feed", "loop"} => CanGoOn)
<1>1. ASSUME ChatInv, pc \in {"prefill", "generate", "closing", "closed", "feed", "loop"}
      PROVE  CanGoOn
  <2>1. li \in 0..(n_layers + 1) /\ n \in 0..MaxNew /\ MaxNew \in Nat /\ n_layers \in Nat
    BY <1>1, ChatAssumption DEF ChatInv, ModelInv, ModelType, ReplType
  <2>2. n <= MaxNew /\ (n < MaxNew \/ n = MaxNew)
    BY <2>1
  <2>3. li \in Layers \/ li = n_layers + 1 \/ li = 0
    BY <2>1 DEF Layers
  <2>4. QED
    BY <1>1, <2>2, <2>3 DEF CanGoOn, AllFed, StopTokenOrLimit
<1>2. QED
  BY <1>1, ChatInvariant, PTL

(* llama_npu.py:221-235, 299-341: each step of a turn, or of a one-shot    *)
(* run, is one of a number that is bounded once the turn has begun, by its *)
(* tokens, max_new and the layers.  With TurnNeverStuck every turn of a    *)
(* process that lives gets back to the prompt.                             *)
THEOREM TurnsAreFinite ==
    ChatSpec => [][Turn /\ pc # "main" =>
                       Steps \in Nat /\ Steps' \in Nat /\ Steps' < Steps]_chat_vars
<1>1. ASSUME ChatInv, ChatInv', Turn, pc # "main"
      PROVE  Steps \in Nat /\ Steps' \in Nat /\ Steps' < Steps
  <2>1. (ChatInv => Steps \in Nat)'
    BY SharesNat, PTL
  <2>2. QED
    BY <1>1, <2>1, SharesNat, TurnGoesDown
<1>2. QED
  BY <1>1, ChatInvariant, PTL

------------------------------------------------------------------------------
(* Induction over the natural numbers, for sets. *)

LEMMA LessIsLess == \A x, y \in Nat : y < x => <<y, x>> \in OpToRel(<, Nat)
  BY DEF OpToRel

LEMMA SetInduction ==
    ASSUME NEW T \in SUBSET Nat, 0 \in T, \A i \in T : i + 1 \in T
    PROVE  T = Nat
<1> SUFFICES ASSUME Nat \ T # {} PROVE FALSE
  OBVIOUS
<1>1. PICK x \in Nat \ T : \A y \in Nat \ T : <<y, x>> \notin OpToRel(<, Nat)
  <2> DEFINE R == OpToRel(<, Nat)
  <2>1. IsWellFoundedOn(R, Nat)
    BY NatLessThanWellFounded
  <2> HIDE DEF R
  <2>2. \E x \in Nat \ T : \A y \in Nat \ T : <<y, x>> \notin R
    BY <2>1, WFMin
  <2>3. QED
    BY <2>2 DEF R
<1>2. x - 1 \in T
  <2>1. x - 1 \in Nat /\ x - 1 < x
    OBVIOUS
  <2>2. QED
    BY <2>1, <1>1, LessIsLess
<1>3. QED
  BY <1>2

------------------------------------------------------------------------------
(* Sums. *)

(* The sum of f over the subsets of S of at most m elements, as the        *)
(* community modules define it.                                            *)
OneOf(s) == CHOOSE x \in s : TRUE
UpTo(S, m) == {s \in SUBSET S : Cardinality(s) <= m}
Summing(g, f, S, m) ==
    g = [s \in UpTo(S, m) |-> IF s = {} THEN 0 ELSE f[OneOf(s)] + g[s \ {OneOf(s)}]]
Sum(f, s) == SumFunctionOnSet(f, s)

LEMMA OneLess ==
    ASSUME NEW S, IsFiniteSet(S), NEW s \in SUBSET S, NEW x \in s
    PROVE  /\ s \ {x} \in SUBSET S /\ Cardinality(s) \in Nat
           /\ Cardinality(s \ {x}) \in Nat /\ Cardinality(s \ {x}) = Cardinality(s) - 1
<1>1. IsFiniteSet(s)
  BY FS_Subset
<1>2. QED
  BY <1>1, FS_RemoveElement, FS_CardinalityType

LEMMA OneOfIsIn == \A s : s # {} => OneOf(s) \in s
  BY DEF OneOf

LEMMA SummingExists ==
    ASSUME NEW S, IsFiniteSet(S), NEW f, NEW m \in Nat
    PROVE  \E g : Summing(g, f, S, m)
<1> DEFINE Rest(g, s) == IF s = {} THEN 0 ELSE f[OneOf(s)] + g[s \ {OneOf(s)}]
           T == {i \in Nat : \E g : Summing(g, f, S, i)}
<1>1. 0 \in T
  <2> DEFINE g == [s \in UpTo(S, 0) |-> 0]
  <2>1. \A s \in UpTo(S, 0) : s = {}
    <3> SUFFICES ASSUME NEW s \in SUBSET S, Cardinality(s) <= 0 PROVE s = {}
      BY DEF UpTo
    <3>1. IsFiniteSet(s) /\ Cardinality(s) \in Nat
      BY FS_Subset, FS_CardinalityType
    <3>2. QED
      BY <3>1, FS_EmptySet
  <2>2. g = [s \in UpTo(S, 0) |-> Rest(g, s)]
    BY <2>1
  <2>3. Summing(g, f, S, 0)
    BY <2>2 DEF Summing
  <2>4. QED
    BY <2>3
<1>2. ASSUME NEW i \in T PROVE i + 1 \in T
  <2>1. PICK g : Summing(g, f, S, i)
    OBVIOUS
  <2> DEFINE d == [s \in UpTo(S, i + 1) |-> Rest(g, s)]
             k == [s \in UpTo(S, i + 1) |-> Rest(d, s)]
  <2>2. \A s \in UpTo(S, i) : g[s] = Rest(g, s)
    BY <2>1 DEF Summing
  <2>3. \A s \in UpTo(S, i) : s \in UpTo(S, i + 1)
    <3> SUFFICES ASSUME NEW s \in UpTo(S, i) PROVE Cardinality(s) <= i + 1
      BY DEF UpTo
    <3>1. Cardinality(s) \in Nat
      BY FS_Subset, FS_CardinalityType DEF UpTo
    <3>2. QED
      BY <3>1 DEF UpTo
  <2>4. \A s \in UpTo(S, i) : d[s] = g[s]
    BY <2>2, <2>3
  <2>5. ASSUME NEW s \in UpTo(S, i + 1) PROVE d[s] = k[s]
    <3>1. CASE s = {}
      BY <3>1
    <3>2. CASE s # {}
      <4>1. OneOf(s) \in s
        BY <3>2, OneOfIsIn
      <4>2. s \ {OneOf(s)} \in UpTo(S, i)
        BY <4>1, OneLess DEF UpTo
      <4>3. d[s \ {OneOf(s)}] = g[s \ {OneOf(s)}]
        BY <2>4, <4>2
      <4>4. QED
        BY <3>2, <4>3
    <3>3. QED
      BY <3>1, <3>2
  <2>6. d = k
    BY <2>5
  <2>7. Summing(d, f, S, i + 1)
    BY <2>6 DEF Summing
  <2>8. QED
    BY <2>7
<1>3. T = Nat
  <2>1. T \in SUBSET Nat
    OBVIOUS
  <2> HIDE DEF T
  <2>2. QED
    BY <1>1, <1>2, <2>1, SetInduction
<1>4. QED
  BY <1>3

(* The sum over s is a value of the sum over the subsets of s.             *)
LEMMA SumIsSumming ==
    ASSUME NEW s, IsFiniteSet(s), NEW f
    PROVE  \E g : Summing(g, f, s, Cardinality(s)) /\ Sum(f, s) = g[s]
<1> DEFINE g == CHOOSE d : Summing(d, f, s, Cardinality(s))
<1>1. Cardinality(s) \in Nat
  BY FS_CardinalityType
<1>2. Summing(g, f, s, Cardinality(s))
  BY <1>1, SummingExists
<1>3. UpTo(s, Cardinality(s)) = SUBSET s
  BY FS_Subset DEF UpTo
<1>4. Sum(f, s) = g[s]
  BY <1>3 DEF Sum, SumFunctionOnSet, FoldFunctionOnSet, MapThenFoldSet, Summing, OneOf
<1>5. QED
  BY <1>2, <1>4

(* Sums over the same set are the same, whatever set they are taken from.  *)
LEMMA SummingAgree ==
    ASSUME NEW S, IsFiniteSet(S), NEW R \in SUBSET S, NEW f,
           NEW g, Summing(g, f, S, Cardinality(S)),
           NEW d, Summing(d, f, R, Cardinality(R))
    PROVE  \A s \in SUBSET R : g[s] = d[s]
<1> DEFINE T == {i \in Nat : \A s \in SUBSET R : Cardinality(s) <= i => g[s] = d[s]}
<1>1. /\ IsFiniteSet(R) /\ UpTo(S, Cardinality(S)) = SUBSET S
      /\ UpTo(R, Cardinality(R)) = SUBSET R
  BY FS_Subset DEF UpTo
<1>2. ASSUME NEW s \in SUBSET R
      PROVE  /\ s = {} => g[s] = d[s]
             /\ s # {} => /\ OneOf(s) \in s
                          /\ g[s] = f[OneOf(s)] + g[s \ {OneOf(s)}]
                          /\ d[s] = f[OneOf(s)] + d[s \ {OneOf(s)}]
  BY <1>1, OneOfIsIn DEF Summing
<1>3. 0 \in T
  <2> SUFFICES ASSUME NEW s \in SUBSET R, Cardinality(s) <= 0 PROVE s = {}
    BY <1>2
  <2>1. Cardinality(s) \in Nat /\ IsFiniteSet(s)
    BY <1>1, FS_Subset, FS_CardinalityType
  <2>2. QED
    BY <2>1, FS_EmptySet
<1>4. ASSUME NEW i \in T PROVE i + 1 \in T
  <2> SUFFICES ASSUME NEW s \in SUBSET R, Cardinality(s) <= i + 1 PROVE g[s] = d[s]
    OBVIOUS
  <2> SUFFICES ASSUME s # {} PROVE g[s] = d[s]
    BY <1>2
  <2>1. OneOf(s) \in s
    BY <1>2
  <2>2. /\ s \ {OneOf(s)} \in SUBSET R
        /\ Cardinality(s) \in Nat /\ Cardinality(s \ {OneOf(s)}) = Cardinality(s) - 1
    BY <1>1, <2>1, OneLess
  <2>3. Cardinality(s \ {OneOf(s)}) <= i
    BY <2>2
  <2>4. g[s \ {OneOf(s)}] = d[s \ {OneOf(s)}]
    BY <2>2, <2>3
  <2>5. QED
    BY <1>2, <2>4
<1>5. T = Nat
  <2>1. T \in SUBSET Nat
    OBVIOUS
  <2> HIDE DEF T
  <2>2. QED
    BY <1>3, <1>4, <2>1, SetInduction
<1>6. SUFFICES ASSUME NEW s \in SUBSET R PROVE g[s] = d[s]
  OBVIOUS
<1>7. Cardinality(s) \in T
  BY <1>1, <1>5, FS_Subset, FS_CardinalityType
<1>8. QED
  BY <1>7, Cardinality(s) <= Cardinality(s)

LEMMA SumUnfolds ==
    ASSUME NEW S, IsFiniteSet(S), NEW f \in [S -> Nat]
    PROVE  /\ Sum(f, {}) = 0
           /\ \A s \in SUBSET S : s # {} =>
                 /\ OneOf(s) \in s
                 /\ Sum(f, s) = f[OneOf(s)] + Sum(f, s \ {OneOf(s)})
<1>1. \A s \in SUBSET S : IsFiniteSet(s)
  BY FS_Subset
<1>2. PICK g : Summing(g, f, S, Cardinality(S))
  BY SumIsSumming
<1>3. UpTo(S, Cardinality(S)) = SUBSET S
  BY FS_Subset DEF UpTo
<1>4. \A s \in SUBSET S : Sum(f, s) = g[s]
  <2> TAKE s \in SUBSET S
  <2>1. PICK d : Summing(d, f, s, Cardinality(s)) /\ Sum(f, s) = d[s]
    BY <1>1, SumIsSumming
  <2>2. QED
    BY <1>2, <2>1, SummingAgree
<1>5. \A s \in SUBSET S : g[s] = IF s = {} THEN 0 ELSE f[OneOf(s)] + g[s \ {OneOf(s)}]
  BY <1>2, <1>3 DEF Summing
<1>6. {} \in SUBSET S /\ \A s \in SUBSET S : s \ {OneOf(s)} \in SUBSET S
  OBVIOUS
<1>7. QED
  BY <1>4, <1>5, <1>6, OneOfIsIn

(* A sum is a number, and any of its elements may be taken out first.      *)
LEMMA SumTakesOut ==
    ASSUME NEW S, IsFiniteSet(S), NEW f \in [S -> Nat]
    PROVE  /\ Sum(f, {}) = 0
           /\ \A s \in SUBSET S :
                 /\ Sum(f, s) \in Nat
                 /\ \A x \in s : Sum(f, s) = f[x] + Sum(f, s \ {x})
<1> DEFINE Good(s) == Sum(f, s) \in Nat /\ \A x \in s : Sum(f, s) = f[x] + Sum(f, s \ {x})
           T == {i \in Nat : \A s \in SUBSET S : Cardinality(s) <= i => Good(s)}
<1>1. \A s \in SUBSET S : IsFiniteSet(s) /\ Cardinality(s) \in Nat
  BY FS_Subset, FS_CardinalityType
<1>2. /\ Sum(f, {}) = 0
      /\ \A s \in SUBSET S : s # {} =>
            OneOf(s) \in s /\ Sum(f, s) = f[OneOf(s)] + Sum(f, s \ {OneOf(s)})
  <2> HIDE DEF T
  <2>1. QED
    BY SumUnfolds
<1>3. Good({})
  BY <1>2
<1>4. 0 \in T
  <2> SUFFICES ASSUME NEW s \in SUBSET S, Cardinality(s) <= 0 PROVE Good(s)
    OBVIOUS
  <2>1. s = {}
    BY <1>1, FS_EmptySet
  <2> HIDE DEF Good
  <2>2. QED
    BY <1>3, <2>1
<1>5. ASSUME NEW i \in T PROVE i + 1 \in T
  <2> SUFFICES ASSUME NEW s \in SUBSET S, Cardinality(s) <= i + 1 PROVE Good(s)
    OBVIOUS
  <2> SUFFICES ASSUME s # {} PROVE Good(s)
    <3> HIDE DEF Good
    <3>1. QED
      BY <1>3
  <2>1. \A t \in SUBSET S : Cardinality(t) <= i => Good(t)
    OBVIOUS
  <2>2. ASSUME NEW x \in s PROVE s \ {x} \in SUBSET S /\ Good(s \ {x}) /\ f[x] \in Nat
    <3>1. s \ {x} \in SUBSET S /\ Cardinality(s) \in Nat /\ Cardinality(s \ {x}) = Cardinality(s) - 1
      BY OneLess
    <3>2. Cardinality(s \ {x}) <= i
      BY <3>1
    <3>3. QED
      BY <2>1, <3>1, <3>2
  <2> DEFINE y == OneOf(s)
  <2>3. y \in s /\ Sum(f, s) = f[y] + Sum(f, s \ {y})
    BY <1>2
  <2> HIDE DEF y, T
  <2>4. Sum(f, s) \in Nat
    BY <2>2, <2>3
  <2>5. ASSUME NEW x \in s, x # y PROVE Sum(f, s) = f[x] + Sum(f, s \ {x})
    <3>1. Sum(f, s \ {y}) = f[x] + Sum(f, (s \ {y}) \ {x})
      BY <2>2, <2>3, <2>5
    <3>2. Sum(f, s \ {x}) = f[y] + Sum(f, (s \ {x}) \ {y})
      BY <2>2, <2>3, <2>5
    <3>3. (s \ {y}) \ {x} = (s \ {x}) \ {y}
      OBVIOUS
    <3> DEFINE a == Sum(f, s \ {y})
               b == Sum(f, s \ {x})
               c == Sum(f, (s \ {x}) \ {y})
    <3>4. /\ a \in Nat /\ b \in Nat /\ f[x] \in Nat /\ f[y] \in Nat
          /\ a = f[x] + c /\ b = f[y] + c /\ Sum(f, s) = f[y] + a
      BY <2>2, <2>3, <3>1, <3>2, <3>3
    <3>5. c \in Nat
      <4>1. (s \ {x}) \ {y} \in SUBSET S
        OBVIOUS
      <4>2. Cardinality((s \ {x}) \ {y}) <= i
        <5>1. /\ y \in s \ {x} /\ s \ {x} \in SUBSET S /\ Cardinality(s) \in Nat
              /\ Cardinality(s \ {x}) = Cardinality(s) - 1 /\ Cardinality(s \ {x}) \in Nat
          BY <2>3, <2>5, OneLess
        <5>2. Cardinality((s \ {x}) \ {y}) = Cardinality(s \ {x}) - 1
          BY <5>1, OneLess
        <5>3. QED
          BY <5>1, <5>2 DEF T
      <4>3. QED
        BY <2>1, <4>1, <4>2
    <3> HIDE DEF a, b, c
    <3>6. f[y] + (f[x] + c) = f[x] + (f[y] + c)
      BY <3>4, <3>5
    <3>7. QED
      BY <3>4, <3>6 DEF b
  <2>6. QED
    BY <2>3, <2>4, <2>5
<1>6. T = Nat
  <2>1. T \in SUBSET Nat
    OBVIOUS
  <2> HIDE DEF T
  <2>2. QED
    BY <1>4, <1>5, <2>1, SetInduction
<1>7. \A s \in SUBSET S : Good(s)
  <2> TAKE s \in SUBSET S
  <2>1. Cardinality(s) \in T /\ Cardinality(s) <= Cardinality(s)
    BY <1>1, <1>6
  <2>2. QED
    BY <2>1
<1>8. QED
  BY <1>7, <1>2

LEMMA SumOfOneMore ==
    ASSUME NEW S, IsFiniteSet(S), NEW f \in [S -> Nat], NEW s \in SUBSET S, NEW x \in s
    PROVE  Sum(f, s) = f[x] + Sum(f, s \ {x})
  BY SumTakesOut

------------------------------------------------------------------------------
(* The nucleus. *)

LEMMA IdsAreCounted ==
    /\ Vocabulary \in Nat \ {0} /\ Vocabulary \in 0..Vocabulary
    /\ IsFiniteSet(Ids) /\ Cardinality(Ids) = Vocabulary
<1>1. Vocabulary \in Nat \ {0} /\ 1 \in Int /\ Vocabulary \in Int /\ 1 <= Vocabulary
  BY SamplingAssumption
<1>2. IsFiniteSet(1..Vocabulary) /\ Cardinality(1..Vocabulary) = Vocabulary - 1 + 1
  BY <1>1, FS_Interval
<1>3. Vocabulary - 1 + 1 = Vocabulary
  BY <1>1
<1>4. QED
  BY <1>1, <1>2, <1>3 DEF Ids

LEMMA CumSteps ==
    ASSUME NEW p \in [Ids -> Nat], NEW order \in Orders(p)
    PROVE  /\ cum(p, order, 0) = 0
           /\ \A i \in 0..Vocabulary : cum(p, order, i) \in Nat
           /\ \A i \in 1..Vocabulary : cum(p, order, i) = cum(p, order, i - 1) + p[order[i]]
<1>1. /\ Vocabulary \in Nat \ {0} /\ IsFiniteSet(Ids) /\ order \in [Ids -> Ids]
  BY IdsAreCounted DEF Orders
<1>2. PICK q \in [Ids -> Nat] : q = [k \in Ids |-> p[order[k]]]
  BY <1>1
<1>3. \A i : cum(p, order, i) = Sum(q, 1..i)
  BY <1>2 DEF cum, Sum
<1>4. 1..0 = {} /\ \A i \in 0..Vocabulary : 1..i \in SUBSET Ids
  BY <1>1 DEF Ids
<1>5. ASSUME NEW i \in 1..Vocabulary
      PROVE  Sum(q, 1..i) = Sum(q, 1..(i - 1)) + q[i]
  <2>1. i \in 1..i /\ 1..i \in SUBSET Ids /\ (1..i) \ {i} = 1..(i - 1) /\ i - 1 \in 0..Vocabulary
    BY <1>1, <1>4
  <2>2. Sum(q, 1..i) = q[i] + Sum(q, 1..(i - 1))
    <3>1. ASSUME NEW s \in SUBSET Ids, NEW x \in s PROVE Sum(q, s) = q[x] + Sum(q, s \ {x})
      BY <1>1, <1>2, SumOfOneMore
    <3>2. PICK s, x : s = 1..i /\ x = i
      OBVIOUS
    <3>3. s \in SUBSET Ids /\ x \in s
      BY <2>1, <3>2
    <3>4. Sum(q, s) = q[x] + Sum(q, s \ {x})
      BY <3>1, <3>3
    <3>5. QED
      BY <2>1, <3>2, <3>4
  <2>3. Sum(q, 1..(i - 1)) \in Nat /\ q[i] \in Nat
    BY <1>1, <1>2, <1>4, <2>1, SumTakesOut DEF Ids
  <2>4. QED
    BY <2>2, <2>3
<1>6. Sum(q, {}) = 0 /\ \A i \in 0..Vocabulary : Sum(q, 1..i) \in Nat
  BY <1>1, <1>2, <1>4, SumTakesOut
<1>7. \A i \in 1..Vocabulary : q[i] = p[order[i]]
  BY <1>2 DEF Ids
<1>8. QED
  BY <1>3, <1>4, <1>5, <1>6, <1>7

LEMMA Sorted ==
    ASSUME NEW p \in [Ids -> Nat], NEW order \in Orders(p)
    PROVE  \A i, j \in Ids : i <= j => p[order[i]] >= p[order[j]]
<1>1. /\ Vocabulary \in Nat /\ order \in [Ids -> Ids]
      /\ \A i \in 1..(Vocabulary - 1) : p[order[i]] >= p[order[i + 1]]
  BY SamplingAssumption DEF Orders
<1>2. \A i \in Ids : p[order[i]] \in Nat
  BY <1>1
<1> TAKE i \in Ids
<1> DEFINE T == {k \in Nat : i + k <= Vocabulary => p[order[i]] >= p[order[i + k]]}
<1>3. 0 \in T
  BY <1>1, <1>2 DEF Ids
<1>4. ASSUME NEW k \in T PROVE k + 1 \in T
  <2> DEFINE j == i + k
  <2> SUFFICES ASSUME i + (k + 1) <= Vocabulary PROVE p[order[i]] >= p[order[i + (k + 1)]]
    OBVIOUS
  <2>1. j \in 1..(Vocabulary - 1) /\ j \in Ids /\ j + 1 \in Ids /\ i + (k + 1) = j + 1 /\ j <= Vocabulary
    BY <1>1 DEF Ids
  <2>2. p[order[i]] >= p[order[j]] /\ p[order[j]] >= p[order[j + 1]]
    BY <1>1, <2>1
  <2> HIDE DEF j
  <2>3. QED
    BY <1>2, <2>1, <2>2
<1>5. T = Nat
  <2>1. T \in SUBSET Nat
    OBVIOUS
  <2> HIDE DEF T
  <2>2. QED
    BY <1>3, <1>4, <2>1, SetInduction
<1>6. ASSUME NEW j \in Ids, i <= j PROVE p[order[i]] >= p[order[j]]
  <2>1. j - i \in Nat /\ i + (j - i) = j /\ j <= Vocabulary
    BY <1>1, <1>6 DEF Ids
  <2>2. j - i \in T
    BY <1>5, <2>1
  <2>3. QED
    BY <2>1, <2>2
<1>7. QED
  BY <1>6

LEMMA CumGrows ==
    ASSUME NEW p \in [Ids -> Nat], NEW order \in Orders(p)
    PROVE  \A i, j \in 0..Vocabulary : i <= j => cum(p, order, i) <= cum(p, order, j)
<1> DEFINE c(i) == cum(p, order, i)
<1>1. /\ Vocabulary \in Nat /\ \A i \in 1..Vocabulary : p[order[i]] \in Nat
  BY SamplingAssumption DEF Orders, Ids
<1>2. /\ \A i \in 0..Vocabulary : c(i) \in Nat
      /\ \A i \in 1..Vocabulary : c(i) = c(i - 1) + p[order[i]]
  BY CumSteps
<1> HIDE DEF c
<1>3. \A i \in 1..Vocabulary : c(i - 1) <= c(i)
  <2> TAKE i \in 1..Vocabulary
  <2>1. i - 1 \in 0..Vocabulary
    BY <1>1
  <2>2. QED
    BY <1>1, <1>2, <2>1
<1> SUFFICES \A i, j \in 0..Vocabulary : i <= j => c(i) <= c(j)
  BY DEF c
<1> TAKE i \in 0..Vocabulary
<1> DEFINE T == {k \in Nat : i + k <= Vocabulary => c(i) <= c(i + k)}
<1>4. 0 \in T
  BY <1>1, <1>2
<1>5. ASSUME NEW k \in T PROVE k + 1 \in T
  <2> DEFINE j == i + k
  <2> SUFFICES ASSUME i + (k + 1) <= Vocabulary PROVE c(i) <= c(i + (k + 1))
    OBVIOUS
  <2>1. j \in 0..Vocabulary /\ j + 1 \in 1..Vocabulary /\ j + 1 \in 0..Vocabulary
        /\ i + (k + 1) = j + 1 /\ (j + 1) - 1 = j /\ j <= Vocabulary
    BY <1>1
  <2>2. c(i) <= c(j)
    BY <2>1
  <2> HIDE DEF j
  <2>3. c(j) <= c(j + 1)
    BY <1>3, <2>1
  <2>4. QED
    BY <1>2, <2>1, <2>2, <2>3
<1>6. T = Nat
  <2>1. T \in SUBSET Nat
    OBVIOUS
  <2> HIDE DEF T
  <2>2. QED
    BY <1>4, <1>5, <2>1, SetInduction
<1>7. ASSUME NEW j \in 0..Vocabulary, i <= j PROVE c(i) <= c(j)
  <2>1. j - i \in Nat /\ i + (j - i) = j /\ j <= Vocabulary
    BY <1>1, <1>7
  <2>2. j - i \in T
    BY <1>6, <2>1
  <2>3. QED
    BY <2>1, <2>2
<1>8. QED
  BY <1>7

(* The first k tokens in order: k of them, and what np.cumsum says.        *)
FirstOf(order, k) == {order[i] : i \in 1..k}

LEMMA FirstAreCounted ==
    ASSUME NEW p \in [Ids -> Nat], NEW order \in Orders(p)
    PROVE  \A k \in 0..Vocabulary :
              /\ FirstOf(order, k) \in SUBSET Ids
              /\ Cardinality(FirstOf(order, k)) = k
              /\ Mass(p, FirstOf(order, k)) = cum(p, order, k)
<1> DEFINE F(k) == FirstOf(order, k)
           Good(k) == F(k) \in SUBSET Ids /\ Cardinality(F(k)) = k /\ Sum(p, F(k)) = cum(p, order, k)
           T == {k \in Nat : k <= Vocabulary => Good(k)}
<1>1. /\ Vocabulary \in Nat /\ order \in [Ids -> Ids] /\ IsFiniteSet(Ids)
      /\ \A i, j \in Ids : i # j => order[i] # order[j]
  BY IdsAreCounted DEF Orders
<1>2. 0 \in T
  <2>1. F(0) = {}
    BY DEF FirstOf
  <2>2. QED
    BY <1>1, <2>1, FS_EmptySet, CumSteps, SumTakesOut
<1>3. ASSUME NEW k \in T PROVE k + 1 \in T
  <2> SUFFICES ASSUME k + 1 <= Vocabulary PROVE Good(k + 1)
    OBVIOUS
  <2>1. k \in 0..Vocabulary /\ k + 1 \in 1..Vocabulary /\ (k + 1) - 1 = k /\ Good(k) /\ k + 1 \in Ids
    BY <1>1 DEF Ids
  <2> DEFINE x == order[k + 1]
  <2>2. x \in Ids /\ x \notin F(k)
    <3>1. \A i \in 1..k : i \in Ids /\ i # k + 1
      BY <1>1, <2>1 DEF Ids
    <3>2. QED
      BY <1>1, <2>1, <3>1 DEF FirstOf
  <2>3. F(k + 1) = F(k) \cup {x}
    <3>1. 1..(k + 1) = (1..k) \cup {k + 1}
      OBVIOUS
    <3>2. QED
      BY <3>1 DEF FirstOf
  <2> HIDE DEF x, F
  <2>4. F(k + 1) \in SUBSET Ids /\ F(k + 1) \ {x} = F(k)
    BY <2>1, <2>2, <2>3
  <2>5. Cardinality(F(k + 1)) = k + 1
    <3>1. IsFiniteSet(F(k))
      BY <1>1, <2>1, FS_Subset
    <3>2. QED
      BY <2>1, <2>2, <2>3, <3>1, FS_AddElement
  <2>6. Sum(p, F(k + 1)) = p[x] + Sum(p, F(k)) /\ Sum(p, F(k)) \in Nat
    BY <1>1, <2>1, <2>2, <2>3, <2>4, SumTakesOut
  <2>7. cum(p, order, k + 1) = cum(p, order, k) + p[x]
    BY <2>1, CumSteps DEF x
  <2>8. Sum(p, F(k + 1)) = cum(p, order, k + 1)
    BY <2>1, <2>2, <2>6, <2>7
  <2>9. QED
    BY <2>4, <2>5, <2>8
<1>4. T = Nat
  <2>1. T \in SUBSET Nat
    OBVIOUS
  <2> HIDE DEF T
  <2>2. QED
    BY <1>2, <1>3, <2>1, SetInduction
<1>5. QED
  BY <1>1, <1>4 DEF Mass, Sum

(* No set of tokens has more mass than as many of the first.               *)
LEMMA FirstAreHeaviest ==
    ASSUME NEW p \in [Ids -> Nat], NEW order \in Orders(p)
    PROVE  \A s \in SUBSET Ids : /\ Cardinality(s) \in 0..Vocabulary
                                 /\ Mass(p, s) \in Nat
                                 /\ Mass(p, s) <= cum(p, order, Cardinality(s))
<1> DEFINE T == {k \in Nat : \A s \in SUBSET Ids :
                    Cardinality(s) = k => Sum(p, s) <= cum(p, order, k)}
<1>1. /\ Vocabulary \in Nat /\ order \in [Ids -> Ids] /\ IsFiniteSet(Ids)
  BY IdsAreCounted DEF Orders
<1>2. \A s \in SUBSET Ids : /\ IsFiniteSet(s) /\ Cardinality(s) \in 0..Vocabulary
                            /\ Sum(p, s) \in Nat
  <2> TAKE s \in SUBSET Ids
  <2>1. Cardinality(Ids) = Vocabulary
    BY IdsAreCounted
  <2>2. IsFiniteSet(s) /\ Cardinality(s) <= Vocabulary /\ Cardinality(s) \in Nat
    BY <1>1, <2>1, FS_Subset, FS_CardinalityType
  <2>3. QED
    BY <1>1, <2>2, SumTakesOut
<1>3. 0 \in T
  <2> SUFFICES ASSUME NEW s \in SUBSET Ids, Cardinality(s) = 0
               PROVE  Sum(p, s) <= cum(p, order, 0)
    OBVIOUS
  <2>1. s = {}
    BY <1>2, FS_EmptySet
  <2>2. QED
    BY <1>1, <2>1, CumSteps, SumTakesOut
<1>4. ASSUME NEW k \in T PROVE k + 1 \in T
  <2> SUFFICES ASSUME NEW s \in SUBSET Ids, Cardinality(s) = k + 1
               PROVE  Sum(p, s) <= cum(p, order, k + 1)
    OBVIOUS
  <2>1. k + 1 \in 1..Vocabulary /\ k \in 0..Vocabulary /\ k + 1 \in Ids /\ (k + 1) - 1 = k
    <3>1. k + 1 \in 0..Vocabulary
      BY <1>2
    <3>2. QED
      BY <1>1, <3>1 DEF Ids
  <2>2. \A t \in SUBSET Ids : Cardinality(t) = k => Sum(p, t) <= cum(p, order, k)
    OBVIOUS
  <2> HIDE DEF T
  <2>3. PICK x \in s : x \notin FirstOf(order, k)
    <3> SUFFICES ASSUME s \subseteq FirstOf(order, k) PROVE FALSE
      OBVIOUS
    <3>1. Cardinality(FirstOf(order, k)) = k /\ IsFiniteSet(FirstOf(order, k))
      BY <1>2, <2>1, FirstAreCounted
    <3>2. Cardinality(s) <= k
      BY <3>1, FS_Subset
    <3>3. QED
      BY <2>1, <3>2
  <2>4. PICK j \in Ids : order[j] = x
    <3>1. Cardinality(FirstOf(order, Vocabulary)) = Vocabulary /\ FirstOf(order, Vocabulary) \in SUBSET Ids
      BY <1>1, FirstAreCounted
    <3>2. Cardinality(Ids) = Vocabulary
      BY IdsAreCounted
    <3>3. FirstOf(order, Vocabulary) = Ids
      BY <1>1, <3>1, <3>2, FS_Subset
    <3>4. QED
      BY <3>3 DEF FirstOf, Ids
  <2>5. k + 1 <= j
    <3> SUFFICES ASSUME j <= k PROVE FALSE
      BY <1>1, <2>1 DEF Ids
    <3>1. j \in 1..k
      BY <1>1 DEF Ids
    <3>2. QED
      BY <2>3, <2>4, <3>1 DEF FirstOf
  <2>6. p[x] <= p[order[k + 1]] /\ p[x] \in Nat /\ p[order[k + 1]] \in Nat
    BY <1>1, <2>1, <2>4, <2>5, Sorted
  <2>7. s \ {x} \in SUBSET Ids /\ Cardinality(s \ {x}) = k
    BY <1>1, <2>1, OneLess
  <2>8. Sum(p, s) = p[x] + Sum(p, s \ {x}) /\ Sum(p, s \ {x}) \in Nat
    BY <1>1, <2>7, SumTakesOut
  <2>9. Sum(p, s \ {x}) <= cum(p, order, k)
    BY <2>2, <2>7
  <2>10. cum(p, order, k + 1) = cum(p, order, k) + p[order[k + 1]] /\ cum(p, order, k) \in Nat
    BY <2>1, CumSteps
  <2>11. QED
    BY <2>6, <2>8, <2>9, <2>10
<1>5. T = Nat
  <2>1. T \in SUBSET Nat
    OBVIOUS
  <2> HIDE DEF T
  <2>2. QED
    BY <1>3, <1>4, <2>1, SetInduction
<1>6. QED
  BY <1>2, <1>5 DEF Mass, Sum

(* np.searchsorted cuts behind the sums that are below top_p.              *)
LEMMA CutIsBehind ==
    ASSUME NEW p \in [Ids -> Nat], NEW order \in Orders(p), NEW top_p \in Nat
    PROVE  \E m \in 0..Vocabulary :
              /\ cut(p, order, top_p) = m + 1
              /\ \A i \in Ids : cum(p, order, i) < top_p <=> i <= m
<1> DEFINE c(i) == cum(p, order, i)
           T == {k \in Nat : k <= Vocabulary =>
                   \E m \in 0..k : \A i \in 1..k : c(i) < top_p <=> i <= m}
<1>1. /\ Vocabulary \in Nat /\ \A i \in 0..Vocabulary : c(i) \in Nat
      /\ \A i, j \in 0..Vocabulary : i <= j => c(i) <= c(j)
  BY SamplingAssumption, CumSteps, CumGrows
<1> HIDE DEF c
<1>2. 0 \in T
  OBVIOUS
<1>3. ASSUME NEW k \in T PROVE k + 1 \in T
  <2> SUFFICES ASSUME k + 1 <= Vocabulary
               PROVE  \E m \in 0..(k + 1) : \A i \in 1..(k + 1) : c(i) < top_p <=> i <= m
    OBVIOUS
  <2>1. k <= Vocabulary
    BY <1>1
  <2>2. CASE c(k + 1) < top_p
    <3>1. \A i \in 1..(k + 1) : c(i) < top_p
      <4> TAKE i \in 1..(k + 1)
      <4>1. i \in 0..Vocabulary /\ k + 1 \in 0..Vocabulary /\ i <= k + 1
        BY <1>1
      <4>2. c(i) <= c(k + 1) /\ c(i) \in Nat /\ c(k + 1) \in Nat
        BY <1>1, <4>1
      <4>3. QED
        BY <2>2, <4>2
    <3>2. \A i \in 1..(k + 1) : i <= k + 1
      OBVIOUS
    <3>3. QED
      BY <3>1, <3>2
  <2>3. CASE ~(c(k + 1) < top_p)
    <3>1. PICK m \in 0..k : \A i \in 1..k : c(i) < top_p <=> i <= m
      BY <2>1
    <3>2. \A i \in 1..(k + 1) : c(i) < top_p <=> i <= m
      BY <2>3, <3>1
    <3>3. m \in 0..(k + 1)
      OBVIOUS
    <3>4. QED
      BY <3>2, <3>3
  <2>4. QED
    BY <2>2, <2>3
<1>4. T = Nat
  <2>1. T \in SUBSET Nat
    OBVIOUS
  <2> HIDE DEF T
  <2>2. QED
    BY <1>2, <1>3, <2>1, SetInduction
<1>5. PICK m \in 0..Vocabulary : \A i \in Ids : c(i) < top_p <=> i <= m
  <2>1. Vocabulary \in T
    <3> HIDE DEF T
    <3>1. QED
      BY <1>1, <1>4
  <2>2. Vocabulary <= Vocabulary
    BY <1>1
  <2>3. QED
    BY <2>1, <2>2 DEF Ids
<1>6. {i \in Ids : c(i) < top_p} = 1..m
  BY <1>1, <1>5 DEF Ids
<1>7. Cardinality(1..m) = m
  BY FS_Interval
<1>8. cut(p, order, top_p) = m + 1
  BY <1>6, <1>7 DEF cut, c
<1>9. QED
  BY <1>5, <1>8 DEF c

(* sample_next (llama_npu.py:244-257), whatever the number of tokens, their *)
(* probabilities and top_p: no smaller set has the mass, and all tokens     *)
(* are kept when none has.                                                  *)
THEOREM KeepIsSmallest ==
    ASSUME NEW p \in [Ids -> Nat], NEW order \in Orders(p), NEW top_p \in Nat
    PROVE  Smallest(p, top_p, keep(p, order, top_p))
<1> DEFINE c(i) == cum(p, order, i)
           nucleus == keep(p, order, top_p)
           enough == {s \in (SUBSET Ids) \ {{}} : Mass(p, s) >= top_p}
<1>1. /\ Vocabulary \in Nat /\ Vocabulary \in 0..Vocabulary
      /\ \A i \in 0..Vocabulary : c(i) \in Nat
  BY IdsAreCounted, CumSteps
<1>2. PICK m \in 0..Vocabulary : /\ cut(p, order, top_p) = m + 1
                                 /\ \A i \in Ids : c(i) < top_p <=> i <= m
  BY CutIsBehind
<1>3. \A s \in SUBSET Ids : /\ Cardinality(s) \in 0..Vocabulary
                            /\ Mass(p, s) \in Nat /\ Mass(p, s) <= c(Cardinality(s))
  BY FirstAreHeaviest
<1>4. \A k \in 0..Vocabulary : /\ FirstOf(order, k) \in SUBSET Ids
                               /\ Cardinality(FirstOf(order, k)) = k
                               /\ Mass(p, FirstOf(order, k)) = c(k)
  BY FirstAreCounted
<1>5. \A s \in SUBSET Ids : s # {} => Cardinality(s) \in Ids
  <2> TAKE s \in SUBSET Ids
  <2>1. IsFiniteSet(s)
    BY IdsAreCounted, FS_Subset
  <2>2. s # {} => Cardinality(s) # 0
    BY <2>1, FS_EmptySet
  <2>3. QED
    BY <1>1, <1>3, <2>2 DEF Ids
(* A set that is too small has too little mass.                            *)
<1>6. \A s \in SUBSET Ids : s # {} /\ Cardinality(s) <= m => s \notin enough
  <2> TAKE s \in SUBSET Ids
  <2> HAVE s # {} /\ Cardinality(s) <= m
  <2>1. c(Cardinality(s)) < top_p
    BY <1>2, <1>5
  <2>2. Mass(p, s) < top_p
    BY <1>1, <1>3, <2>1
  <2>3. QED
    BY <1>3, <2>2
<1>7. CASE m = Vocabulary
  <2>1. enough = {}
    BY <1>3, <1>6, <1>7
  <2>2. nucleus = FirstOf(order, Vocabulary)
    <3>1. {k \in Ids : k <= m + 1} = 1..Vocabulary
      BY <1>1, <1>7 DEF Ids
    <3>2. nucleus = {order[i] : i \in {k \in Ids : k <= m + 1}}
      BY <1>2 DEF keep
    <3>3. QED
      BY <3>1, <3>2 DEF FirstOf
  <2>3. FirstOf(order, Vocabulary) = Ids
    <3>1. IsFiniteSet(Ids) /\ Cardinality(Ids) = Vocabulary
      BY IdsAreCounted
    <3>2. QED
      BY <1>1, <1>4, <3>1, FS_Subset
  <2>4. QED
    BY <2>1, <2>2, <2>3 DEF Smallest
<1>8. CASE m # Vocabulary
  <2>1. m + 1 \in Ids /\ m + 1 \in 0..Vocabulary /\ m \in Nat
    BY <1>1, <1>8 DEF Ids
  <2>2. nucleus = FirstOf(order, m + 1)
    <3>1. {k \in Ids : k <= m + 1} = 1..(m + 1)
      BY <1>1, <2>1 DEF Ids
    <3>2. nucleus = {order[i] : i \in {k \in Ids : k <= m + 1}}
      BY <1>2 DEF keep
    <3>3. QED
      BY <3>1, <3>2 DEF FirstOf
  <2>3. nucleus \in SUBSET Ids /\ Cardinality(nucleus) = m + 1 /\ Mass(p, nucleus) >= top_p
    <3>1. ~(c(m + 1) < top_p)
      BY <1>2, <2>1
    <3>2. QED
      BY <1>1, <1>4, <2>1, <2>2, <3>1
  <2>4. nucleus # {}
    BY <2>1, <2>3, FS_EmptySet
  <2>5. nucleus \in enough
    BY <2>3, <2>4
  <2>6. \A s \in enough : Cardinality(s) >= m + 1
    <3> TAKE s \in enough
    <3>1. s \in SUBSET Ids /\ s # {} /\ Cardinality(s) \in Nat
      BY <1>3
    <3>2. ~(Cardinality(s) <= m)
      BY <1>6, <3>1
    <3>3. QED
      BY <2>1, <3>1, <3>2
  <2>7. QED
    BY <2>3, <2>5, <2>6 DEF Smallest
<1>9. QED
  BY <1>7, <1>8

(* Where the chat samples, the nucleus is the smallest set of tokens with  *)
(* mass >= top_p (llama_npu.py:253).                                       *)
THEOREM NucleusAtSampling == ChatSpec => []NucleusIsSmallest
<1>1. AlwaysSmallest
  <2>1. \A p \in [Ids -> 0..MaxMass] : p \in [Ids -> Nat]
    BY SamplingAssumption
  <2>2. \A top_p \in 0..(Vocabulary * MaxMass) : top_p \in Nat
    BY SamplingAssumption
  <2>3. QED
    BY <2>1, <2>2, KeepIsSmallest DEF AlwaysSmallest
<1>2. NucleusIsSmallest
  BY <1>1 DEF NucleusIsSmallest
<1>3. QED
  BY <1>2, PTL
==============================================================================
