----------------------------- MODULE LlamaChat ------------------------------
(***************************************************************************)
(* The program of project-c/m6-llm/llama_npu.py on top of LlamaNPU:        *)
(* main(), generate() and chat_repl().  The KV cache carries a             *)
(* conversation from turn to turn, so what the user sees as a dialogue is  *)
(* only as well formed as the tokens fed so far.  What is printed          *)
(* meanwhile is in StreamDecode.                                           *)
(***************************************************************************)
EXTENDS LlamaNPU, Sampling

CONSTANTS
    Replies,        \* the tokens the model may answer with
    MaxNew,         \* max_new
    System          \* whether there is a system prompt

VARIABLES
    first,          \* the next turn is the first
    ids,            \* the tokens of the prompt or of the user's turn not yet fed
    n,              \* len(out_ids)
    pc,
    alive           \* the process runs

model == vars
repl == <<first, ids, n, pc>>
chat_vars == <<model, repl, alive>>

Template == {"bos", "sys", "user", "eot", "asst"}

(* The model is taken to answer with no token of the template but the ones *)
(* that stop a reply: sample_next would pass on any of its vocabulary.     *)
ASSUME ChatAssumption ==
    /\ MaxNew \in Nat /\ System \in BOOLEAN
    /\ Replies \cap Template = {}
    /\ Tokens = Replies \cup Template

ChatInit ==
    /\ Init
    /\ first = TRUE
    /\ ids = <<>> /\ n = 0
    /\ pc = "main"
    /\ alive = TRUE

(* main() with --interactive. *)
StartChat ==
    /\ pc = "main"
    /\ pc' = "prompt"
    /\ UNCHANGED <<model, first, ids, n>>

(* main() without it: the prompt as --chat, by itself after BOS, or --raw, *)
(* which may be empty.                                                     *)
StartOneShot ==
    /\ pc = "main"
    /\ ids' \in {<<"bos", "user", "eot", "asst">>, <<"bos", "user">>, <<"user">>, <<>>}
    /\ pc' = "feed"
    /\ UNCHANGED <<model, first, n>>

(* A block of the template is one token, and so is the user's text. *)
_user_turn ==
    LET opening == IF System THEN <<"bos", "sys", "eot">> ELSE <<"bos">>
    IN (IF first THEN opening ELSE <<>>) \o <<"user", "eot", "asst">>

(* Bound: the turn still fits into the cache. *)
HasRoom == pos + Len(_user_turn) + MaxNew + 1 <= MaxPos

(* A slip: every turn is the first. *)
Still == first
NoLonger == FALSE

(* Blank input is skipped without a change of state. *)
Input ==
    /\ pc = "prompt" /\ HasRoom
    /\ ids' = _user_turn
    /\ first' = NoLonger
    /\ n' = 0
    /\ pc' = "prefill"
    /\ UNCHANGED model

Reset ==
    /\ pc = "prompt"
    /\ reset
    /\ first' = TRUE
    /\ UNCHANGED <<ids, n, pc>>

(* /exit, /quit, Ctrl-D and Ctrl-C at the prompt. *)
Exit ==
    /\ pc = "prompt"
    /\ alive' = FALSE
    /\ UNCHANGED <<model, repl>>

------------------------------------------------------------------------------

(* forward_token() runs to its return; one that raises, or Ctrl-C while it *)
(* runs, ends the process.  np.argmax of None, for want of a prompt, is 0  *)
(* or raises as well.                                                      *)
Compute ==
    /\ Layer \/ Return
    /\ UNCHANGED repl

Dies ==
    /\ li # 0 \/ (pc = "loop" /\ logits = <<>>)
    /\ alive' = FALSE
    /\ UNCHANGED <<model, repl>>

Prefill ==
    /\ pc = "prefill" /\ ids # <<>>
    /\ Begin(Head(ids))
    /\ ids' = Tail(ids)
    /\ UNCHANGED <<first, n, pc>>

(* A slip: the last token of the turn is left to the loop. *)
AllButOne == Len(ids) <= 1
AllFed == ids = <<>>

Answer ==
    /\ pc = "prefill" /\ AllFed /\ li = 0
    /\ pc' = "generate"
    /\ UNCHANGED <<model, first, ids, n>>

Sample ==
    /\ pc = "generate" /\ n < MaxNew
    /\ \E nxt \in Replies : Begin(nxt)
    /\ n' = n + 1
    /\ UNCHANGED <<first, ids, pc>>

(* A slip: only a stop token ends a reply. *)
StopToken == n < MaxNew
StopTokenOrLimit == n <= MaxNew

(* A stop token was sampled, or the reply is as long as it may get. *)
EndsReply ==
    /\ pc = "generate" /\ li = 0 /\ StopTokenOrLimit
    /\ pc' = "closing"
    /\ UNCHANGED <<model, first, ids, n>>

(* A slip: the stop token is taken for fed. *)
CloseTurnUnfed ==
    /\ pc = "closing" /\ li = 0
    /\ pc' = "closed"
    /\ UNCHANGED <<model, first, ids, n>>

CloseTurn ==
    /\ pc = "closing"
    /\ Begin("eot")
    /\ pc' = "closed"
    /\ UNCHANGED <<first, ids, n>>

Prompt ==
    /\ pc = "closed" /\ li = 0
    /\ pc' = "prompt"
    /\ UNCHANGED <<model, first, ids, n>>

------------------------------------------------------------------------------

(* generate(): the prompt, then a token after the other until a stop token *)
(* or max_new, each of them the argmax of the logits before it.            *)
FeedPrompt ==
    /\ pc = "feed" /\ li = 0
    /\ IF ids # <<>>
       THEN Begin(Head(ids)) /\ ids' = Tail(ids) /\ UNCHANGED pc
       ELSE pc' = "loop" /\ UNCHANGED <<model, ids>>
    /\ UNCHANGED <<first, n>>

Generate ==
    /\ pc = "loop" /\ li = 0 /\ n < MaxNew
    /\ n' = n + 1
    /\ \/ \E nxt \in Replies : Begin(nxt) /\ UNCHANGED pc
       \/ pc' = "done" /\ UNCHANGED model       \* nxt in eos_ids
    /\ UNCHANGED <<first, ids>>

Exhausted ==
    /\ pc = "loop" /\ li = 0 /\ n = MaxNew
    /\ pc' = "done"
    /\ UNCHANGED <<model, first, ids, n>>

------------------------------------------------------------------------------

Turn ==
    /\ alive
    /\ \/ Compute \/ StartChat \/ StartOneShot
       \/ Prefill \/ Answer \/ Sample \/ EndsReply \/ CloseTurn \/ Prompt
       \/ FeedPrompt \/ Generate \/ Exhausted
    /\ UNCHANGED alive

Ends == alive /\ (Exit \/ Dies)

Command == alive /\ (Input \/ Reset) /\ UNCHANGED alive

ChatNext == Command \/ Turn \/ Ends

(* The process runs; the user need not type, and nothing need fail. *)
ChatSpec == ChatInit /\ [][ChatNext]_chat_vars /\ WF_chat_vars(Turn)

------------------------------------------------------------------------------
(* Properties; CacheIsContext and ContextSpec of LlamaNPU are checked      *)
(* along with them.                                                        *)

OneShot == pc \in {"feed", "loop", "done"}

(* A token is only ever sampled from the logits of the whole conversation, *)
(* its last token included, and never from those of an earlier turn, once  *)
(* there is a conversation.                                                *)
SampledFromDialog ==
    pc \in {"generate", "loop"} /\ li = 0 /\ fed \o ids # <<>> =>
        \A l \in 1..n_layers : logits[l] = Reading(fed \o ids)

(* llama_npu.py:253, "nucleus: smallest set with mass >= top_p": where the *)
(* chat samples, whatever the probabilities, as long as there is such a    *)
(* set no set of fewer tokens is one, however equal probabilities are      *)
(* ordered and at every boundary; there is always a token to draw, and all *)
(* of them when rounding leaves top_p out of reach.                        *)
NucleusIsSmallest == pc = "generate" /\ li = 0 /\ n < MaxNew => AlwaysSmallest

(* llama_npu.py:335, "terminate the assistant turn in the KV cache so the  *)
(* next turn is well-formed": at every prompt the cache of every layer     *)
(* holds whole turns only.                                                 *)
PromptIsWellFormed ==
    pc = "prompt" /\ fed # <<>> =>
        /\ CacheIsContext
        /\ fed[1] = "bos" /\ fed[Len(fed)] = "eot"
        /\ \A i \in 2..Len(fed) : fed[i] # "bos"
        /\ \A i \in 1..(Len(fed) - 1) : fed[i] \in Replies \cup {"asst"} =>
               fed[i + 1] \in Replies \cup {"eot"}

(* The chat implements Conversation: the context is the dialogue up to the *)
(* part of the user's turn that is still to be fed.                        *)
Dialog == INSTANCE Conversation
    WITH dialog <- IF OneShot THEN <<>> ELSE fed \o ids,
         open <- pc \in {"prefill", "generate", "closing"},
         said <- IF pc \in {"prefill", "generate", "closing"} THEN n ELSE 0

ConversationSpec == Dialog!Spec

(* A turn and a one-shot run end, however the model answers, unless the    *)
(* process dies.                                                           *)
TurnEnds == pc \in {"prefill", "feed"} ~> pc \in {"prompt", "done"} \/ ~alive
==============================================================================
