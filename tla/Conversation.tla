---------------------------- MODULE Conversation ----------------------------
(***************************************************************************)
(* What the chat keeps in the model's context: the Llama-3 template filled *)
(* in turn by turn.  The first turn, and only the first, opens with        *)
(* begin_of_text and the system block; a turn is the user's block, an open *)
(* assistant header, a reply without stop tokens, and one end of turn.     *)
(* LlamaChat implements it.                                                *)
(***************************************************************************)
EXTENDS Naturals, Sequences

CONSTANTS Replies, MaxNew, System

VARIABLES
    dialog,     \* the tokens of the conversation
    open,       \* a reply is being given
    said        \* its length

vars == <<dialog, open, said>>

Opening == IF System THEN <<"bos", "sys", "eot">> ELSE <<"bos">>
Question == <<"user", "eot", "asst">>

Init == dialog = <<>> /\ open = FALSE /\ said = 0

Ask ==
    /\ ~open
    /\ dialog' = IF dialog = <<>> THEN Opening \o Question ELSE dialog \o Question
    /\ open' = TRUE /\ said' = 0

Say ==
    /\ open /\ said < MaxNew
    /\ \E t \in Replies : dialog' = Append(dialog, t)
    /\ said' = said + 1
    /\ UNCHANGED open

EndTurn ==
    /\ open
    /\ dialog' = Append(dialog, "eot")
    /\ open' = FALSE /\ said' = 0

Forget == ~open /\ dialog' = <<>> /\ UNCHANGED <<open, said>>

Next == Ask \/ Say \/ EndTurn \/ Forget

Spec == Init /\ [][Next]_vars
==============================================================================
