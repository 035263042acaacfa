---------------------------- MODULE StreamDecode ----------------------------
(***************************************************************************)
(* How chat_repl() of project-c/m6-llm/llama_npu.py shows a reply while it *)
(* is being generated: after every token the whole reply is decoded anew   *)
(* and only what is new is written, up to the trailing U+FFFD, which may   *)
(* still turn into another character.                                      *)
(*                                                                         *)
(* A token is a run of bytes and may begin or end within a character.  Of  *)
(* a byte only its role in UTF-8 is kept: "a" is a character of its own,   *)
(* "L2" and "L3" begin one of two and three bytes, "c" continues one, and  *)
(* "fffd" stands for the three bytes of a U+FFFD the model has written.    *)
(***************************************************************************)
EXTENDS Naturals, Sequences, SequencesExt

CONSTANTS
    Vocabulary,     \* the tokens, as sequences of bytes
    max_new

VARIABLES
    out_ids,        \* the bytes of the reply
    n,              \* its number of tokens
    printed,        \* the text taken for written
    stdout,         \* the text written
    pc

vars == <<out_ids, n, printed, stdout, pc>>

Bytes == {"a", "L2", "L3", "c", "fffd"}

ASSUME ConstantsAssumption == max_new \in Nat /\ Vocabulary \subseteq Seq(Bytes)

------------------------------------------------------------------------------
(* tok.decode: UTF-8 with every broken character replaced by one U+FFFD. *)

FFFD == "U+FFFD"

Length(lead) == IF lead = "L2" THEN 2 ELSE 3

(* Decoded so far, and the bytes of a character that is not complete. *)
Broken(d) == IF d.rest = <<>> THEN d.text ELSE Append(d.text, FFFD)

Continue(d) ==
    LET rest == Append(d.rest, "c")
    IN CASE d.rest = <<>> -> [text |-> Append(d.text, FFFD), rest |-> <<>>]
         [] d.rest # <<>> /\ Len(rest) = Length(d.rest[1]) ->
                [text |-> Append(d.text, d.rest[1]), rest |-> <<>>]
         [] OTHER -> [text |-> d.text, rest |-> rest]

DecodeByte(d, b) ==
    CASE b = "c" -> Continue(d)
      [] b \in {"L2", "L3"} -> [text |-> Broken(d), rest |-> <<b>>]
      [] b = "fffd" -> [text |-> Append(Broken(d), FFFD), rest |-> <<>>]
      [] b = "a" -> [text |-> Append(Broken(d), "a"), rest |-> <<>>]

decode(bytes) == Broken(FoldLeft(DecodeByte, [text |-> <<>>, rest |-> <<>>], bytes))

------------------------------------------------------------------------------

(* A slip: nothing is held back. *)
HoldNothing(full) == full

(* full.rstrip of the replacement character. *)
rstrip(full) ==
    SubSeq(full, 1, CHOOSE k \in 0..Len(full) :
                        /\ k = 0 \/ full[k] # FFFD
                        /\ \A i \in (k + 1)..Len(full) : full[i] = FFFD)

Delta(text) == SubSeq(text, Len(printed) + 1, Len(text))

Init ==
    /\ out_ids = <<>> /\ n = 0
    /\ printed = <<>> /\ stdout = <<>>
    /\ pc = "reply"

(* A slip: all of the text is taken for written. *)
All(full) == full
Safe(full) == rstrip(full)

Token ==
    /\ pc = "reply" /\ n < max_new
    /\ \E t \in Vocabulary : out_ids' = out_ids \o t
    /\ n' = n + 1
    /\ LET full == decode(out_ids')
       IN IF Len(rstrip(full)) > Len(printed)
          THEN stdout' = stdout \o Delta(rstrip(full)) /\ printed' = Safe(full)
          ELSE UNCHANGED <<stdout, printed>>
    /\ UNCHANGED pc

(* A slip: the tail is forgotten. *)
Forgotten == <<>>
Held == Delta(decode(out_ids))

End ==
    /\ pc = "reply"
    /\ stdout' = stdout \o Held
    /\ pc' = "done"
    /\ UNCHANGED <<out_ids, n, printed>>

Next == Token \/ End

Spec == Init /\ [][Next]_vars

------------------------------------------------------------------------------
(* Properties. *)

(* llama_npu.py:321-323: what is on the screen is always a prefix of the   *)
(* reply, and it stays one however the reply goes on: no replacement       *)
(* character is written that a later token would have completed.           *)
NeverGarbled ==
    /\ IsPrefix(stdout, decode(out_ids))
    /\ pc = "reply" => \A t \in Vocabulary : IsPrefix(stdout, decode(out_ids \o t))

(* The reply is streamed: only trailing replacement characters are held    *)
(* back, everything before them is on the screen.                          *)
NothingElseHeldBack == pc = "reply" => stdout = rstrip(decode(out_ids))

(* In the end all of the reply has been written, once. *)
WrittenInFull == pc = "done" => stdout = decode(out_ids)
==============================================================================
