--------------------------- MODULE MCStreamDecode ---------------------------
(* Every byte on its own, and tokens that end one character and begin the next. *)
EXTENDS StreamDecode

MCVocabulary ==
    {<<"a">>, <<"L2">>, <<"L3">>, <<"c">>, <<"fffd">>, <<"L3", "c">>, <<"c", "a">>, <<"c", "L2">>}
==============================================================================
