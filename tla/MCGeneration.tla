---------------------------- MODULE MCGeneration ----------------------------
(* An instance of Generation for TLC.                                      *)
EXTENDS Generation, TLC

\* "eot" is a special token, which decodes to nothing; "bc" ends one stop string and is
\* another one's middle.
Pieces == "w" :> <<"w">> @@ "a" :> <<"a">> @@ "bc" :> <<"b", "c">> @@ "t" :> <<"t">>
          @@ "eot" :> << >> @@ "eos" :> << >>
Words == DOMAIN Pieces
StopStrings == << <<"c", "w">>, <<"a", "b">> >>

\* The tokenizer has the first name, under another id than the one hard-coded for it.
Names == <<"<|im_end|>", "<|endoftext|>">>
Guesses == <<"unused", "eos">>
\* A model without fallbacks.
NoGuesses == << >>
TokenToId == "<|im_end|>" :> "eot"

Conversations == {<<"w">>, <<"w", "a">>}
=============================================================================
