------------------------------ MODULE MCTexts ------------------------------
(* Instances of Texts: the bytes, pairs and pieces its texts are made of. *)
EXTENDS Texts

\* Bytes at the edges of the ranges of UTF-8, and a Cyrillic letter's.
MCParts ==
  [utf8    |-> {0, 65, 128, 143, 144, 160, 193, 194, 208, 224, 237, 240, 244},
   words   |-> {97, SPACE, LF},
   query   |-> {<<97>>, <<98>>, <<97, 98>>} \X
               {<<>>, <<65>>, <<PERCENT>>, <<PERCENT, 50, 53>>, <<AMP, EQ>>, <<PLUS, 65>>, <<SPACE>>},
   cookies |-> {<<97>>, <<98>>, <<97, 98>>} \X {<<>>, <<97>>, <<SPACE, 97>>, <<EQ, 98>>},
   path    |-> {97, DOT, SLASH},
   url     |-> {97, DOT, SLASH, COLON, QUESTION, HASH},
   bytes   |-> {0, 1, 63, 64, 128, 255},
   search  |-> {1, 2},
   config  |-> {<<97>>, <<CLOSE>>, <<DOLLAR, 123, 97, CLOSE>>, <<DOLLAR, 123, 98, CLOSE>>}]

MCMaxParts ==
  [utf8 |-> 4, words |-> 6, query |-> 3, cookies |-> 3, path |-> 6, url |-> 5,
   bytes |-> 4, search |-> 7, config |-> 4]

MCDicts ==
  { << <<1>>, <<1, 2>>, <<2, 1>> >>, << <<1, 1, 2>>, <<1, 2>>, <<2>>, <<1, 2>> >>,
    << <<1, 2, 1, 2, 2>>, <<2, 1, 2>>, <<1>> >>, << <<1, 1>>, <<1, 1, 1>>, <<2, 2>> >>,
    << <<2, 1, 1>>, <<1, 1, 2, 1>>, <<1, 2, 1, 1>> >> }

MCEnv == (<<97>> :> <<98, 98>>) @@ (<<98>> :> <<>>)
=============================================================================
