---------------------------- MODULE MCHttpReceive ----------------------------
(* Instances of HttpReceive for TLC, with words of one or two letters.       *)
EXTENDS HttpReceive

MCMethods  == {<<"G", "T">>, <<"G", "O">>, <<"C", "T">>}
MCCONNECT  == <<"C", "T">>
MCHTTP     == <<"H", "/">>
MCCONNECTION        == <<"c", "o">>
MCPROXY_CONNECTION  == <<"p", "c">>
MCCONTENT_LENGTH    == <<"c", "l">>
MCTRANSFER_ENCODING == <<"t", "e">>
MCUPGRADE    == <<"u", "p">>
MCCHUNKED    == <<"c", "h">>
MCKEEP_ALIVE == <<"k", "a">>
MCCLOSE      == <<"c", "e">>

EOL == <<CR, LF>>
Get == <<"G", "T", SP, "/", "a", "?", "b", SP, "H", "/", "1", ".", "1", CR, LF>>
Old == <<"G", "T", SP, "/", LF>>

Pipelined == Get \o <<"h", ":", SP, "v">> \o EOL \o EOL \o <<"G", "O", SP, "*", SP, "H", "/", "1", ".", "1", LF, LF>>
Length    == Get \o <<"C", "l", ":", SP, "2", SP, CR, LF, CR, LF, "x", "y">> \o Old \o EOL
Folded    == <<"G", "T", SP, "/", SP, "H", "/", "1", ".", "1", LF, "c", "l", ":", "1", LF, SP, "2", LF,
               "n", ":", LF, LF, "x", CR>>
Chunks    == Get \o <<"T", "e", ":", "c", "H", SP, CR, LF, CR, LF, "1", ";", "e", CR, LF, "a", CR, LF,
               "2", CR, LF, "b", "c", CR, LF, "0", CR, LF, "n", ":", "v", CR, LF, CR, LF, "G">>
Closing   == Get \o <<"c", "o", CR, LF, SP, "c", "E", SP, CR, LF, CR, LF, CR, LF, "G">>
KeepOld   == <<"G", "T", SP, "h", ":", "/", "/", "a", "@", "b", "/", "#", "f", SP, "H", "/", "1", ".", "0", LF,
               "p", "c", ":", "k", "a", LF, LF, "G", "T", SP, "/", CR, LF, CR, LF>>
TwoLengths == Old \o <<"c", "l", ":", "1", LF, "c", "l", ":", "2", LF, LF, "x", "y">>
BlankLine == Old \o <<"c", "l", ":", "1", LF, SP, LF, SP, "2", LF, LF, "x", "y">>
TooLong   == Old \o <<"c", "l", ":", "6", "6", CR, LF, CR, LF, "x", "y">>
ChunkTooLong == Old \o <<"t", "e", ":", "c", "h", CR, LF, CR, LF, "3", "3", CR, LF, "x">>
Upgraded  == Get \o <<"U", "p", ":", "x", CR, LF, CR, LF>> \o Old \o EOL
Tunnel    == <<"C", "T", SP, "a", ":", "1", SP, "H", "/", "1", ".", "1", CR, LF, CR, LF, "z">>
Nuls      == Get \o <<"h", ":", SP, "v", NUL, "w", CR, LF, "c", "l", ":", "3", CR, LF, CR, LF, "x", NUL, "y">>
               \o <<"G", "O", SP, "*", NUL>>
Overflow  == Get \o [i \in 1 .. 30 |-> "n"]
Malformed == {<<"X">>, <<"G", "X">>, <<"G", "T", SP, "?">>, <<"G", "T", SP, "h", SP>>,
              <<"G", "T", SP, "/", SP, "X">>, <<"G", "T", SP, "/", SP, "H", "/", "0">>,
              <<"G", "T", SP, "/", SP, "H", "/", "1", "2", ".", "x">>,
              <<"G", "T", SP, "/", SP, "H", "/", "1", ".", "2", "3", CR, "x">>,
              Old \o <<"a", "(">>, Old \o <<"(">>, Old \o <<"c", "l", ":", "x">>,
              Old \o <<"c", "l", ":", "1", "x">>, Old \o <<"n", ":", "v", CR, "x">>,
              Old \o <<CR, "x">>, Old \o <<"t", "e", ":", "c", "h", LF, LF, "g">>,
              Old \o <<"t", "e", ":", "c", "h", LF, LF, "1", "g">>,
              Old \o <<"t", "e", ":", "c", "h", LF, LF, "1", CR, LF, "a", "x">>,
              Old \o <<"t", "e", ":", "c", "h", LF, LF, "1", CR, LF, "a", CR, "x">>,
              Old \o <<"t", "e", ":", "c", "h", LF, LF, "1", SP, CR, "x">>}

AllStreams == {Pipelined, Length, Folded, Chunks, Closing, KeepOld, TwoLengths,
               BlankLine, TooLong, ChunkTooLong, Upgraded, Tunnel, Nuls, Overflow} \cup Malformed
Bodies     == {Length}
=============================================================================
