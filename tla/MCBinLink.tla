------------------------------ MODULE MCBinLink ------------------------------
(* Instances of BinLink for TLC.  Base 2: digits 0 and 1, newline 2,       *)
(* keepalive 3, Upgrade 4, and 5 for a letter of the handshake.  The       *)
(* messages are made of the bytes that also frame them.                    *)
EXTENDS BinLink, TLC

Letters == <<5, 3>>

Two  == {1, 2}
Four == {1, 2, 3, 4}

\* "k"; a digit and a newline; "k", newline, digit; one byte more than the limit
Dumps   == (1 :> <<3>>) @@ (2 :> <<1, 2>>) @@ (3 :> <<3, 2, 0>>) @@ (4 :> <<1, 1, 2, 3>>)
Dumps2  == (1 :> <<3>>) @@ (2 :> <<1, 2>>)

\* no byte; a newline; a digit before a newline; a keepalive
Answers == (<<3>> :> <<>>) @@ (<<1, 2>> :> <<2>>) @@ (<<3, 2, 0>> :> <<1, 2>>)
             @@ (<<1, 1, 2, 3>> :> <<3>>)

=============================================================================
