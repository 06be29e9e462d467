----------------------------- MODULE MCSession -----------------------------
(* A client that connects twice. Of the messages one has bytes that add up *)
(* to zero and lacks three bytes of its last DWORD, one is long enough for *)
(* the round to wrap, as long as the coders take, and fills its last       *)
(* DWORD, and one is a byte longer.                                        *)
EXTENDS Session

\* An echo and two chat messages: four bytes of command and the body.
Chat(n) == << 1, 0, 3, 0 >> \o [i \in 1..n |-> 32 + i]
MCMessages == {<< 1, 0, 1, 0, 254 >>, Chat(92), Chat(93)}
MCRandoms == {0, 40961}
=============================================================================
