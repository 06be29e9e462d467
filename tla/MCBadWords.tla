----------------------------- MODULE MCBadWords -----------------------------
(* Words that overlap, that begin with one another, that are others put     *)
(* together, and one with a "*" (bin/list.txt:265); lists with and without a *)
(* last newline, and with a line that ends in a space (bin/list.txt:81).    *)
EXTENDS BadWords

CONSTANTS a, b

MCChars == {a, b, Mask, Space}
MCWords == {<<a, b>>, <<b, a>>, <<a, b, b>>, <<b, Mask>>}
MCTexts == UNION {[1..n -> {a, b, Mask}] : n \in 0..5} \cup [1..3 -> MCChars]
MCFiles == { << <<>> >>, << <<a, b, b>>, <<b, a, Space>>, <<>> >>, << <<a, b, b, Space>>, <<a, b>> >> }
=============================================================================
