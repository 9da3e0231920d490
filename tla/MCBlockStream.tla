--------------------------- MODULE MCBlockStream ---------------------------
(* BlockStream on small instances: short blocks, a header of two bytes, and *)
(* socket buffers smaller than the longest frame.                           *)
EXTENDS BlockStream

\* Every list of up to three blocks of one to three bytes, the empty one too.
MCLists == UNION {[1..n -> 1..3] : n \in 0..3}

\* A few of them, for a server that may read any number as a length.
FewLists == {<< >>, <<1, 2>>, <<3>>, <<2, 1, 1>>}

\* One block as long as block_length can say, and one a byte shorter.
LongestLists == {<<Modulus - 1>>, <<Modulus - 2, 1>>}
=============================================================================
