------------------------------ MODULE MCFileKeys ------------------------------
(* Instances of FileKeys for TLC.                                              *)
EXTENDS FileKeys, TLC

CONSTANTS f1, f2

Pair(from1, name1, size1, from2, name2, size2) ==
    f1 :> [from |-> from1, name |-> name1, size |-> size1]
        @@ f2 :> [from |-> from2, name |-> name2, size |-> size2]

A == <<"a">>            \* "a"
AX == <<"a", "x">>      \* "a:x"
AY == <<"a", "y">>
B == <<"b">>
BX == <<"b", "x">>

\* Each pair of names and directions that shares keys in another way, and
\* four that share none; the longer files are longer than the window.
SomeCases ==
    {Pair(1, A, 2, 2, A, 3), Pair(1, AX, 1, 1, AY, 3), Pair(1, A, 2, 1, AX, 2),
     Pair(1, AX, 3, 2, A, 2), Pair(1, AX, 3, 2, AX, 2), Pair(1, AX, 3, 1, BX, 1),
     Pair(1, A, 3, 2, B, 3), Pair(1, A, 3, 2, BX, 2), Pair(1, AX, 3, 1, B, 2)}

===============================================================================
