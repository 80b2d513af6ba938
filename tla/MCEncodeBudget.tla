--------------------------- MODULE MCEncodeBudget ---------------------------
(* Sizes for model checking EncodeBudget.                                     *)
EXTENDS EncodeBudget

\* Around every length at which the limit, the buffer or a header changes.
SomeSizes == {16, 17, 32, 64, 127, 128, 160, 256, 300, 320}
SomeLits == {0, 1, 3, 4, 5, 29, 30, 284, 285}
SomeWidths == {4, 5, 7, 8, 9, 12, 34, 35, 64, 289, 290}
=============================================================================
