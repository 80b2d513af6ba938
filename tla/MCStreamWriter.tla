--------------------------- MODULE MCStreamWriter ---------------------------
(* Options for model checking StreamWriter.                                  *)
EXTENDS StreamWriter

CONSTANT Paddings   \* the values of the padding option

\* Every combination of the options with every padding.
AllOptions == [padding : Paddings, uncompressed : BOOLEAN, flushOnWrite : BOOLEAN,
               genIndex : BOOLEAN, appendIndex : BOOLEAN]
=============================================================================
