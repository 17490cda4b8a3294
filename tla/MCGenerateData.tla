------------------------------ MODULE MCGenerateData ------------------------------
(* An instance of GenerateData for TLC.                                      *)
EXTENDS GenerateData

\* Three months of different lengths.
ShortYear == <<3, 5, 3>>
=============================================================================
