----------------------------- MODULE MCPomTree ------------------------------
(* Instances of PomTree for TLC.                                           *)
EXTENDS PomTree

\* Chunks of four bytes.  Tensors lie in the file in another order than their names',
\* some have a tail, one is shorter than a chunk, first, last or in the middle.
SmallFile == << [off |-> 30, len |-> 9], [off |-> 0, len |-> 3], [off |-> 10, len |-> 14] >>    \* 5 chunks
TailFile == << [off |-> 0, len |-> 2], [off |-> 40, len |-> 24], [off |-> 4, len |-> 12] >>     \* 9 chunks
EvenFile == << [off |-> 0, len |-> 32] >>                                                       \* 8 chunks
DeepFile == << [off |-> 60, len |-> 17], [off |-> 0, len |-> 52], [off |-> 90, len |-> 1] >>    \* 17 chunks
Files == {SmallFile, TailFile, EvenFile, DeepFile}
=============================================================================
