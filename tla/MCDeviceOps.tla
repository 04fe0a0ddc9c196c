---------------------------- MODULE MCDeviceOps ----------------------------
(* Small instances of DeviceOps for TLC.                                     *)
EXTENDS DeviceOps, ModularFloats

\* A matrix, one of a single column, batches of matrices, and queries: of one
\* batch and four heads, and of two batches whose heads share a key head.
Tensors == {<<2, 3>>, <<3, 1>>, <<2, 2, 2>>, <<1, 4, 2, 1>>, <<2, 2, 1, 2>>}
GroupedQueries == {<<1, 4, 2, 1>>}
TokenIds == {<<1, 2>>, <<2, 2>>, <<2, 3>>}
NoTokenIds == {}
=============================================================================
