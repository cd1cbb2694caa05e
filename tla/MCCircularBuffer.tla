-------------------------- MODULE MCCircularBuffer --------------------------
(* CircularBuffer for TLC: the values of bytes are interchangeable.        *)
EXTENDS CircularBuffer, TLC

Symmetry == Permutations(Byte)
=============================================================================
