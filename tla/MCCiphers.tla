----------------------------- MODULE MCCiphers -----------------------------
(***************************************************************************)
(* The symmetric ciphers for TLC.                                          *)
(*                                                                         *)
(* ChaCha20: blocks of two bytes, a counter that wraps after four of them, *)
(* objects that give out up to six.  Poly1305: blocks of 4 bytes, slices   *)
(* up to two blocks and a byte.  The AEADs: up to two packets; the counter *)
(* of GCM has 5 values, so that the longest text that either may encrypt,  *)
(* and one byte more, are among the texts; these end inside, at and behind *)
(* the ends of blocks, and with what zero padding could be taken for.  CTR *)
(* and CBC: blocks of two bytes, three values of the counter, texts of no, *)
(* of whole and of broken blocks, and buffers shorter and longer than they.*)
(***************************************************************************)
EXTENDS Ciphers

MCStarts    == 0 .. 3
MCDataLens  == 0 .. 7
MCSliceLens == 0 .. 9

A == Letter("a")
MCNonces     == {0, 1}
MCAads       == {<<>>, <<A>>, <<A, Zero>>, <<A, A, Zero>>}
MCPlaintexts == {<<>>, <<Zero>>, <<A>>, <<A, A>>, <<A, A, Zero, A, A>>,
                 <<A, A, A, A, A, A, A>>}
MCRooms      == {0, 2, 5, 8}

MCInitialCounters == {1, 2}
MCModeTexts == {[i \in 1 .. n |-> IF (i \div 2) % 2 = 0 THEN A ELSE Letter("b")] :
                n \in {0, 1, 2, 4, 5, 6}}
MCModeRooms == {0, 1, 3, 4, 6, 7}
=============================================================================
