------------------------------ MODULE MCHashes ------------------------------
(***************************************************************************)
(* The hash functions for TLC.                                             *)
(*                                                                         *)
(* SHA3: lanes of 2 bytes, a rate of 3 lanes; slices up to two blocks and  *)
(* a byte; outputs that end at, before and behind a lane and a block.      *)
(* Blake2b: blocks of 4 bytes, counter words that wrap at 8, slices up to  *)
(* two blocks and a byte.  Blake3: chunks of two blocks of four bytes, a   *)
(* stack of three entries, so that the ninth chunk is too many; slices     *)
(* that end in, at and behind the ends of blocks, chunks and subtrees.     *)
(* Blake2bLong: half digests of 4 bytes, every output length up to a limit *)
(* of 16 of them and one byte past it.                                     *)
(***************************************************************************)
EXTENDS Hashes

MCOutLens == 0 .. 65

MCDomains    == {6, 31}
MCFixedLens  == {0, 3, 4, 6}
MCXofLens    == {0, 1, 5, 6, 7, 12, 13}
MCSpongeLens == 0 .. 13

MCHashLens   == 0 .. 3
MCKeyLens    == 0 .. 3
MCBlake2Lens == 0 .. 9

MCTreeLens    == {0, 1, 3, 8, 21}
MCTreeOutLens == {0, 3, 4, 9, 13}
=============================================================================
