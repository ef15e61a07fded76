---------------------------- MODULE MCFileSystem ----------------------------
(***************************************************************************)
(* What the programs of the FileSystem runs write.                         *)
(***************************************************************************)
EXTENDS FileSystem

(* From an odd offset on it crosses the end of a sector. *)
TwoBytes == {<<1, 2>>}

OneByte == {<<1>>}
=============================================================================
