---------------------------- MODULE MCPackUpload ----------------------------
(***************************************************************************)
(* An instance of PackUpload for TLC: one file in a directory of its own,  *)
(* one in the destination itself, and one empty directory.                 *)
(***************************************************************************)
EXTENDS PackUpload, TLC

CONSTANTS f1, f2, d1, e1      \* model values

OneInEach == (f1 :> d1) @@ (f2 :> "root")
=============================================================================
