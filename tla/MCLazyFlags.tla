---------------------------- MODULE MCLazyFlags ----------------------------
(* Eight-bit operands.  The first instruction, which leaves its flags      *)
(* pending, runs over the values at which carries, borrows, signs and      *)
(* counts change; the second over the operands that tell a stale carry or  *)
(* a lost flag.                                                            *)
EXTENDS LazyFlags

Dest == {0, 1, 127, 128, 255}
Src  == {0, 1, 2, 8, 9, 255}

MCOperands == <<Dest \X Src, {<<255, 0>>, <<127, 1>>}>>
=============================================================================
