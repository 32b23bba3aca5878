-------------------------- MODULE MCBlockAllocator --------------------------
(* Eight blocks from block 1, two bits of padding, every metadata layout. *)
EXTENDS BlockAllocator
=============================================================================
