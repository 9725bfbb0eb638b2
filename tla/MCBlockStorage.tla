--------------------------- MODULE MCBlockStorage ---------------------------
(***************************************************************************)
(* Instances of BlockStorage for TLC: blocks of 2 bytes, a 4-bit uint64_t  *)
(* and files of at most 5 bytes, so that a file may end within a block.    *)
(***************************************************************************)
EXTENDS BlockStorage

\* 0 and 1 may be in the file or behind its end, 8 * BLOCK_SIZE wraps around
\* to 0.
MCBlockNumbers == {0, 1, 8}

\* For the runs about one file: no wrapped number.
MCSmallNumbers == {0, 1}

=============================================================================
