------------------------------ MODULE MCSecmem ------------------------------
(* Instances of Secmem for TLC.                                            *)
EXTENDS Secmem, TLC

\* Two words take a block of one granule, which has room for three; four take a
\* block of two, which has room for seven.
Sizes == {2, 4}
==============================================================================
