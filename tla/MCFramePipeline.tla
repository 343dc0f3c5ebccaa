--------------------------- MODULE MCFramePipeline ---------------------------
(* FramePipeline.tla for TLC: cells and buffers are interchangeable.        *)
EXTENDS FramePipeline, TLC

Symmetry == Permutations(Cells) \cup Permutations(Buffers)
=============================================================================
