--------------------------- MODULE MCCompressedOops ---------------------------
(* Instances of CompressedOops for TLC: 32 bytes make a "gigabyte". *)
EXTENDS CompressedOops

\* 1 GB, exactly 3 GB and one byte more, exactly 31 GB and one byte more, 32 GB and
\* one byte more: both sides of each comparison of the layout.
BoundarySizes == {OneG, 3 * OneG, 3 * OneG + 1, 31 * OneG, 31 * OneG + 1,
                  32 * OneG, 32 * OneG + 1}
===============================================================================
