--------------------------- MODULE WrapperBlocks ----------------------------
(***************************************************************************)
(* How python/wrapper.cc cuts a matrix and its vectors into blocks.        *)
(* MatVec, UpdateVector and Decrypt each compute the row blocks anew.      *)
(***************************************************************************)
EXTENDS SdkConfig

CONSTANTS
  BLK_NROWS,  \* 4096
  BLK_NCOLS   \* 8192

ASSUME BlockSizeAssumption ==
  /\ BLK_NROWS \in 3..N
  /\ BLK_NCOLS \in 1..(4 * N)

(* current_row_dims of the block that begins at row i of len.              *)
RowDims(len, i) ==
  IF i + BLK_NROWS > len THEN len - i
  ELSE IF i + BLK_NROWS = len - 1 THEN BLK_NROWS - 1
  ELSE BLK_NROWS

(* current_col_dims, and vector_dims of EncryptVector.                     *)
ColDims(len, i) == IF i + BLK_NCOLS > len THEN len - i ELSE BLK_NCOLS

row_index_floor(i) == i \div BLK_NROWS   \* mutant: rounds down

row_index(i) == CeilDiv(i, BLK_NROWS)
ct_index(i)  == CeilDiv(i, BLK_NCOLS)
=============================================================================
