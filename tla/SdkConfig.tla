----------------------------- MODULE SdkConfig ------------------------------
(***************************************************************************)
(* The ring degree and what a matrix may measure.                          *)
(***************************************************************************)
EXTENDS SdkShape

CONSTANT N   \* ring degree, 4096

ASSUME DegreeAssumption == \E k \in 2..12 : N = 2^k

kMaxNumRows == N
kMaxNumCols == 4 * N

(* check_config of MVPPublicImpl (encrypt, add, decrypt)...                *)
public_config_ok(s) ==
  /\ s.nrows # 0 /\ s.ncols # 0
  /\ s.nrows <= kMaxNumRows
  /\ s.ncols <= kMaxNumCols
  /\ s.ncols * s.nrows < 3 * N * N

(* ... and of MVPPrivImpl (multiply).                                      *)
config_ok(s) == public_config_ok(s) /\ s.nrows >= 2
=============================================================================
