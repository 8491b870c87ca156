----------------------------- MODULE MCMrtQuant -----------------------------
(***************************************************************************)
(* Both generations of the quantiser with the widths of the tool scaled    *)
(* down: 14 bits for 32, precisions 3 and 5 for 8 and 16.                  *)
(***************************************************************************)
EXTENDS MrtQuantV2

AllOps == CountedOps \cup {"batch_dot"}
=============================================================================
