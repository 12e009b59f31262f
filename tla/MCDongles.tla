------------------------------ MODULE MCDongles ------------------------------
(* Instances of Dongles.                                                     *)
EXTENDS Dongles
=============================================================================
