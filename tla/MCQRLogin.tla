----------------------------- MODULE MCQRLogin -----------------------------
(* Instances of QRLogin for TLC. *)
EXTENDS QRLogin

CONSTANTS p1, p2
=============================================================================
