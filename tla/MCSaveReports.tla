--------------------------- MODULE MCSaveReports ---------------------------
(* The slots of MCSaveTransaction, with the reports remembered.               *)
EXTENDS MCSaveTransaction, SaveReports
=============================================================================
