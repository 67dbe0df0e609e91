--------------------------- MODULE MCWingmateMain ---------------------------
(***************************************************************************)
(* Small instances of WingmateMain: one process, up to two requests.       *)
(***************************************************************************)
EXTENDS WingmateMain
=============================================================================
