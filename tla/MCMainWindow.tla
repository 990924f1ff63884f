---- MODULE MCMainWindow ----
(* A small instance of MainWindow. *)
EXTENDS MainWindow

CONSTANTS d1, d2

MCDevices == {d1, d2}
MCByName == <<d2, d1>>
====
