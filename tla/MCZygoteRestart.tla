--------------------------- MODULE MCZygoteRestart ---------------------------
(* ZygoteRestart with a short window and few starts: see the .cfg file.    *)
EXTENDS ZygoteRestart
=============================================================================
