--------------------------- MODULE MCWorkerThread ---------------------------
(* Small instances of WorkerThread: the owner of fetch may wait for its work, *)
(* that of decode does not.                                                  *)
EXTENDS WorkerThread, TLC
CONSTANTS fetch, decode
=============================================================================
