-------------------------- MODULE MCWorkerProcess --------------------------
(* Three callers who share two connections.                                   *)
EXTENDS WorkerProcess
=============================================================================
