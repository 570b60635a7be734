----------------------------- MODULE MCFileLock -----------------------------
(* Two processes.                                                            *)
EXTENDS FileLock
=============================================================================
