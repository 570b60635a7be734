------------------------------ MODULE MCConfig ------------------------------
(* A daemon, a DirectBackend and a command.                                  *)
EXTENDS ConfigFile
=============================================================================
