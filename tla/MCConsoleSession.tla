-------------------------- MODULE MCConsoleSession --------------------------
(* Scopes that are nested a few levels deep.                               *)
EXTENDS ConsoleSession
=============================================================================
