---------------------------- MODULE MCRunEngine ----------------------------
(* A job that mirrors files and one that dumps two databases, in one location. *)
EXTENDS RunEngine

CONSTANTS files, db
MCJobs == {files, db}
MCFileJobs == {files}
=============================================================================
