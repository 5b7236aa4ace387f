------------------------------ MODULE MCPromise ------------------------------
(* A small instance of Promise for TLC.                                    *)
EXTENDS Promise
=============================================================================
