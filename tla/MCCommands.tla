------------------------------ MODULE MCCommands ------------------------------
(* Small instances of Commands for TLC.                                    *)
EXTENDS Commands

CONSTANTS r1, r2, r3, r4
=============================================================================
