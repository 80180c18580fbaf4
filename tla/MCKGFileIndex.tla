----------------------------- MODULE MCKGFileIndex -----------------------------
(***************************************************************************)
(* Instances of KGFileIndex for TLC.                                       *)
(***************************************************************************)
EXTENDS KGFileIndex, TLC

CONSTANTS a, b, f1

\* Two files in different directories, with one bare name.
MCFiles == {a, b}
MCNames == {a}
MCBaseName == [f \in MCFiles |-> a]

\* A file defines one function, or nothing.
MCBodies == {{}, {f1}}

\* A scan of the command line is combined with one edit or fault.
OneRival == (\A p \in Cli : scan[p].at = "idle") \/ edits + faults <= 1
================================================================================
