------------------------------ MODULE MCKGIngest ------------------------------
(***************************************************************************)
(* Instances of KGIngest for TLC.                                          *)
(***************************************************************************)
EXTENDS KGIngest, TLC

\* Processes that run the same command are alike, and so are the headers.
Alike ==
  Permutations(Adders) \union Permutations(Hooks) \union Permutations(Savers)
    \union Permutations(Headers)

\* Every race of two processes, with others before and after.
TwoAtOnce == Cardinality({p \in Processes : proc[p].at # "idle"}) <= 2

\* The date is only a part of a file's name: it makes a difference only where a file would
\* be opened again.  Once a rewrite was disturbed, it stands still.
DayMatters ==
  today' # today =>
    /\ ~disturbed
    /\ \E p \in Processes : proc[p].at = "write" /\ raw[<<proc[p].source, today>>] # "none"
===============================================================================
