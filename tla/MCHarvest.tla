------------------------------ MODULE MCHarvest ------------------------------
(* Instances of Harvest.  "third" alone is Europe PMC as configured by        *)
(* default: one expression, more records than a run has pages for, so that    *)
(* the next run resumes its window while others are listed after it.          *)
EXTENDS Harvest

Both == <<"first", "second">>

Configured == [s \in Sources |-> IF s = "europepmc" THEN {Both, <<"third">>} ELSE {Both}]

Six    == 1 .. 6
Placed == [r \in Six |-> IF r = 1 THEN "first" ELSE IF r <= 3 THEN "second" ELSE "third"]
=============================================================================
