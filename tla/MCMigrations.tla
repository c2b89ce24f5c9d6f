---------------------------- MODULE MCMigrations ----------------------------
(***************************************************************************)
(* Instances of Migrations for TLC: an upgrade in June 2026.               *)
(***************************************************************************)
EXTENDS Migrations

CONSTANTS w1, w2, r1, r2

Six == <<2026, 6>>
MCCalendar == <<Six, <<2026, 12>>, <<2027, 1>>>>

\* With or without tables among what a document is made into; a row of jobs.
Document == <<"documents", "chunks", "entities">>
WithTables == <<"chunks", "documents", "entities">>
Job == <<"jobs">>

Asks(month, dry) == [month |-> month, dry |-> dry]
NoMonth == Asks(<<2026, 13>>, FALSE)

Input(a, b, c, d, e) ==
  [order |-> [w \in Writers |-> IF w = w1 THEN a ELSE b],
   call |-> [r \in Runs |-> IF r = r1 THEN c ELSE d], exempt |-> e]

\* Documents while the upgrade runs; and jobs, with two runs of the script that may
\* be for the same month.
MCInputs ==
  {Input(a, WithTables, NoMonth, Asks(None, TRUE), e) : a \in {Document, WithTables}, e \in BOOLEAN}
    \cup {Input(Job, Job, Asks(None, FALSE), Asks(<<2027, 1>>, FALSE), TRUE)}
=============================================================================
