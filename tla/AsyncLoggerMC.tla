--------------------------- MODULE AsyncLoggerMC ---------------------------
(***************************************************************************)
(* Instances of AsyncLogger for TLC.                                       *)
(***************************************************************************)
EXTENDS AsyncLogger

CONSTANTS main, producer

MCLoggers == {main, producer}

Case(policy, mayFail, mains, producers) ==
    [policy |-> policy, mayFail |-> mayFail,
     calls |-> [t \in MCLoggers |-> IF t = main THEN mains ELSE producers]]

\* Two threads fill the queue and one of them waits; one thread alone does, and
\* the worker fails; a record is dropped.
MCSetups == {Case("Block", FALSE, 1, 2), Case("Block", TRUE, 0, 3),
             Case("DropNewest", FALSE, 0, 3)}

\* One record.
StopSetups == {Case("Block", FALSE, 0, 1)}
=============================================================================
