----------------------- MODULE MCNestProcessorManager -----------------------
(***************************************************************************)
(* NestProcessorManager on small instances.                                *)
(***************************************************************************)
EXTENDS NestProcessorManager

CONSTANTS sighup, http

MCReloader == {sighup, http}

\* A configuration is its rotation interval.
MCConfig == {1, 3}
MCInterval == [c \in MCConfig |-> c]
MCLong == 4

=============================================================================
