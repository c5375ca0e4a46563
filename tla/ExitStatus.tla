------------------------------ MODULE ExitStatus ------------------------------
(***************************************************************************)
(* What every way through main shares: the exit status of the process.     *)
(***************************************************************************)
EXTENDS Naturals

VARIABLE status

\* Not an exit status, nor anything else a number stands for.
None == 1000

Running == status = None

\* Success, an error, a wrong command line (clap), a panic; or still running.
StatusOK == status \in {0, 1, 2, 101, None}
================================================================================
