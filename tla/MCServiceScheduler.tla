--------------------------- MODULE MCServiceScheduler ---------------------------
(* TLC instance of ServiceScheduler.                                           *)
EXTENDS ServiceScheduler

CONSTANTS c1, c2

\* A fence and a guarded exit.
FenceAndCancel == (c1 :> "FenceSessionOwner" @@ c2 :> "CancelIbOrder")

=============================================================================
