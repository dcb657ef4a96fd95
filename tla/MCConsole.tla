------------------------------ MODULE MCConsole ------------------------------
(***************************************************************************)
(* A calm user goes further than one who does not wait.                    *)
(***************************************************************************)
EXTENDS Console, TLC

Moves == TRUE :> 3 @@ FALSE :> 2
Changes == TRUE :> 2 @@ FALSE :> 1
==============================================================================
