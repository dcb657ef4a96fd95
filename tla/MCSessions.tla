----------------------------- MODULE MCSessions -----------------------------
(***************************************************************************)
(* One browser, two tabs; Ann used it last, Bob has an account as well.    *)
(***************************************************************************)
EXTENDS Sessions, TLC

CONSTANTS t1, t2, ann, bob

OneBrowser == t1 :> 1 @@ t2 :> 1
Ann == <<ann>>

FewIfOverlapping == TRUE :> 5 @@ FALSE :> 3
=============================================================================
