------------------------------ MODULE MCTexts -------------------------------
(***************************************************************************)
(* Texts for TLC: one text, asked for once, or again under a request id of *)
(* its own.                                                                *)
(***************************************************************************)
EXTENDS Texts, TLC

CONSTANTS r1, r2, t1

Once == (r1 :> t1)
Retried == (r1 :> t1) @@ (r2 :> t1)
=============================================================================
