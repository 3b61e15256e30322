----------------------------- MODULE MCTransfers -----------------------------
(* Instances of Transfers for TLC.                                         *)
EXTENDS Transfers
CONSTANTS t1, t2, b1, b2, a, b

\* One batch of two directories with one name, from two places: d/a and d/b of the
\* first, d/a of the second.
TwoDirs == t1 :> <<a, b>> @@ t2 :> <<a>>
OneBatch == t1 :> b1 @@ t2 :> b1

\* Two files of two batches.
TwoFiles == t1 :> <<a>> @@ t2 :> <<b>>
Alone == t1 :> b1 @@ t2 :> b2
=============================================================================
