------------------------------- MODULE MCServe -------------------------------
(* Instances of Serve for TLC: the record universe follows from the other  *)
(* constants, and a replay key of LongKey makes a line too long to scan.   *)
EXTENDS Serve, TLC

CONSTANT LongKey

MCRec ==
    [t : {"spend"}, epoch : Epoch, nonce : BurnNonce]
        \cup [t : {"pvt"}, key : ReplayKey]
        \cup [t : {"budget"}, key : BudgetKey, amount : 1..MaxCount,
              limit : Limit, unix : 0..MaxTime]
MCTooLong == [t : {"pvt"}, key : LongKey]

HandlerSymmetry == Permutations(Handler)
=============================================================================
