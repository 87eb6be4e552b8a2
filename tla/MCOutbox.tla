------------------------------- MODULE MCOutbox -------------------------------
(* Small instances of Outbox. *)
EXTENDS Outbox, TLC

CONSTANTS i1, i2, w1, w2

OneId      == {i1}
TwoIds     == {i1, i2}
TwoWorkers == {w1, w2}

IdAndWorkerSymmetry == Permutations(Ids) \union Permutations(Workers)
===============================================================================
