----------------------------- MODULE MCJobQueue -----------------------------
(***************************************************************************)
(* Small instances of JobQueue: the two queues of the backend.             *)
(***************************************************************************)
EXTENDS JobQueue, TLC

CONSTANTS flush, webhook, j1, j2, w1, w2

MCBothQueues == <<flush, webhook>>
MCOneQueue == <<flush>>
MCQueueOfBoth == (j1 :> flush) @@ (j2 :> webhook)
MCQueueOfOne == (j1 :> flush) @@ (j2 :> flush)

MCSymmetry == Permutations(Workers)
=============================================================================
