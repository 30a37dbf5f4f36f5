----------------------------- MODULE MCPutaway -----------------------------
(***************************************************************************)
(* Small instances of putaway.                                             *)
(***************************************************************************)
EXTENDS Putaway, TLC

CONSTANTS LocA, LocB, LocC

\* LocA takes two units by weight, LocB one by volume; LocC is of another type.
LimitTwoOne ==
  LocA :> [weight |-> 2, volume |-> 3]
  @@ LocB :> [weight |-> 2, volume |-> 1]
  @@ LocC :> [weight |-> 9, volume |-> 9]

\* No guard reads emitted: states that differ only there behave alike.
Tables == <<stocks, load, revision, answer, status, known, jobs, worker, mutex,
            channel, parked, failures>>

\* Instances of the placement service are interchangeable.
WorkerSymmetry == Permutations(Workers)
=============================================================================
