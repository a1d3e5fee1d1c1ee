-------------------------------- MODULE Values --------------------------------
(***************************************************************************)
(* What the tasks compute from the values they read: fee.go, funding.go    *)
(* and chainlink.go compute gauges from more than one of them.             *)
(***************************************************************************)
EXTENDS Integers, Sequences, FiniteSets, SequencesExt

CONSTANT Word       \* 2^64, the modulus of the feed's age

AbsSub(a, b) == IF a >= b THEN a - b ELSE b - a

\* Mutated form: the larger side, not the larger magnitude.
AbsMaxSigned(a, b) == IF a >= b THEN a ELSE b

AbsMax(a, b) ==
    LET aa == AbsSub(a, 0)
        bb == AbsSub(b, 0)
    IN IF aa >= bb THEN aa ELSE bb

\* Mutated form: a feed ahead of the host's clock is not told apart.
FeedAgeUnguarded(now, updatedAt) == (now - updatedAt) % Word

FeedAge(now, updatedAt) == IF now > updatedAt THEN (now - updatedAt) % Word ELSE 0

-----------------------------------------------------------------------------
(* What the help texts of the metrics say of the values v.                  *)

Claimable(v, ms) == SumFunctionOnSet(v, ms)
Magnitude(v) == Max({v["long"], -v["long"], v["short"], -v["short"]})
Distance(v) == Max({v["long"] - v["short"], v["short"] - v["long"]})

=============================================================================
