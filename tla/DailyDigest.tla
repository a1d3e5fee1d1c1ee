----------------------------- MODULE DailyDigest -----------------------------
(***************************************************************************)
(* What the daily digest promises to the people who read it, with nothing  *)
(* of how the process arranges it: for every configured time of day (a     *)
(* slot, an instant of the UTC clock) the channel receives at most one     *)
(* digest, and never before that instant.  Whether the process was         *)
(* restarted, was slow or lost an answer is not visible here.              *)
(***************************************************************************)
EXTENDS Naturals

CONSTANT Slots          \* the instants, natural numbers, a digest may be due at

VARIABLES
    wall,               \* the UTC clock
    posted              \* posted[s]: digests the channel has received for slot s

dvars == <<wall, posted>>

Init ==
    /\ wall = 0
    /\ posted = [s \in Slots |-> 0]

\* Time passes; the clock never goes back.
Advance ==
    /\ wall' > wall
    /\ UNCHANGED posted

\* The channel receives the digest of slot s: it is due and was not there yet.
Post(s) ==
    /\ s <= wall
    /\ posted[s] = 0
    /\ posted' = [posted EXCEPT ![s] = 1]
    /\ UNCHANGED wall

Next == Advance \/ \E s \in Slots : Post(s)

Spec == Init /\ [][Next]_dvars

=============================================================================
