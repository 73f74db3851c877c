---------------------------- MODULE BarrierRounds ----------------------------
(***************************************************************************)
(* What the synchronous collection barrier promises, without queue,        *)
(* sockets, epochs of single actors or fences: rounds to which every actor *)
(* contributes exactly once, whose decisions are then trained on, and      *)
(* after which the next policy version is released to all of them.         *)
(***************************************************************************)
EXTENDS Naturals

CONSTANTS Actors, MaxContribution

VARIABLES
    round,     \* the round being collected
    joined,    \* the actors that have contributed to it
    held,      \* decisions contributed to it and not trained on yet
    consumed,  \* decisions given to the learner in all rounds
    version,   \* the policy version that actors sample from
    phase      \* "collect", "train" or "ended"

vars == <<round, joined, held, consumed, version, phase>>

Init ==
    /\ round = 0 /\ joined = {} /\ held = 0 /\ consumed = 0
    /\ version = 0 /\ phase = "collect"

(* An actor contributes n decisions, once in a round.                      *)
Contribute(a, n) ==
    /\ phase = "collect" /\ a \notin joined
    /\ joined' = joined \cup {a} /\ held' = held + n
    /\ UNCHANGED <<round, consumed, version, phase>>

(* The next round opens, or the run ends.                                  *)
EndRound ==
    \/ /\ phase' = "collect" /\ round' = round + 1 /\ joined' = {}
    \/ /\ phase' = "ended" /\ UNCHANGED <<round, joined>>

(* Everyone is here: the learner takes the decisions.  A round without any *)
(* decision ends at once.                                                  *)
Take ==
    /\ phase = "collect" /\ joined = Actors
    /\ held' = 0 /\ consumed' = consumed + held /\ UNCHANGED version
    /\ \/ held > 0 /\ phase' = "train" /\ UNCHANGED <<round, joined>>
       \/ held = 0 /\ EndRound

(* Trained: a version at least as new is published and the round ends; or  *)
(* the training fails and nothing is published.                            *)
Release ==
    /\ phase = "train"
    /\ \/ version' >= version /\ version' \in Nat /\ EndRound
       \/ phase' = "ended" /\ UNCHANGED <<round, joined, version>>
    /\ UNCHANGED <<held, consumed>>

Next ==
    \/ \E a \in Actors, n \in 0..MaxContribution: Contribute(a, n)
    \/ Take \/ Release

Spec == Init /\ [][Next]_vars
=============================================================================
