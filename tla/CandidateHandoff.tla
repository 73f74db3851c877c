--------------------------- MODULE CandidateHandoff ---------------------------
(***************************************************************************)
(* What a distillation job promises of its candidates, without steps of a  *)
(* run, requests, replies and files: a candidate is captured, saved, and   *)
(* handed over.  The server activates a candidate at most once, after it   *)
(* was saved, and while the job still has it; the job lets go of it when   *)
(* the server has it, or, before any of that, to make room.                *)
(***************************************************************************)
EXTENDS Naturals, FiniteSets

CONSTANT Capacity    \* candidates that the job holds at most

VARIABLES
    shadow,       \* candidates are activated, not only uploaded
    waiting,      \* what the job holds; after a crash, what it last held
    saved,        \* what the newest snapshot holds
    copies,       \* what each of the snapshots holds
    admitted,     \* what the server has the bytes of
    activations,  \* the activations of the server, each with its name
    released      \* what the job let go of as handed over

vars == <<shadow, waiting, saved, copies, admitted, activations, released>>
server == <<admitted, activations>>
durable == <<saved, copies>>

Init ==
    /\ shadow \in BOOLEAN
    /\ waiting = {} /\ saved = {} /\ copies = {} /\ admitted = {} /\ activations = {}
    /\ released = {}

Activated == {x[2]: x \in activations}
Known == waiting \cup (UNION copies) \cup admitted \cup released

(* A new candidate; when there is no room, one that was not activated goes. *)
Capture ==
    /\ \E c \in waiting' \ Known:
         \/ waiting' = waiting \cup {c}
         \/ /\ Cardinality(waiting) >= Capacity
            /\ \E d \in waiting \ Activated: waiting' = (waiting \ {d}) \cup {c}
    /\ UNCHANGED <<shadow, durable, server, released>>

Save ==
    /\ saved' = waiting /\ copies' = copies \cup {waiting}
    /\ UNCHANGED <<shadow, waiting, server, released>>

Forget ==
    /\ copies' \subseteq copies /\ saved \in copies'
    /\ UNCHANGED <<shadow, waiting, saved, server, released>>

(* Only what is uploaded and not activated may be taken from an older one. *)
Resume ==
    /\ copies # {} /\ waiting' \in IF shadow THEN {saved} ELSE copies
    /\ UNCHANGED <<shadow, durable, server, released>>

Admit ==
    /\ \E c \in waiting: admitted' = admitted \cup {c}
    /\ UNCHANGED <<shadow, waiting, durable, activations, released>>

(* The bytes of what is activated are safe, and it was not activated yet.  *)
Activate ==
    /\ shadow
    /\ \E x \in activations':
         /\ x[2] \in (waiting \cap saved \cap admitted) \ Activated
         /\ activations' = activations \cup {x}
    /\ UNCHANGED <<shadow, waiting, durable, admitted, released>>

Upload ==
    /\ ~shadow
    /\ \E c \in waiting:
         admitted' = admitted \cup {c} /\ waiting' = waiting \ {c} /\ released' = released \cup {c}
    /\ UNCHANGED <<shadow, durable, activations>>

Release ==
    /\ shadow
    /\ \E c \in waiting \cap Activated:
         waiting' = waiting \ {c} /\ released' = released \cup {c}
    /\ UNCHANGED <<shadow, durable, server>>

Next == Capture \/ Save \/ Forget \/ Resume \/ Admit \/ Activate \/ Upload \/ Release

Spec == Init /\ [][Next]_vars
===============================================================================
