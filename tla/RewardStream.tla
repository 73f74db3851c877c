---------------------------- MODULE RewardStream ----------------------------
(***************************************************************************)
(* How an actor admits the reward intervals of the lives it is given:      *)
(* parse_reward and RewardStream of pyrl_trainer/reward_contract.py, with  *)
(* the assignment, reclaim and closure handling of agent.py that decides   *)
(* which of accept, rebase and discard_closure an interval goes through.   *)
(*                                                                         *)
(* The native server is the environment: it steps the physics of a life,   *)
(* accepts, applies and supersedes commands, and reports consecutive       *)
(* intervals.  Reports that the actor has not read are lost with its       *)
(* socket.  Beyond that a bounded number of reports may be lost or         *)
(* repeated on a live connection, which the stream has to notice.          *)
(*                                                                         *)
(* Identity of run, world, lease and snake is one life number; a command   *)
(* is its action identity, which increases as its native sequence does.    *)
(***************************************************************************)
EXTENDS Integers, Sequences, FiniteSets, SequencesExt

CONSTANTS
    MaxLives,   \* bound: lives assigned
    MaxStep,    \* bound: physical steps of a life
    MaxReports, \* bound: reports of a life
    MaxId,      \* bound: commands issued
    MaxChan,    \* bound: messages the actor has not read yet
    MaxGaps,    \* bound: failures of the socket and replacements of the world
    MaxFaults   \* bound: reports lost or repeated on a live connection

ASSUME StreamAssumption ==
    /\ MaxLives \in Nat \ {0} /\ MaxStep \in Nat /\ MaxReports \in Nat /\ MaxId \in Nat
    /\ MaxChan \in Nat \ {0} /\ MaxGaps \in Nat /\ MaxFaults \in Nat

VARIABLES
    server,  \* the life in the world, its control and what it last reported
    socket,  \* "down", "up" or "refused": the join was answered by a refusal
    chan,    \* messages on their way to the actor
    gaps,    \* failures of the socket and replacements of the world so far
    faults,  \* reports lost or repeated on a live connection so far
    actor,   \* the actor's admission state
    paid     \* history: the intervals of its life whose reward it has counted, in order

vars == <<server, socket, chan, gaps, faults, actor, paid>>

-----------------------------------------------------------------------------
None == -1    \* no predecessor, boundary or baseline
Lives == 1..MaxLives
Closures == {"closure"}    \* of a life that ended or was truncated

NoControl ==
    [acceptedCount |-> 0, accepted |-> 0, appliedCount |-> 0, applied |-> 0, first |-> None,
     supersededCount |-> 0, source |-> "none", selected |-> None]

NewLife(n) ==
    [life |-> n, alive |-> TRUE, step |-> 0, length |-> 1, waiting |-> FALSE,
     control |-> NoControl, sequence |-> 0, reportedStep |-> 0, reportedLength |-> 1]

(* RewardStream: nothing of a life is known before its first interval.     *)
NewStream == [life |-> 0, sequence |-> None, step |-> None, closed |-> FALSE,
              length |-> None, control |-> NoControl]

NewActor == [snake |-> 0, stream |-> NewStream, rebase |-> FALSE, observed |-> FALSE,
             closed |-> FALSE, integrity |-> TRUE, last |-> NoControl, counter |-> 0,
             fatal |-> FALSE]

Init ==
    /\ server = [NewLife(0) EXCEPT !.alive = FALSE] /\ socket = "down" /\ chan = <<>>
    /\ gaps = 0 /\ faults = 0 /\ actor = NewActor /\ paid = <<>>

-----------------------------------------------------------------------------
(* parse_reward: an interval taken by itself.                              *)

LifecycleOK(e) ==
    /\ e.previous # None => e.sequence > e.previous
    /\ e.kind = "initial" => e.previous = None /\ e.from = e.to /\ e.growth = 0
    /\ e.kind # "initial" => e.previous # None

(* Counts conserve: a command that was accepted has been applied, has been *)
(* superseded, or is the latest one.                                       *)
CountsConserve(c) ==
    LET unapplied == c.accepted # 0 /\ c.applied # c.accepted
        pending == c.acceptedCount - c.appliedCount - c.supersededCount
    IN /\ pending \in 0..(IF unapplied THEN 1 ELSE 0)
       /\ unapplied /\ pending = 0 => c.supersededCount # 0

ControlOK(c, cutoff) ==
    /\ (c.source = "none") = (c.selected = None) /\ c.selected < cutoff
    /\ (c.accepted = 0) = (c.acceptedCount = 0) /\ (c.applied = 0) = (c.appliedCount = 0)
    /\ c.applied # 0 => c.selected # None /\ c.first <= c.selected
    /\ c.source = "held" => c.applied # 0
    /\ c.applied # 0 => c.accepted # 0 /\ c.applied <= c.accepted
    /\ CountsConserve(c)

Parses(e) == e.from <= e.to /\ LifecycleOK(e) /\ ControlOK(e.control, e.to)

-----------------------------------------------------------------------------
(* RewardStream, as functions of its state.                                *)

(* A count stays with its marker, and advances with a newer one.           *)
MarkerProgress(oldCount, newCount, oldMarker, newMarker, oldId, newId) ==
    /\ newCount >= oldCount
    /\ newCount = oldCount => newMarker = oldMarker
    /\ newCount > oldCount /\ oldId # 0 => newId > oldId

ControlProgress(p, c) ==
    /\ MarkerProgress(p.acceptedCount, c.acceptedCount, p.accepted, c.accepted,
                      p.accepted, c.accepted)
    /\ MarkerProgress(p.appliedCount, c.appliedCount, <<p.applied, p.first>>,
                      <<c.applied, c.first>>, p.applied, c.applied)
    /\ c.supersededCount >= p.supersededCount
    /\ c.selected >= p.selected
    /\ c.selected = p.selected => c.source = p.source
    /\ p.selected # None /\ c.appliedCount > p.appliedCount => c.first > p.selected

(* _commit raises when the commands of a known life regress.               *)
Commits(t, e) == t.life = e.life => ControlProgress(t.control, e.control)
Committed(e) == [life |-> e.life, sequence |-> e.sequence, step |-> e.to,
                 closed |-> e.kind \in Closures, length |-> e.length, control |-> e.control]

Follows(t, e) ==
    /\ e.life = t.life /\ e.kind # "initial"
    /\ e.previous = t.sequence /\ e.from = t.step

\* A defect of Accepts: the predecessor is not compared.
AcceptsAnySuccessor(t, snake, e) ==
    /\ e.life = snake /\ ~t.closed /\ Commits(t, e)
    /\ IF t.life = 0 THEN e.kind = "initial" ELSE e.life = t.life /\ e.kind # "initial"
Accepts(t, snake, e) ==
    /\ e.life = snake /\ ~t.closed
    /\ IF t.life = 0 THEN e.kind = "initial" ELSE Follows(t, e)
    /\ t.length # None => e.length - t.length = e.growth
    /\ Commits(t, e)

Rebases(t, snake, e) == e.life = snake /\ e.kind \notin Closures /\ Commits(t, e)

Discards(t, snake, e) ==
    /\ ~t.closed /\ e.life = snake /\ e.kind \in Closures
    /\ t.life # 0 => e.life = t.life
    /\ Commits(t, e)

-----------------------------------------------------------------------------
(* The server.                                                             *)

(* A command issued in this life reaches the simulation; one that it finds *)
(* waiting is superseded.                                                  *)
Issue ==
    /\ actor.observed /\ ~actor.rebase /\ ~actor.closed /\ ~actor.fatal /\ socket = "up"
    /\ actor.counter < MaxId
    /\ actor' = [actor EXCEPT !.counter = @ + 1]
    /\ \/ UNCHANGED server    \* dropped before native admission
       \/ /\ server.alive /\ server.life = actor.snake
          /\ server' = [server EXCEPT !.waiting = TRUE,
                 !.control.acceptedCount = @ + 1, !.control.accepted = actor.counter + 1,
                 !.control.supersededCount = IF server.waiting THEN @ + 1 ELSE @]
    /\ UNCHANGED <<socket, chan, gaps, faults, paid>>

Applied(c, now) == [c EXCEPT !.appliedCount = @ + 1, !.applied = c.accepted, !.first = now,
                             !.source = "held", !.selected = now]
Selected(c, source, now) == [c EXCEPT !.source = source, !.selected = now]

Physics ==
    /\ server.alive /\ server.step < MaxStep /\ ~actor.fatal
    /\ \E length \in 1..2, s \in
            {[server EXCEPT !.control = Selected(@, "neutral", server.step)]}
            \cup (IF server.control.applied # 0
                  THEN {server, [server EXCEPT !.control = Selected(@, "held", server.step)]}
                  ELSE {})
            \cup (IF server.waiting
                  THEN {[server EXCEPT !.control = Applied(@, server.step), !.waiting = FALSE]}
                  ELSE {}):
         server' = [s EXCEPT !.step = @ + 1, !.length = length]
    /\ UNCHANGED <<socket, chan, gaps, faults, actor, paid>>

Interval(kind) ==
    [kind |-> kind, life |-> server.life, sequence |-> server.sequence + 1,
     previous |-> IF kind = "initial" THEN None ELSE server.sequence,
     from |-> IF kind = "initial" THEN server.step ELSE server.reportedStep,
     to |-> server.step, length |-> server.length,
     growth |-> IF kind = "initial" THEN 0 ELSE server.length - server.reportedLength,
     control |-> server.control]

(* The first report of a life is its baseline; a closure is its last.      *)
Report(kind) ==
    /\ server.alive /\ server.sequence < MaxReports /\ Len(chan) < MaxChan /\ ~actor.fatal
    /\ kind = "initial" <=> server.sequence = 0
    /\ chan' = IF socket = "up" THEN Append(chan, Interval(kind)) ELSE chan
    /\ server' = [server EXCEPT !.sequence = @ + 1, !.reportedStep = server.step,
                                !.reportedLength = server.length,
                                !.alive = kind \notin Closures]
    /\ UNCHANGED <<socket, gaps, faults, actor, paid>>

Replaced == [kind |-> "replaced"]
Assignment(n, reclaimed) == [kind |-> "assign", life |-> n, reclaimed |-> reclaimed]

(* A closed life is replaced on the same socket, and an actor that joins   *)
(* without one is given a new one.                                         *)
AssignLife ==
    /\ server.life < MaxLives /\ Len(chan) < MaxChan /\ ~actor.fatal
    /\ \/ socket = "up" /\ ~server.alive /\ Replaced \notin Range(chan)
       \/ socket = "down" /\ actor.snake = 0
    /\ server' = NewLife(server.life + 1) /\ socket' = "up"
    /\ chan' = Append(chan, Assignment(server.life + 1, FALSE))
    /\ UNCHANGED <<gaps, faults, actor, paid>>

(* A join with a resume token gives the life back, retiring a command that *)
(* is still waiting, or is refused when the life has ended.                *)
Rejoin ==
    /\ socket = "down" /\ actor.snake # 0 /\ ~actor.fatal
    /\ IF server.alive /\ server.life = actor.snake
       THEN /\ socket' = "up" /\ chan' = <<Assignment(server.life, TRUE)>>
            /\ server' = [server EXCEPT !.waiting = FALSE,
                   !.control.supersededCount = IF server.waiting THEN @ + 1 ELSE @]
       ELSE socket' = "refused" /\ UNCHANGED <<chan, server>>
    /\ UNCHANGED <<gaps, faults, actor, paid>>

(* Another world takes over: the life is gone without a closure.           *)
ReplaceState ==
    /\ socket = "up" /\ server.life # 0 /\ gaps < MaxGaps /\ Len(chan) < MaxChan /\ ~actor.fatal
    /\ gaps' = gaps + 1 /\ chan' = Append(chan, Replaced)
    /\ server' = [server EXCEPT !.alive = FALSE]
    /\ UNCHANGED <<socket, faults, actor, paid>>

(* A report is lost or repeated on the live connection.                    *)
Tamper ==
    /\ faults < MaxFaults /\ faults' = faults + 1 /\ ~actor.fatal
    /\ \E i \in DOMAIN chan:
         /\ chan[i].kind \notin {"assign", "replaced"}
         /\ chan' \in {RemoveAt(chan, i)}
                     \cup {InsertAt(chan, j, chan[i]): j \in (i + 1)..(Len(chan) + 1)}
    /\ UNCHANGED <<server, socket, gaps, actor, paid>>

-----------------------------------------------------------------------------
(* The actor.                                                              *)

Reading == socket = "up" /\ chan # <<>> /\ ~actor.fatal
Handled(a) ==
    actor' = a /\ chan' = Tail(chan) /\ UNCHANGED <<server, socket, gaps, faults>>

\* A defect of Truncated: the reclaimed episode still counts as whole.
TruncatedWhole(a) == [a EXCEPT !.rebase = TRUE]
(* _truncate_disconnected_rollout, as far as admission goes.               *)
Truncated(a) == [a EXCEPT !.rebase = TRUE, !.integrity = FALSE]

\* A defect of ResetLife: the stream of the old life is kept.
ResetKeepsStream(a, n) ==
    [NewActor EXCEPT !.snake = n, !.counter = a.counter, !.stream = a.stream]
(* _reset_per_snake_state.                                                 *)
ResetLife(a, n) == [NewActor EXCEPT !.snake = n, !.counter = a.counter]

SocketFails ==
    /\ socket \in {"up", "refused"} /\ gaps < MaxGaps /\ ~actor.fatal
    /\ gaps' = gaps + 1 /\ socket' = "down" /\ chan' = <<>>
    /\ actor' = Truncated(actor)
    /\ UNCHANGED <<server, faults, paid>>

Refused ==
    /\ socket = "refused" /\ socket' = "down" /\ ~actor.fatal
    /\ actor' = [Truncated(actor) EXCEPT !.snake = 0]
    /\ UNCHANGED <<server, chan, gaps, faults, paid>>

(* _handle_state_replaced: the old life is given up before a new join.     *)
OnReplaced ==
    /\ Reading /\ Head(chan) = Replaced
    /\ actor' = ResetLife(actor, 0) /\ paid' = <<>> /\ socket' = "down" /\ chan' = <<>>
    /\ UNCHANGED <<server, gaps, faults>>

(* _on_assign.                                                             *)
OnAssign ==
    LET m == Head(chan) IN
    /\ Reading /\ m.kind = "assign"
    /\ IF m.reclaimed THEN Handled(Truncated(actor)) /\ UNCHANGED paid
       ELSE IF actor.snake # 0 /\ ~actor.closed /\ actor.observed /\ actor.integrity
            THEN Handled([actor EXCEPT !.fatal = TRUE]) /\ UNCHANGED paid
            ELSE Handled(ResetLife(actor, m.life)) /\ paid' = <<>>

(* Echoed commands are ones this process issued, each newer than the last. *)
Echoes(a, c) ==
    /\ c.accepted \notin {0, a.last.accepted} => c.accepted \in (a.last.accepted + 1)..a.counter
    /\ c.applied \notin {0, a.last.applied} => c.applied \in (a.last.applied + 1)..a.counter

(* The interval is admitted through the operation that the actor's state   *)
(* calls for, or the error ends the trainer.                               *)
Admits(e) ==
    /\ Parses(e) /\ Echoes(actor, e.control)
    /\ IF e.kind \in Closures
       THEN IF actor.rebase THEN Discards(actor.stream, actor.snake, e)
            ELSE ~actor.closed /\ Accepts(actor.stream, actor.snake, e)
       ELSE /\ ~actor.closed
            /\ IF actor.rebase THEN Rebases(actor.stream, actor.snake, e)
               ELSE Accepts(actor.stream, actor.snake, e)

Admit ==
    LET e == Head(chan) IN
    /\ Reading /\ e.kind \notin {"assign", "replaced"} /\ actor.snake # 0 /\ Admits(e)
    /\ Handled([actor EXCEPT !.stream = Committed(e), !.rebase = FALSE,
                           !.observed = @ \/ ~(actor.rebase /\ e.kind \in Closures),
                           !.last = e.control, !.closed = e.kind \in Closures])
    /\ paid' = IF actor.rebase \/ e.kind = "initial" THEN paid ELSE Append(paid, e.sequence)

Refuse ==
    LET e == Head(chan) IN
    /\ Reading /\ e.kind \notin {"assign", "replaced"} /\ actor.snake # 0 /\ ~Admits(e)
    /\ Handled([actor EXCEPT !.fatal = TRUE]) /\ UNCHANGED paid
-----------------------------------------------------------------------------
Next ==
    \/ Issue \/ Physics \/ AssignLife \/ Rejoin \/ ReplaceState \/ Tamper
    \/ \E kind \in {"initial", "live"} \cup Closures: Report(kind)
    \/ SocketFails \/ Refused \/ OnReplaced \/ OnAssign \/ Admit \/ Refuse

Spec == Init /\ [][Next]_vars

-----------------------------------------------------------------------------
(* Properties.                                                             *)

TypeOK ==
    /\ server.life \in 0..MaxLives /\ server.step \in 0..MaxStep
    /\ server.sequence \in 0..MaxReports /\ socket \in {"up", "down", "refused"}
    /\ gaps \in 0..MaxGaps /\ faults \in 0..MaxFaults
    /\ actor.snake \in 0..MaxLives /\ actor.counter \in 0..MaxId
    /\ ControlOK(server.control, server.step) /\ paid \in Seq(1..MaxReports)

(* Whatever is lost with a socket, and at whatever moment commands are     *)
(* accepted, applied, superseded or retired by a reclaim, none of the many *)
(* conditions on intervals, closures and assignments - each of which ends  *)
(* the trainer - refuses what a coherent server sends.                     *)
CoherentAccepted == faults = 0 => ~actor.fatal

(* No interval is paid twice or after a later one, even if reports are     *)
(* repeated or lost and the stream was rebased in between.                 *)
AdmittedOnce == \A i, j \in DOMAIN paid: i < j => paid[i] < paid[j]

(* An episode that closes with its integrity flag was paid exactly what    *)
(* the server reported of the life, from its baseline to its closure.      *)
IntegrityExact ==
    actor.closed /\ actor.integrity =>
        paid = [i \in 1..(actor.stream.sequence - 1) |-> i + 1]
=============================================================================
