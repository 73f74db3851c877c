---------------------------- MODULE TeacherIntake ----------------------------
(***************************************************************************)
(* How teacher data reaches a distillation job: the client pages, leases   *)
(* and downloads chunks of the producer and proposes a cursor, the replay  *)
(* admits the proposal and evicts, the sampler indexes what is retained.   *)
(* (distillation_client.py, distillation_replay.py,                        *)
(* distillation_sampling.py and DistillationJob.ingest.)                   *)
(*                                                                         *)
(* Between any two requests the producer goes on: it stores chunks in any  *)
(* order, drops them before they are stored, retires stored ones, expires  *)
(* leases.  A failed fetch ends the run after a snapshot; the process may  *)
(* also die.  DistillationJob has the snapshots in detail, here it is the  *)
(* newest one.  What is in a chunk is left to RecurrentWindows.            *)
(***************************************************************************)
EXTENDS RecurrentWindows

CONSTANTS
    Sizes,        \* costs of a chunk, in units
    PageSize,     \* descriptors per page
    FetchBytes,   \* cost of one fetch (owned_bytes)
    ReplayBytes,  \* cost of the retained chunks (max_bytes less the fixed part)
    ReplayChunks, \* retained chunks (max_chunks)
    MaxSeq,       \* bound: chunks produced
    MaxFaults,    \* bound: lost requests, expiries, deaths and policy changes
    MaxRuns       \* bound: starts of the process

ASSUME IntakeAssumption ==
    /\ Sizes \subseteq Nat \ {0}
    /\ PageSize \in Nat \ {0} /\ ReplayChunks \in Nat \ {0}
    /\ FetchBytes \in Nat /\ ReplayBytes \in Nat
    /\ \A s \in Sizes: s <= FetchBytes /\ s <= ReplayBytes
    /\ MaxSeq \in Nat /\ MaxRuns \in Nat \ {0} /\ MaxFaults \in Nat

VARIABLES
    server,   \* the producer: the cost of every chunk sealed, which are stored or lost, leases, policy
    pc,       \* what the process is doing
    fetch,    \* the fetch in progress: descriptors admitted, tail settled, downloads done
    client,   \* cursor, manifest, storage policy
    replay,   \* cursor, manifest, retained chunks, eviction counter, last proposal
    sampler,  \* the stream index and the signature it was built for
    disk,     \* the newest snapshot
    runs,     \* starts so far
    faults,   \* lost requests, expiries, deaths and policy changes so far
    ledger,   \* history: what the replay evicted and what it recorded as unavailable
    leaked,   \* history: a lease was lost sight of
    fault     \* history: a consistency check of the job refused

vars == <<server, pc, fetch, client, replay, sampler, disk, runs, faults, ledger, leaked, fault>>

(* Lost replies, expiries, deaths and policy changes are bounded together. *)
GoesWrong == faults < MaxFaults /\ faults' = faults + 1

-----------------------------------------------------------------------------
Unobserved == "unobserved"
Policies == {"unreported", "bounded"}    \* a producer without the route answers 404
NoManifest == [production |-> 0, resolved |-> 0]
NoProposal == [next |-> 0]
NoFetch == [admitted |-> <<>>, tail |-> FALSE, got |-> 0]
NoIndex == [signature |-> <<>>, cursor |-> 0, chunks |-> <<>>]
NoSnapshot == [opened |-> FALSE]

NewClient == [cursor |-> 0, manifest |-> NoManifest, policy |-> Unobserved]
NewReplay == [opened |-> FALSE, cursor |-> 0, manifest |-> NoManifest, chunks |-> <<>>,
              evicted |-> 0, last |-> NoProposal]
NewLedger == [evicted |-> {}, gone |-> {}]

Init ==
    /\ server = [chunks |-> <<>>, stored |-> {}, lost |-> {}, leases |-> {},
                 policy |-> "bounded"]
    /\ pc = "idle" /\ fetch = NoFetch /\ client = NewClient /\ replay = NewReplay
    /\ sampler = NoIndex /\ disk = NoSnapshot /\ runs = 1 /\ faults = 0
    /\ ledger = NewLedger /\ leaked = FALSE /\ fault = FALSE

-----------------------------------------------------------------------------
(* The producer, as the client and the tests assume it.  A sequence number *)
(* is settled once its chunk is stored or lost for good.                   *)

Sealed == 1..Len(server.chunks)
InFlight == Sealed \ (server.stored \cup server.lost)
Resolved == Max({n \in 0..Len(server.chunks): 1..n \subseteq server.stored \cup server.lost})

local == <<pc, fetch, client, replay, sampler, disk, runs, ledger, fault>>

Produce ==
    /\ Len(server.chunks) < MaxSeq
    /\ \E size \in Sizes: server' = [server EXCEPT !.chunks = Append(@, size)]
    /\ UNCHANGED <<local, faults, leaked>>

Settle(n) ==
    /\ n \in InFlight
    /\ \/ server' = [server EXCEPT !.stored = @ \cup {n}]
       \/ server' = [server EXCEPT !.lost = @ \cup {n}]
    /\ UNCHANGED <<local, faults, leaked>>

Retire ==
    /\ \E n \in server.stored \ UNION server.leases:
         server' = [server EXCEPT !.stored = @ \ {n}, !.lost = @ \cup {n}]
    /\ UNCHANGED <<local, faults, leaked>>

LeaseExpires ==
    /\ GoesWrong
    /\ \E l \in server.leases: server' = [server EXCEPT !.leases = @ \ {l}]
    /\ UNCHANGED <<local, leaked>>

PolicyChanges ==
    /\ GoesWrong
    /\ \E p \in Policies \ {server.policy}: server' = [server EXCEPT !.policy = p]
    /\ UNCHANGED <<local, leaked>>

-----------------------------------------------------------------------------
(* The sampler's index: rebuilt when its signature has changed.            *)

Signature(r) == <<r.cursor, r.evicted, Len(r.chunks)>>
Refreshed(r) ==
    IF sampler.signature = Signature(r) THEN sampler
    ELSE [signature |-> Signature(r), cursor |-> r.cursor, chunks |-> r.chunks]

(* A snapshot joins the replay, the client and the index.                  *)
Snapshot == [opened |-> TRUE, replay |-> replay, cursor |-> client.cursor,
             policy |-> client.policy, index |-> Refreshed(replay), ledger |-> ledger]

(* An exception leaves run(), which saves the job once one is open.        *)
Failed ==
    /\ pc' = "off"
    /\ disk' = IF replay.opened THEN Snapshot ELSE disk

Save ==
    /\ pc = "idle" /\ replay.opened /\ disk' = Snapshot /\ sampler' = Refreshed(replay)
    /\ runs < MaxRuns    \* bound: no later run would read it
    /\ UNCHANGED <<server, pc, fetch, client, replay, runs, faults, ledger, leaked, fault>>

Sample ==
    /\ pc = "idle" /\ replay.opened /\ sampler' = Refreshed(replay)
    /\ UNCHANGED <<server, pc, fetch, client, replay, disk, runs, faults, ledger, leaked, fault>>

-----------------------------------------------------------------------------
(* DistillationClient.fetch, request by request.                           *)

FetchPolicy ==
    /\ pc = "idle"
    /\ IF client.policy \in {Unobserved, server.policy}
       THEN /\ client' = [client EXCEPT !.policy = server.policy]
            /\ pc' = "page" /\ UNCHANGED disk
       ELSE Failed /\ UNCHANGED client
    /\ UNCHANGED <<server, fetch, replay, sampler, runs, faults, ledger, leaked, fault>>

RequestFails ==    \* the policy or the page is not answered
    /\ pc \in {"idle", "page"} /\ GoesWrong /\ Failed
    /\ UNCHANGED <<server, fetch, client, replay, sampler, runs, ledger, leaked, fault>>

Cost(ns) ==
    LET sum[k \in 0..Len(ns)] == IF k = 0 THEN 0 ELSE sum[k - 1] + server.chunks[ns[k]]
    IN sum[Len(ns)]

Listed(after) == {n \in server.stored: n > after}
(* The first of them in order: a page may hold less than was asked for,    *)
(* but not nothing of something.                                           *)
Pages(after) ==
    {page \in BoundedSeq(Listed(after), PageSize):
        /\ \A i, j \in DOMAIN page: i < j => page[i] < page[j]
        /\ \A i \in DOMAIN page: \A n \in Listed(after): n < page[i] => n \in Range(page)
        /\ page = <<>> => Listed(after) = {}}
HasMore(after, page) == ~(Listed(after) \subseteq Range(page))

\* A defect of Admitted: descriptors above the resolved watermark are taken too.
AdmittedUnsettled(page) ==
    SubSeq(page, 1, Max({k \in 0..Len(page): Cost(SubSeq(page, 1, k)) <= FetchBytes}))

(* The settled descriptors that one transfer may own.                      *)
Admitted(page) ==
    LET Fits(k) == /\ \A i \in 1..k: page[i] <= Resolved
                   /\ Cost(SubSeq(page, 1, k)) <= FetchBytes
    IN SubSeq(page, 1, Max({k \in 0..Len(page): Fits(k)}))
Eligible(page) == Cardinality({i \in DOMAIN page: page[i] <= Resolved})

\* A defect of TailSettled: chunks left for the next fetch are given up.
TailOverAll(after, page) == ~HasMore(after, page)
\* A defect of TailSettled: a tail without a chunk is never settled.
TailNever(after, page) == FALSE

(* Nothing more is listed below the resolved watermark: what lies between  *)
(* the last chunk and the watermark is a gap.                              *)
TailSettled(after, page) == ~HasMore(after, page) /\ Len(Admitted(page)) = Eligible(page)

Manifest == [production |-> Len(server.chunks), resolved |-> Resolved]
Regressed(old, new) == new.production < old.production \/ new.resolved < old.resolved

FetchPage ==
    /\ pc = "page"
    /\ IF Manifest.production < client.cursor \/ Regressed(client.manifest, Manifest)
       THEN Failed /\ fault' = TRUE /\ UNCHANGED <<client, fetch>>
       ELSE /\ client' = [client EXCEPT !.manifest = Manifest]
            /\ \E page \in Pages(client.cursor):
                 LET ns == Admitted(page)
                 IN /\ fetch' = [admitted |-> ns, tail |-> TailSettled(client.cursor, page),
                                 got |-> 0]
                    /\ pc' = IF ns = <<>> THEN "ingest" ELSE "lease"
            /\ UNCHANGED <<disk, fault>>
    /\ UNCHANGED <<server, replay, sampler, runs, faults, ledger, leaked>>

Pinned == Range(fetch.admitted)

Lease ==
    /\ pc = "lease"
    /\ \/ /\ Pinned \subseteq server.stored
          /\ server' = [server EXCEPT !.leases = @ \cup {Pinned}]
          /\ \/ pc' = "download" /\ UNCHANGED <<disk, faults, leaked>>
             \/ GoesWrong /\ Failed /\ leaked' = TRUE    \* granted, but the reply is lost
       \/ GoesWrong /\ Failed /\ UNCHANGED <<server, leaked>>
       \/ /\ ~(Pinned \subseteq server.stored)
          /\ Failed /\ UNCHANGED <<server, faults, leaked>>
    /\ UNCHANGED <<fetch, client, replay, sampler, runs, ledger, fault>>

Arrived(n) == n \in server.stored
NotArrived(n) == IF n \in server.stored THEN GoesWrong ELSE UNCHANGED faults
Downloaded ==
    /\ Arrived(fetch.admitted[fetch.got + 1]) /\ fetch' = [fetch EXCEPT !.got = @ + 1]
    /\ pc' = IF fetch.got + 1 = Len(fetch.admitted) THEN "release" ELSE "download"

\* A defect of Download: a failed download leaves without deleting the lease.
DownloadRaises ==
    /\ pc = "download"
    /\ \/ Downloaded /\ UNCHANGED <<faults, disk>>
       \/ NotArrived(fetch.admitted[fetch.got + 1]) /\ Failed /\ UNCHANGED fetch
    /\ UNCHANGED <<server, client, replay, sampler, runs, ledger, leaked, fault>>

Download ==
    /\ pc = "download"
    /\ \/ Downloaded /\ UNCHANGED faults
       \/ /\ NotArrived(fetch.admitted[fetch.got + 1])    \* expired and retired, lost or corrupt
          /\ pc' = "abort" /\ UNCHANGED fetch
    /\ UNCHANGED <<server, client, replay, sampler, disk, runs, ledger, leaked, fault>>

(* The lease is deleted in a finally; a failed delete is an error too.     *)
Release ==
    /\ pc \in {"release", "abort"}
    /\ \/ /\ server' = [server EXCEPT !.leases = @ \ {Pinned}]
          /\ IF pc = "release" THEN pc' = "ingest" /\ UNCHANGED disk ELSE Failed
          /\ UNCHANGED <<faults, leaked>>
       \/ GoesWrong /\ Failed /\ leaked' = TRUE /\ UNCHANGED server
    /\ UNCHANGED <<fetch, client, replay, sampler, runs, ledger, fault>>

-----------------------------------------------------------------------------
(* The proposal, and its admission to the replay.                          *)

Reached(start) == IF fetch.admitted = <<>> THEN start ELSE Last(fetch.admitted)
Proposal ==
    LET start == client.cursor
        top == client.manifest.resolved
        ns == fetch.admitted
        tail == fetch.tail /\ top > Reached(start)
        edges == <<start>> \o ns
        between == {<<edges[k] + 1, ns[k] - 1>>: k \in {j \in DOMAIN ns: ns[j] > edges[j] + 1}}
    IN [start |-> start, next |-> IF tail THEN top ELSE Reached(start), chunks |-> ns,
        gaps |-> between \cup (IF tail THEN {<<Reached(start) + 1, top>>} ELSE {})]

Unavailable(p) == UNION {g[1]..g[2]: g \in p.gaps}

(* Every sequence number of the proposal has one disposition.              *)
Coherent(p) ==
    /\ 0 <= p.start /\ p.start <= p.next
    /\ \A k \in DOMAIN p.chunks: (IF k = 1 THEN p.start ELSE p.chunks[k - 1]) < p.chunks[k]
    /\ Range(p.chunks) \cup Unavailable(p) = (p.start + 1)..p.next
    /\ Range(p.chunks) \cap Unavailable(p) = {}
    /\ \A g, h \in p.gaps: g # h => g[1]..g[2] \cap h[1]..h[2] = {}

(* Whole chunks, oldest first, make room for one more.                     *)
Overfull(ns, n) == Cost(ns) + server.chunks[n] > ReplayBytes \/ Len(ns) >= ReplayChunks
RoomFor(ns, n) ==
    LET k == Min({j \in 0..Len(ns): j = Len(ns) \/ ~Overfull(SubSeq(ns, j + 1, Len(ns)), n)})
    IN SubSeq(ns, k + 1, Len(ns))
AdmitOne(n, ns) == Append(RoomFor(ns, n), n)
Planned(ns, new) ==
    LET plan[k \in 0..Len(new)] == IF k = 0 THEN ns ELSE AdmitOne(new[k], plan[k - 1])
    IN plan[Len(new)]

(* The last proposal again changes nothing; any other must start at the    *)
(* cursor.                                                                 *)
IsRetry(r, p) == p = r.last
AdmissionRefused(r, p, m) ==
    \/ r.opened /\ Regressed(r.manifest, m)
    \/ p.next > m.resolved \/ ~Coherent(p)
    \/ ~IsRetry(r, p) /\ p.start # r.cursor

Owning(r, p, m) ==
    LET kept == Planned(r.chunks, p.chunks)
        dropped == (Range(r.chunks) \cup Range(p.chunks)) \ Range(kept)
    IN [r EXCEPT !.opened = TRUE, !.cursor = p.next, !.manifest = m, !.chunks = kept,
                 !.evicted = @ + Cardinality(dropped), !.last = p]
\* A defect of Admit: a retry is owned once more.
AdmitAnew(r, p, m) == Owning(r, p, m)
Admit(r, p, m) == IF IsRetry(r, p) THEN [r EXCEPT !.manifest = m] ELSE Owning(r, p, m)

Dropped(r, s) == (Range(r.chunks) \cup Range(s.last.chunks)) \ Range(s.chunks)
LedgerAfter(r, p, s) ==
    IF IsRetry(r, p) THEN ledger
    ELSE [evicted |-> ledger.evicted \cup Dropped(r, s), gone |-> ledger.gone \cup Unavailable(p)]

(* job.ingest(client.fetch()): the replay owns the proposal, then the      *)
(* client commits its cursor.  A commit refuses a proposal that is stale.  *)
CommitRefused(p) ==
    /\ ~(p.next = client.cursor /\ p.start <= client.cursor)
    /\ p.start # client.cursor \/ p.next < client.cursor
Ingest ==
    /\ pc = "ingest"
    /\ LET p == Proposal
           m == client.manifest
       IN IF AdmissionRefused(replay, p, m) \/ CommitRefused(p)
          THEN Failed /\ fault' = TRUE /\ UNCHANGED <<client, replay, ledger>>
          ELSE /\ replay' = Admit(replay, p, m)
               /\ ledger' = LedgerAfter(replay, p, Admit(replay, p, m))
               /\ client' = [client EXCEPT !.cursor = p.next]
               /\ pc' = "idle" /\ UNCHANGED <<disk, fault>>
    /\ fetch' = NoFetch
    /\ UNCHANGED <<server, sampler, runs, faults, leaked>>

(* A caller of the library offers the last proposal to the replay again.   *)
AdmitAgain ==
    /\ pc = "idle" /\ replay.opened
    /\ LET p == replay.last
           m == replay.manifest
       IN /\ ~AdmissionRefused(replay, p, m)
          /\ replay' = Admit(replay, p, m) /\ ledger' = LedgerAfter(replay, p, replay')
    /\ UNCHANGED <<server, pc, fetch, client, sampler, disk, runs, faults, leaked, fault>>

-----------------------------------------------------------------------------
Die ==
    /\ pc # "off" /\ GoesWrong /\ pc' = "off"
    /\ leaked' = (leaked \/ pc \in {"download", "release", "abort"})
    /\ UNCHANGED <<server, fetch, client, replay, sampler, disk, runs, ledger, fault>>

(* restore_snapshot, the job's constructor and sampler.restore.            *)
RestoreRefused(s) ==
    LET r == s.replay
    IN \/ r.cursor > r.manifest.resolved \/ Len(r.chunks) > ReplayChunks
       \/ \E k \in DOMAIN r.chunks: (IF k = 1 THEN 0 ELSE r.chunks[k - 1]) >= r.chunks[k]
                                      \/ r.chunks[k] > r.cursor
       \/ Cost(r.chunks) > ReplayBytes
       \/ r.last # NoProposal /\ (r.last.next # r.cursor \/ ~Coherent(r.last))
       \/ s.cursor # r.cursor
       \/ s.index.cursor # r.cursor \/ s.index.chunks # r.chunks

Resume ==
    /\ pc = "off" /\ runs < MaxRuns /\ runs' = runs + 1
    /\ IF ~disk.opened
       THEN /\ client' = NewClient /\ replay' = NewReplay /\ ledger' = NewLedger
            /\ sampler' = NoIndex /\ pc' = "idle" /\ UNCHANGED fault
       ELSE IF RestoreRefused(disk)
       THEN fault' = TRUE /\ pc' = "off" /\ UNCHANGED <<client, replay, ledger, sampler>>
       ELSE /\ client' = [cursor |-> disk.cursor, manifest |-> disk.replay.manifest,
                          policy |-> disk.policy]
            /\ replay' = disk.replay /\ ledger' = disk.ledger
            /\ sampler' = disk.index /\ pc' = "idle" /\ UNCHANGED fault
    /\ fetch' = NoFetch
    /\ UNCHANGED <<server, disk, faults, leaked>>

Next ==
    \/ Produce \/ (\E n \in Sealed: Settle(n)) \/ Retire \/ LeaseExpires \/ PolicyChanges
    \/ Save \/ Sample
    \/ FetchPolicy \/ RequestFails \/ FetchPage \/ Lease \/ Download \/ Release
    \/ Ingest \/ AdmitAgain \/ Die \/ Resume

Spec == Init /\ [][Next]_vars

-----------------------------------------------------------------------------
ChunkNumbers == 1..MaxSeq
Manifests == [production: 0..MaxSeq, resolved: 0..MaxSeq]
Proposals == [start: 0..MaxSeq, next: 0..MaxSeq, chunks: Seq(ChunkNumbers),
              gaps: SUBSET (ChunkNumbers \X ChunkNumbers)]
Replays == [opened: BOOLEAN, cursor: 0..MaxSeq, manifest: Manifests, chunks: Seq(ChunkNumbers),
            evicted: Nat, last: Proposals \cup {NoProposal}]

(* Every variable has its type, and a step of the fetch is reached with    *)
(* the leases and downloads that it presupposes.                           *)
TypeOK ==
    /\ server.stored \cap server.lost = {} /\ server.stored \cup server.lost \subseteq Sealed
    /\ server.leases \subseteq SUBSET Sealed /\ server.policy \in Policies
    /\ pc \in {"idle", "page", "lease", "download", "release", "abort", "ingest", "off"}
    /\ fetch \in [admitted: Seq(ChunkNumbers), tail: BOOLEAN, got: Nat]
    /\ client \in [cursor: 0..MaxSeq, manifest: Manifests, policy: Policies \cup {Unobserved}]
    /\ replay \in Replays /\ runs \in 1..MaxRuns /\ leaked \in BOOLEAN /\ fault \in BOOLEAN
    /\ Cost(replay.chunks) <= ReplayBytes /\ Len(replay.chunks) <= ReplayChunks
    /\ pc \in {"lease", "download", "release", "abort"} => fetch.admitted # <<>>
    /\ pc = "download" => fetch.got < Len(fetch.admitted)
    /\ pc \in {"release", "ingest"} => fetch.got = Len(fetch.admitted)

(* Every sequence number below the cursor was disposed of exactly once:    *)
(* retained, evicted or recorded as unavailable, across failed fetches,    *)
(* restarts and retries ("Exact retries do not resurrect evicted data").   *)
DisposedOnce ==
    LET kept == Range(replay.chunks)
    IN /\ kept \cup ledger.evicted \cup ledger.gone = 1..replay.cursor
       /\ kept \cap ledger.evicted = {} /\ kept \cap ledger.gone = {}
       /\ ledger.evicted \cap ledger.gone = {}
       /\ IsInjective(replay.chunks) /\ replay.evicted = Cardinality(ledger.evicted)

(* Only what the producer has lost for good is recorded as unavailable: a  *)
(* chunk in flight, or left for the next page, is never skipped.           *)
NothingSkipped == ledger.gone \subseteq server.lost

(* Against a coherent producer none of the job's consistency checks on     *)
(* pages, proposals, cursors and restored snapshots refuses.               *)
NeverRefused == ~fault

(* "... finite storage pins that are released after validation, including  *)
(* on failure": no lease outlives its fetch unless its reply, its deletion or *)
(* the process itself was lost.                                            *)
PinsReleased ==
    pc \in {"idle", "page", "lease", "ingest", "off"} /\ ~leaked => server.leases = {}

(* Once the producer has settled everything, every fetch that is ingested  *)
(* moves the cursor, whatever was lost and however little one page lists   *)
(* or one transfer may own; the cursor cannot stand still for ever.        *)
FetchAdvances ==
    pc = "ingest" /\ client.manifest.resolved = client.manifest.production
        => client.cursor = client.manifest.resolved \/ Proposal.next > client.cursor

(* The retentions whose windows are sound, and loadable, in every history. *)
InOrder(kept) ==
    CHOOSE ns \in [1..Cardinality(kept) -> kept]: \A i, j \in DOMAIN ns: i < j => ns[i] < ns[j]
Retentions == {InOrder(kept): kept \in SUBSET ChunkNumbers}
DrawnSoundly ==
    {ns \in Retentions: \A h \in Histories(MaxSeq):
        \A w \in Windows(h, ns): Sound(w) /\ WindowAdmitted(w)}

(* Between two fetches windows are drawn from the index, rebuilt or not.   *)
(* It indexes exactly what is retained, and whatever the producer put into *)
(* its chunks and whatever was lost or evicted, recurrent state is carried *)
(* within every window as the stream carried it; and the windows last      *)
(* drawn never make a snapshot unloadable (distillation_checkpoint.py:595  *)
(* to 614).                                                                *)
WindowsSound ==
    pc = "idle" /\ replay.opened =>
        LET drawn == Refreshed(replay).chunks
        IN drawn = replay.chunks /\ drawn \in DrawnSoundly
==============================================================================
