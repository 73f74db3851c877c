-------------------------- MODULE TeacherIntake_proofs --------------------------
(***************************************************************************)
(* Theorems about TeacherIntake, for chunks of any cost, pages, fetches     *)
(* and replays of any size and any number of chunks, faults and runs.      *)
(* Induction over the data (costs and evictions along a list) goes by the  *)
(* least number for which a claim fails.                                   *)
(***************************************************************************)
EXTENDS TeacherIntake, SequenceTheorems, FiniteSetTheorems, WellFoundedInduction, TLAPS

-----------------------------------------------------------------------------
(* The invariant.  Its parts are stated of any server sv, replay r, ledger  *)
(* led, client cl and fetch f.                                              *)

CostOf(w, ns) ==
    LET sum[k \in 0..Len(ns)] == IF k = 0 THEN 0 ELSE sum[k - 1] + w[ns[k]]
    IN sum[Len(ns)]

Increasing(ns) == \A i, j \in 1..Len(ns): i < j => ns[i] < ns[j]

Servers == [chunks: Seq(Sizes), stored: SUBSET ChunkNumbers, lost: SUBSET ChunkNumbers,
            leases: SUBSET (SUBSET ChunkNumbers), policy: Policies]
Settled(sv) == sv.stored \cup sv.lost
ServerOk(sv) ==
    /\ sv \in Servers /\ Len(sv.chunks) <= MaxSeq
    /\ Settled(sv) \subseteq 1..Len(sv.chunks) /\ sv.stored \cap sv.lost = {}
    /\ sv.leases \subseteq SUBSET (1..Len(sv.chunks))

(* A manifest of the past: what it calls resolved is settled.              *)
ManifestOk(m, sv) ==
    /\ m \in Manifests /\ m.resolved <= m.production /\ m.production <= Len(sv.chunks)
    /\ 1..m.resolved \subseteq Settled(sv)

(* Retained chunks, in order and within the bounds of the replay.          *)
KeptOk(ns, top, w) ==
    /\ ns \in Seq(1..Len(w)) /\ Increasing(ns) /\ \A i \in 1..Len(ns): ns[i] <= top
    /\ CostOf(w, ns) <= ReplayBytes /\ Len(ns) <= ReplayChunks

Disposed(r, led) ==
    /\ Range(r.chunks) \cup led.evicted \cup led.gone = 1..r.cursor
    /\ Range(r.chunks) \cap led.evicted = {} /\ Range(r.chunks) \cap led.gone = {}
    /\ led.evicted \cap led.gone = {} /\ r.evicted = Cardinality(led.evicted)

ReplayOk(r, led, sv) ==
    /\ r \in Replays /\ (~r.opened => r = NewReplay)
    /\ KeptOk(r.chunks, r.cursor, sv.chunks)
    /\ ManifestOk(r.manifest, sv) /\ r.cursor <= r.manifest.resolved
    /\ r.last # NoProposal => r.last.next = r.cursor /\ Coherent(r.last)
    /\ Disposed(r, led) /\ led.gone \subseteq sv.lost

(* The client is where the replay is, and saw no older manifest.           *)
Clients == [cursor: 0..MaxSeq, manifest: Manifests, policy: Policies \cup {Unobserved}]
ClientOk(cl, r, sv) ==
    /\ ManifestOk(cl.manifest, sv) /\ cl.cursor = r.cursor
    /\ cl.cursor <= cl.manifest.resolved /\ ~Regressed(r.manifest, cl.manifest)

(* What a fetch leaves out up to where it reaches is lost.                 *)
Fetches == [admitted: Seq(ChunkNumbers), tail: BOOLEAN, got: Nat]
ReachOf(f, cl) == IF f.admitted = <<>> THEN cl.cursor ELSE f.admitted[Len(f.admitted)]
FetchOk(f, cl, sv) ==
    /\ Increasing(f.admitted)
    /\ \A i \in 1..Len(f.admitted):
         cl.cursor < f.admitted[i] /\ f.admitted[i] <= cl.manifest.resolved
    /\ \A n \in (cl.cursor + 1)..ReachOf(f, cl): n \in Range(f.admitted) \/ n \in sv.lost
    /\ f.tail => (ReachOf(f, cl) + 1)..cl.manifest.resolved \subseteq sv.lost
    /\ f.admitted = <<>> /\ ~f.tail => cl.manifest.resolved < cl.manifest.production
FetchInv ==
    /\ fetch \in Fetches
    /\ pc \in {"lease", "download", "release", "abort", "ingest"} => FetchOk(fetch, client, server)
    /\ pc \in {"lease", "download", "release", "abort"} => fetch.admitted # <<>>
    /\ pc = "lease" => fetch.got = 0
    /\ pc = "download" => fetch.got < Len(fetch.admitted)
    /\ pc \in {"release", "ingest"} => fetch.got = Len(fetch.admitted)

(* The index is of no later replay, and if its signature is that of the    *)
(* replay r it indexes what r retains.                                     *)
IndexExact(x, r) ==
    x.signature = Signature(r) /\ x.cursor = r.cursor /\ x.chunks = r.chunks
IndexOk(x, r) ==
    x.signature # <<>> =>
      /\ x.cursor \in Nat /\ x.cursor <= r.cursor
      /\ \E e, l \in Nat: x.signature = <<x.cursor, e, l>>
      /\ x.signature = Signature(r) => x.chunks = r.chunks

DiskOk(d, sv) ==
    d.opened =>
      /\ ReplayOk(d.replay, d.ledger, sv) /\ d.replay.opened
      /\ d.cursor = d.replay.cursor /\ d.policy \in Policies \cup {Unobserved}
      /\ IndexExact(d.index, d.replay)

LeaseInv ==
    ~leaked => server.leases \subseteq IF pc \in {"download", "release", "abort"}
                                       THEN {Pinned} ELSE {}

ControlInv ==
    /\ pc \in {"idle", "page", "lease", "download", "release", "abort", "ingest", "off"}
    /\ runs \in 1..MaxRuns /\ leaked \in BOOLEAN /\ fault = FALSE

IInv ==
    /\ ServerOk(server) /\ ReplayOk(replay, ledger, server)
    /\ client \in Clients
    /\ pc # "off" => ClientOk(client, replay, server) /\ IndexOk(sampler, replay)
    /\ FetchInv /\ DiskOk(disk, server) /\ disk.opened \in BOOLEAN /\ LeaseInv /\ ControlInv

-----------------------------------------------------------------------------
(* Least and greatest elements, and recursion along the numbers.           *)

LEMMA NatMin ==
    ASSUME NEW T \in SUBSET Nat, T # {}
    PROVE  \E x \in T: \A y \in T: x <= y
<1>1. PICK R: R = OpToRel(<, Nat)
  OBVIOUS
<1>2. IsWellFoundedOn(R, Nat)
  BY <1>1, NatLessThanWellFounded
<1>3. \E x \in T: \A y \in T: ~(<<y, x>> \in R)
  BY <1>2, WFMin
<1>4. \A x, y \in T: ~(<<y, x>> \in R) => x <= y
  BY <1>1 DEF OpToRel
<1> QED BY <1>3, <1>4

LEMMA MinIs ==
    ASSUME NEW T \in SUBSET Nat, T # {}
    PROVE  Min(T) \in T /\ \A y \in T: Min(T) <= y
<1>1. \E x \in T: \A y \in T: x <= y
  BY NatMin
<1> QED BY <1>1 DEF Min

LEMMA MaxIs ==
    ASSUME NEW T \in SUBSET Nat, T # {}, NEW n \in Nat, \A y \in T: y <= n
    PROVE  Max(T) \in T /\ \A y \in T: y <= Max(T)
<1>1. PICK D: D = {n - x: x \in T}
  OBVIOUS
<1>2. D \in SUBSET Nat /\ D # {}
  <2>1. \A x \in T: n - x \in Nat
    <3>1. \A x \in T: x \in Nat /\ x <= n
      OBVIOUS
    <3> QED BY <3>1
  <2>2. PICK x \in T: TRUE
    OBVIOUS
  <2>3. n - x \in D
    BY <1>1, <2>2
  <2> QED BY <1>1, <2>1, <2>3
<1>3. PICK d \in D: \A e \in D: d <= e
  BY <1>2, NatMin
<1>4. PICK x \in T: d = n - x
  BY <1>1, <1>3
<1>5. ASSUME NEW y \in T PROVE x >= y
  <2>1. n - y \in D
    BY <1>1
  <2>2. n - x <= n - y
    BY <1>3, <1>4, <2>1
  <2> QED BY <2>2
<1>6. \E z \in T: \A y \in T: z >= y
  BY <1>5
<1>7. Max(T) \in T /\ \A y \in T: Max(T) >= y
  BY <1>6 DEF Max
<1>8. \A y \in T: Max(T) >= y => y <= Max(T)
  BY <1>7
<1> QED BY <1>7, <1>8

(* A function that is defined by its value at 0 and by how it goes on      *)
(* exists, and two that go on alike are the same.                          *)
Rule(g, n, S) == g \in [(1..n) \X S -> S]
Follows(f, g, a, n, S) ==
    f \in [0..n -> S] /\ f[0] = a /\ \A k \in 1..n: f[k] = g[<<k, f[k - 1]>>]
GoAlike(f, h, n) == f[0] = h[0] /\ \A k \in 1..n: f[k - 1] = h[k - 1] => f[k] = h[k]
AreAlike(f, h, n) == \A k \in 0..n: f[k] = h[k]

LEMMA RecursionExists ==
    ASSUME NEW S, NEW a \in S, NEW n \in Nat, NEW g, Rule(g, n, S)
    PROVE  \E f: Follows(f, g, a, n, S)
<1> DEFINE Upto(f, m) == f[0] = a /\ \A k \in 1..m: f[k] = g[<<k, f[k - 1]>>]
<1>0. g \in [(1..n) \X S -> S]
  BY DEF Rule
<1>1. PICK T: T = {m \in 0..n: ~\E f \in [0..m -> S]: Upto(f, m)}
  OBVIOUS
<1>2. T = {}
  <2>1. ASSUME T # {} PROVE FALSE
    <3>1. T \in SUBSET Nat
      BY <1>1
    <3>2. PICK m \in T: \A k \in T: m <= k
      BY <2>1, <3>1, NatMin
    <3>3. m \in 0..n /\ ~\E f \in [0..m -> S]: Upto(f, m)
      BY <1>1
    <3>4. m # 0
      <4>1. ASSUME m = 0 PROVE FALSE
        <5>1. PICK f: f = [k \in 0..0 |-> a]
          OBVIOUS
        <5>2. f \in [0..0 -> S] /\ f[0] = a
          BY <5>1
        <5>3. 1..0 = {}
          OBVIOUS
        <5> QED BY <3>3, <4>1, <5>2, <5>3
      <4> QED BY <4>1
    <3>5. m - 1 \in 0..n /\ ~(m - 1 \in T)
      BY <3>2, <3>3, <3>4
    <3>6. PICK f \in [0..(m - 1) -> S]: Upto(f, m - 1)
      BY <1>1, <3>5
    <3>7. f[m - 1] \in S /\ <<m, f[m - 1]>> \in (1..n) \X S
      BY <3>3, <3>4, <3>6
    <3>8. PICK h: h = [k \in 0..m |-> IF k = m THEN g[<<m, f[m - 1]>>] ELSE f[k]]
      OBVIOUS
    <3>9. h \in [0..m -> S]
      <4>1. g[<<m, f[m - 1]>>] \in S
        BY <1>0, <3>7
      <4>2. \A k \in 0..m: k # m => k \in 0..(m - 1)
        BY <3>3
      <4> QED BY <3>8, <4>1, <4>2
    <3>10. h[0] = a
      BY <3>3, <3>4, <3>6, <3>8
    <3>11. ASSUME NEW k \in 1..m PROVE h[k] = g[<<k, h[k - 1]>>]
      <4>1. k - 1 \in 0..m /\ k - 1 # m
        BY <3>3
      <4>2. h[k - 1] = f[k - 1]
        BY <3>8, <4>1
      <4>3. CASE k = m
        <5>1. m \in 0..m
          BY <3>3
        <5>2. h[m] = g[<<m, f[m - 1]>>]
          BY <3>8, <5>1
        <5> QED BY <4>2, <4>3, <5>2
      <4>4. CASE k # m
        <5>1. k \in 1..(m - 1) /\ k \in 0..m
          BY <3>3, <4>4
        <5>2. f[k] = g[<<k, f[k - 1]>>]
          BY <3>6, <5>1
        <5> QED BY <3>8, <4>2, <4>4, <5>1, <5>2
      <4> QED BY <4>3, <4>4
    <3> QED BY <3>3, <3>9, <3>10, <3>11
  <2> QED BY <2>1
<1>3. PICK f \in [0..n -> S]: Upto(f, n)
  <2>1. n \in 0..n
    OBVIOUS
  <2>2. ~(n \in T)
    BY <1>2
  <2> QED BY <1>1, <2>1, <2>2
<1>4. Follows(f, g, a, n, S)
  BY <1>3 DEF Follows
<1> QED BY <1>4

LEMMA Alike ==
    ASSUME NEW n \in Nat, NEW f, NEW h, GoAlike(f, h, n)
    PROVE  AreAlike(f, h, n)
<1>2. f[0] = h[0] /\ \A k \in 1..n: f[k - 1] = h[k - 1] => f[k] = h[k]
  BY DEF GoAlike
<1>3. PICK T: T = {k \in 0..n: f[k] # h[k]}
  OBVIOUS
<1>4. T = {}
  <2>1. ASSUME T # {} PROVE FALSE
    <3>1. T \in SUBSET Nat
      BY <1>3
    <3>2. PICK k \in T: \A m \in T: k <= m
      BY <2>1, <3>1, NatMin
    <3>3. k \in 0..n /\ f[k] # h[k]
      BY <1>3
    <3>4. k # 0
      BY <1>2, <3>3
    <3>5. k - 1 \in 0..n /\ ~(k - 1 \in T)
      BY <3>2, <3>3, <3>4
    <3>6. f[k - 1] = h[k - 1]
      BY <1>3, <3>5
    <3>7. k \in 1..n
      BY <3>3, <3>4
    <3> QED BY <1>2, <3>3, <3>6, <3>7
  <2> QED BY <2>1
<1> QED BY <1>3, <1>4 DEF AreAlike

-----------------------------------------------------------------------------
(* What a list of chunks costs.                                            *)

Sums(f, w, ns) ==
    f \in [0..Len(ns) -> Nat] /\ f[0] = 0 /\ \A k \in 1..Len(ns): f[k] = f[k - 1] + w[ns[k]]

LEMMA SumsExist ==
    ASSUME NEW w \in Seq(Nat), NEW ns \in Seq(1..Len(w))
    PROVE  \E f: Sums(f, w, ns)
<1>1. PICK n \in Nat: n = Len(ns)
  OBVIOUS
<1>0. PICK S: S = Nat
  OBVIOUS
<1>2. PICK g: g = [p \in (1..n) \X Nat |-> p[2] + w[ns[p[1]]]]
  OBVIOUS
<1>3. \A k \in 1..n: w[ns[k]] \in Nat
  <2>1. \A k \in 1..n: ns[k] \in 1..Len(w)
    BY <1>1
  <2>2. \A i \in 1..Len(w): w[i] \in Nat
    OBVIOUS
  <2> QED BY <2>1, <2>2
<1>4. \A k \in 1..n, m \in Nat: <<k, m>> \in (1..n) \X Nat /\ g[<<k, m>>] = m + w[ns[k]]
  BY <1>2
<1>5. g \in [(1..n) \X Nat -> Nat]
  <2>1. \A p \in (1..n) \X Nat: p[2] \in Nat /\ p[1] \in 1..n
    OBVIOUS
  <2>2. \A p \in (1..n) \X Nat: p[2] + w[ns[p[1]]] \in Nat
    BY <1>3, <2>1
  <2> QED BY <1>2, <2>2
<1>6. \E f \in [0..n -> Nat]: f[0] = 0 /\ \A k \in 1..n: f[k] = g[<<k, f[k - 1]>>]
  <2>1. 0 \in Nat
    OBVIOUS
  <2>2. 0 \in S /\ g \in [(1..n) \X S -> S]
    BY <1>0, <1>5
  <2>3. Rule(g, n, S)
    BY <2>2 DEF Rule
  <2>4. \E f: Follows(f, g, 0, n, S)
    BY <2>2, <2>3, RecursionExists
  <2> QED BY <1>0, <2>4 DEF Follows
<1>7. PICK f \in [0..n -> Nat]: f[0] = 0 /\ \A k \in 1..n: f[k] = g[<<k, f[k - 1]>>]
  BY <1>6
<1>8. ASSUME NEW k \in 1..n PROVE f[k] = f[k - 1] + w[ns[k]]
  <2>1. k - 1 \in 0..n
    BY <1>1
  <2>2. f[k - 1] \in Nat
    BY <2>1
  <2> QED BY <1>4, <1>7, <2>2
<1>9. Sums(f, w, ns)
  BY <1>1, <1>7, <1>8 DEF Sums
<1> QED BY <1>9

LEMMA CostIs ==
    ASSUME NEW w, NEW ns, Len(ns) \in Nat, NEW f, Sums(f, w, ns)
    PROVE  CostOf(w, ns) = f[Len(ns)]
<1>1. PICK n \in Nat: n = Len(ns)
  OBVIOUS
<1>2. f \in [0..n -> Nat] /\ f[0] = 0 /\ \A k \in 1..n: f[k] = f[k - 1] + w[ns[k]]
  BY <1>1 DEF Sums
<1>3. \A k \in 0..n: f[k] = IF k = 0 THEN 0 ELSE f[k - 1] + w[ns[k]]
  <2>1. \A k \in 0..n: k = 0 \/ k \in 1..n
    OBVIOUS
  <2> QED BY <1>2, <2>1
<1>4. f = [k \in 0..n |-> IF k = 0 THEN 0 ELSE f[k - 1] + w[ns[k]]]
  BY <1>2, <1>3
<1>5. PICK s: s = CHOOSE sum: sum = [k \in 0..n |-> IF k = 0 THEN 0 ELSE sum[k - 1] + w[ns[k]]]
  OBVIOUS
<1>6. s = [k \in 0..n |-> IF k = 0 THEN 0 ELSE s[k - 1] + w[ns[k]]]
  <2>1. \E sum: sum = [k \in 0..n |-> IF k = 0 THEN 0 ELSE sum[k - 1] + w[ns[k]]]
    BY <1>4
  <2> QED BY <1>5, <2>1, Zenon
<1>7. \A k \in 0..n: s[k] = IF k = 0 THEN 0 ELSE s[k - 1] + w[ns[k]]
  BY <1>6, Zenon
<1>8. f[0] = s[0]
  <2>1. 0 \in 0..n
    OBVIOUS
  <2> QED BY <1>2, <1>7, <2>1
<1>9. \A k \in 1..n: f[k - 1] = s[k - 1] => f[k] = s[k]
  <2>1. \A k \in 1..n: k \in 0..n /\ k # 0
    OBVIOUS
  <2> QED BY <1>2, <1>7, <2>1
<1>10. \A k \in 0..n: f[k] = s[k]
  <2>1. GoAlike(f, s, n)
    BY <1>8, <1>9 DEF GoAlike
  <2>2. AreAlike(f, s, n)
    BY <2>1, Alike
  <2> QED BY <2>2 DEF AreAlike
<1>11. CostOf(w, ns) = s[n]
  BY <1>1, <1>5, Zenon DEF CostOf
<1>12. n \in 0..n
  OBVIOUS
<1> QED BY <1>1, <1>10, <1>11, <1>12

LEMMA CostEmpty ==
    ASSUME NEW w \in Seq(Nat)
    PROVE  CostOf(w, <<>>) = 0
<1>1. <<>> \in Seq(1..Len(w)) /\ Len(<<>>) = 0
  OBVIOUS
<1>2. PICK f: Sums(f, w, <<>>)
  BY <1>1, SumsExist
<1>3. CostOf(w, <<>>) = f[0]
  BY <1>1, <1>2, CostIs
<1> QED BY <1>2, <1>3 DEF Sums

LEMMA CostAppend ==
    ASSUME NEW w \in Seq(Nat), NEW ns \in Seq(1..Len(w)), NEW n \in 1..Len(w)
    PROVE  CostOf(w, Append(ns, n)) = CostOf(w, ns) + w[n]
<1>1. PICK f: Sums(f, w, ns)
  BY SumsExist
<1>2. PICK ms \in Seq(1..Len(w)): ms = Append(ns, n)
  BY AppendProperties
<1>3. Len(ms) = Len(ns) + 1 /\ Len(ns) \in Nat /\ ms[Len(ms)] = n
      /\ \A k \in 1..Len(ns): ms[k] = ns[k]
  BY <1>2
<1>4. PICK h: Sums(h, w, ms)
  BY SumsExist
<1>5. CostOf(w, ns) = f[Len(ns)] /\ CostOf(w, ms) = h[Len(ms)]
  BY <1>1, <1>3, <1>4, CostIs
<1>6. f[0] = h[0]
  BY <1>1, <1>4 DEF Sums
<1>7. \A k \in 1..Len(ns): f[k - 1] = h[k - 1] => f[k] = h[k]
  <2>1. \A k \in 1..Len(ns): f[k] = f[k - 1] + w[ns[k]]
    BY <1>1 DEF Sums
  <2>2. \A k \in 1..Len(ms): h[k] = h[k - 1] + w[ms[k]]
    BY <1>4 DEF Sums
  <2>3. \A k \in 1..Len(ns): k \in 1..Len(ms)
    BY <1>3
  <2> QED BY <1>3, <2>1, <2>2, <2>3
<1>8. f[Len(ns)] = h[Len(ns)]
  <2>1. PICK m \in Nat: m = Len(ns)
    BY <1>3
  <2>2. \A k \in 1..m: f[k - 1] = h[k - 1] => f[k] = h[k]
    BY <1>7, <2>1
  <2>5. GoAlike(f, h, m)
    BY <1>6, <2>2 DEF GoAlike
  <2>6. AreAlike(f, h, m)
    BY <2>5, Alike
  <2>3. \A k \in 0..m: f[k] = h[k]
    BY <2>6 DEF AreAlike
  <2>4. m \in 0..m
    OBVIOUS
  <2> QED BY <2>1, <2>3, <2>4
<1>9. h[Len(ms)] = h[Len(ns)] + w[n]
  <2>1. Len(ms) \in 1..Len(ms) /\ Len(ms) - 1 = Len(ns)
    BY <1>3
  <2> QED BY <1>3, <1>4, <2>1 DEF Sums
<1> QED BY <1>2, <1>5, <1>8, <1>9

LEMMA CostOfOne ==
    ASSUME NEW w \in Seq(Nat), NEW n \in 1..Len(w)
    PROVE  CostOf(w, <<n>>) = w[n]
<1>1. <<>> \in Seq(1..Len(w)) /\ Append(<<>>, n) = <<n>>
  OBVIOUS
<1>2. CostOf(w, Append(<<>>, n)) = CostOf(w, <<>>) + w[n]
  BY <1>1, CostAppend
<1>3. w[n] \in Nat
  OBVIOUS
<1> QED BY <1>1, <1>2, <1>3, CostEmpty

(* A chunk sealed later changes the cost of no list.                       *)
LEMMA CostStays ==
    ASSUME NEW w \in Seq(Nat), NEW size \in Nat, NEW ns \in Seq(1..Len(w))
    PROVE  CostOf(Append(w, size), ns) = CostOf(w, ns)
<1>1. PICK v \in Seq(Nat): v = Append(w, size)
  BY AppendProperties
<1>2. Len(v) = Len(w) + 1 /\ \A k \in 1..Len(w): v[k] = w[k]
  BY <1>1
<1>3. PICK f: Sums(f, w, ns)
  BY SumsExist
<1>4. Sums(f, v, ns)
  <2>1. \A k \in 1..Len(ns): ns[k] \in 1..Len(w)
    OBVIOUS
  <2>2. \A k \in 1..Len(ns): v[ns[k]] = w[ns[k]]
    BY <1>2, <2>1
  <2> QED BY <1>3, <2>2 DEF Sums
<1>5. Len(ns) \in Nat
  OBVIOUS
<1> QED BY <1>1, <1>3, <1>4, <1>5, CostIs

-----------------------------------------------------------------------------
(* Making room and admitting.                                              *)

LEMMA CostHere ==
    ASSUME NEW ns
    PROVE  Cost(ns) = CostOf(server.chunks, ns)
BY DEF Cost, CostOf

LEMMA Sized ==
    ASSUME NEW w \in Seq(Sizes)
    PROVE  w \in Seq(Nat) /\ \A n \in 1..Len(w): w[n] <= ReplayBytes /\ w[n] <= FetchBytes
<1>1. Sizes \subseteq Nat /\ \A s \in Sizes: s <= FetchBytes /\ s <= ReplayBytes
  BY IntakeAssumption
<1>2. \A n \in 1..Len(w): w[n] \in Sizes
  OBVIOUS
<1>3. w \in Seq(Nat)
  <2>1. w \in [1..Len(w) -> Sizes] /\ Len(w) \in Nat
    OBVIOUS
  <2>2. w \in [1..Len(w) -> Nat]
    BY <1>1, <2>1
  <2> QED BY <2>1, <2>2
<1> QED BY <1>1, <1>2, <1>3

LEMMA RangeIs ==
    ASSUME NEW S, NEW ns \in Seq(S), NEW x
    PROVE  x \in Range(ns) <=> \E i \in 1..Len(ns): x = ns[i]
<1>1. DOMAIN ns = 1..Len(ns)
  OBVIOUS
<1> QED BY <1>1 DEF Range

(* What is left of ns when room was made for n.                            *)
RoomMade(ns, ms, n, w) ==
    /\ ms \in Seq(1..Len(w)) /\ Len(ms) < ReplayChunks
    /\ CostOf(w, ms) + w[n] <= ReplayBytes
    /\ \E k \in 0..Len(ns): Len(ms) = Len(ns) - k /\ \A i \in 1..Len(ms): ms[i] = ns[k + i]

LEMMA RestIs ==
    ASSUME NEW S, NEW ns \in Seq(S), NEW k \in 0..Len(ns)
    PROVE  LET ms == SubSeq(ns, k + 1, Len(ns))
           IN ms \in Seq(S) /\ Len(ms) = Len(ns) - k /\ \A i \in 1..Len(ms): ms[i] = ns[k + i]
<1>1. PICK m \in Nat: m = Len(ns)
  OBVIOUS
<1>2. PICK ms: ms = SubSeq(ns, k + 1, m)
  OBVIOUS
<1>3. ms = [i \in 1..(m - k) |-> ns[i + k]]
  <2>1. (1 + m) - (k + 1) = m - k /\ \A i \in 1..(m - k): (k + 1 + i) - 1 = i + k
    BY <1>1
  <2> QED BY <1>1, <1>2, <2>1
<1>4. \A i \in 1..(m - k): ns[i + k] \in S
  <2>1. \A i \in 1..(m - k): i + k \in 1..Len(ns)
    BY <1>1
  <2> QED BY <2>1
<1>5. m - k \in Nat
  BY <1>1
<1>6. ms \in Seq(S) /\ Len(ms) = m - k
  BY <1>3, <1>4, <1>5
<1>7. \A i \in 1..(m - k): ms[i] = ns[k + i]
  <2>1. \A i \in 1..(m - k): i + k = k + i
    BY <1>1
  <2> QED BY <1>3, <2>1
<1> QED BY <1>1, <1>2, <1>6, <1>7

LEMMA RoomForIs ==
    ASSUME NEW w \in Seq(Sizes), w = server.chunks, NEW ns \in Seq(1..Len(w)),
           NEW n \in 1..Len(w)
    PROVE  RoomMade(ns, RoomFor(ns, n), n, w)
<1>1. PICK T: T = {j \in 0..Len(ns): j = Len(ns) \/ ~Overfull(SubSeq(ns, j + 1, Len(ns)), n)}
  OBVIOUS
<1>2. T \in SUBSET Nat /\ Len(ns) \in T
  <2>1. Len(ns) \in 0..Len(ns)
    OBVIOUS
  <2> QED BY <1>1, <2>1
<1>3. PICK k: k = Min(T)
  OBVIOUS
<1>4. k \in T
  BY <1>2, <1>3, MinIs
<1>5. k \in 0..Len(ns) /\ (k = Len(ns) \/ ~Overfull(SubSeq(ns, k + 1, Len(ns)), n))
  BY <1>1, <1>4
<1>6. PICK ms: ms = SubSeq(ns, k + 1, Len(ns))
  OBVIOUS
<1>7. ms \in Seq(1..Len(w)) /\ Len(ms) = Len(ns) - k /\ \A i \in 1..Len(ms): ms[i] = ns[k + i]
  BY <1>5, <1>6, RestIs
<1>8. RoomFor(ns, n) = ms
  BY <1>1, <1>3, <1>6, Zenon DEF RoomFor
<1>9. w \in Seq(Nat) /\ w[n] \in Nat /\ w[n] <= ReplayBytes
  BY Sized, ElementOfSeq
<1>10. Len(ms) < ReplayChunks /\ CostOf(w, ms) + w[n] <= ReplayBytes
  <2>1. CASE k = Len(ns)
    <3>1. ms = <<>>
      BY <1>7, <2>1, EmptySeq
    <3>2. CostOf(w, ms) = 0
      BY <1>9, <3>1, CostEmpty
    <3>3. Len(ms) = 0 /\ 0 < ReplayChunks
      BY <1>7, <2>1, IntakeAssumption
    <3> QED BY <1>9, <3>2, <3>3
  <2>2. CASE ~Overfull(ms, n)
    <3>1. ~(Cost(ms) + server.chunks[n] > ReplayBytes) /\ ~(Len(ms) >= ReplayChunks)
      BY <2>2, Zenon DEF Overfull
    <3>2. Cost(ms) = CostOf(w, ms)
      BY CostHere
    <3>3. PICK c: c = CostOf(w, ms)
      OBVIOUS
    <3>4. PICK f: Sums(f, w, ms)
      BY <1>7, <1>9, SumsExist
    <3>5. Len(ms) \in Nat
      BY <1>7
    <3>6. c = f[Len(ms)]
      BY <3>3, <3>4, <3>5, CostIs
    <3>7. c \in Nat
      BY <3>4, <3>5, <3>6 DEF Sums
    <3>8. ReplayBytes \in Nat /\ ReplayChunks \in Nat
      BY IntakeAssumption
    <3> QED BY <1>9, <3>1, <3>2, <3>3, <3>5, <3>7, <3>8
  <2> QED BY <1>5, <1>6, <2>1, <2>2
<1>11. RoomMade(ns, ms, n, w)
  BY <1>5, <1>7, <1>10 DEF RoomMade
<1> QED BY <1>8, <1>11

(* One more chunk: what is retained stays in order and within bounds.      *)
Admits(ns, ms, n, w) ==
    /\ ms \in Seq(1..Len(w))
    /\ \A top \in Nat: top < n /\ KeptOk(ns, top, w) => KeptOk(ms, n, w)
    /\ \A x: x \in Range(ms) => x = n \/ x \in Range(ns)

LEMMA AdmitOneIs ==
    ASSUME NEW w \in Seq(Sizes), w = server.chunks, NEW ns \in Seq(1..Len(w)),
           NEW n \in 1..Len(w)
    PROVE  Admits(ns, AdmitOne(n, ns), n, w)
<1>1. PICK rs: rs = RoomFor(ns, n)
  OBVIOUS
<1>2. RoomMade(ns, rs, n, w)
  BY <1>1, RoomForIs
<1>3. rs \in Seq(1..Len(w)) /\ Len(rs) < ReplayChunks /\ CostOf(w, rs) + w[n] <= ReplayBytes
  BY <1>2 DEF RoomMade
<1>4. PICK k \in 0..Len(ns): Len(rs) = Len(ns) - k /\ \A i \in 1..Len(rs): rs[i] = ns[k + i]
  BY <1>2 DEF RoomMade
<1>5. PICK m \in Nat: m = Len(rs)
  BY <1>3
<1>6. PICK ms: ms = Append(rs, n)
  OBVIOUS
<1>7. ms \in Seq(1..Len(w)) /\ Len(ms) = m + 1 /\ ms[m + 1] = n /\ \A i \in 1..m: ms[i] = rs[i]
  BY <1>3, <1>5, <1>6, AppendProperties
<1>8. \A i \in 1..m: k + i \in 1..Len(ns) /\ ms[i] = ns[k + i]
  <2>1. PICK l \in Nat: l = Len(ns)
    OBVIOUS
  <2>2. \A i \in 1..m: k + i \in 1..l
    BY <1>4, <1>5, <2>1
  <2> QED BY <1>4, <1>5, <1>7, <2>1, <2>2
<1>9. CostOf(w, ms) <= ReplayBytes /\ Len(ms) <= ReplayChunks
  <2>1. w \in Seq(Nat)
    BY Sized
  <2>2. CostOf(w, ms) = CostOf(w, rs) + w[n]
    BY <1>3, <1>6, <2>1, CostAppend
  <2>3. ReplayChunks \in Nat
    BY IntakeAssumption
  <2> QED BY <1>3, <1>5, <1>7, <2>2, <2>3
<1>10. ASSUME NEW top \in Nat, top < n, KeptOk(ns, top, w) PROVE KeptOk(ms, n, w)
  <2>1. Increasing(ns) /\ \A i \in 1..Len(ns): ns[i] <= top
    BY <1>10 DEF KeptOk
  <2>2. \A i \in 1..m: ms[i] \in Nat /\ ms[i] <= top
    <3>1. \A i \in 1..Len(ns): ns[i] \in Nat
      OBVIOUS
    <3> QED BY <1>8, <2>1, <3>1
  <2>3. ASSUME NEW i \in 1..(m + 1), NEW j \in 1..(m + 1), i < j PROVE ms[i] < ms[j]
    <3>1. i \in 1..m
      BY <2>3
    <3>2. CASE j = m + 1
      BY <1>7, <1>10, <2>2, <3>1, <3>2
    <3>3. CASE j # m + 1
      <4>1. j \in 1..m
        BY <3>3
      <4>2. k + i < k + j
        BY <2>3
      <4>3. ns[k + i] < ns[k + j]
        BY <1>8, <2>1, <3>1, <4>1, <4>2 DEF Increasing
      <4> QED BY <1>8, <3>1, <4>1, <4>3
    <3> QED BY <3>2, <3>3
  <2>4. Increasing(ms)
    BY <1>7, <2>3 DEF Increasing
  <2>5. \A i \in 1..Len(ms): ms[i] <= n
    <3>1. ASSUME NEW i \in 1..(m + 1) PROVE ms[i] <= n
      <4>1. CASE i = m + 1
        BY <1>7, <4>1
      <4>2. CASE i # m + 1
        <5>1. i \in 1..m
          BY <4>2
        <5> QED BY <1>10, <2>2, <5>1
      <4> QED BY <4>1, <4>2
    <3> QED BY <1>7, <3>1
  <2> QED BY <1>7, <1>9, <2>4, <2>5 DEF KeptOk
<1>11. ASSUME NEW x, x \in Range(ms) PROVE x = n \/ x \in Range(ns)
  <2>1. PICK i \in 1..(m + 1): x = ms[i]
    BY <1>7, <1>11, RangeIs
  <2>2. CASE i = m + 1
    BY <1>7, <2>1, <2>2
  <2>3. CASE i # m + 1
    <3>1. i \in 1..m
      BY <2>3
    <3> QED BY <1>8, <2>1, <3>1, RangeIs
  <2> QED BY <2>2, <2>3
<1>12. Admits(ns, ms, n, w)
  BY <1>7, <1>10, <1>11 DEF Admits
<1>13. AdmitOne(n, ns) = ms
  BY <1>1, <1>6, Zenon DEF AdmitOne
<1> QED BY <1>12, <1>13

-----------------------------------------------------------------------------
(* Admitting a whole proposal.                                             *)

Plans(f, ns, new, w) ==
    /\ f \in [0..Len(new) -> Seq(1..Len(w))] /\ f[0] = ns
    /\ \A k \in 1..Len(new): f[k] = AdmitOne(new[k], f[k - 1])

LEMMA PlanExists ==
    ASSUME NEW w \in Seq(Sizes), w = server.chunks, NEW ns \in Seq(1..Len(w)),
           NEW new \in Seq(1..Len(w))
    PROVE  \E f: Plans(f, ns, new, w)
<1>1. PICK n \in Nat: n = Len(new)
  OBVIOUS
<1>2. PICK S: S = Seq(1..Len(w))
  OBVIOUS
<1>3. PICK g: g = [p \in (1..n) \X S |-> AdmitOne(new[p[1]], p[2])]
  OBVIOUS
<1>4. ASSUME NEW k \in 1..n, NEW s \in S
      PROVE  AdmitOne(new[k], s) \in S
  <2>1. new[k] \in 1..Len(w) /\ s \in Seq(1..Len(w))
    BY <1>1, <1>2
  <2>2. Admits(s, AdmitOne(new[k], s), new[k], w)
    BY <2>1, AdmitOneIs
  <2> QED BY <1>2, <2>2 DEF Admits
<1>5. \A k \in 1..n, s \in S: g[<<k, s>>] = AdmitOne(new[k], s)
  <2>1. \A k \in 1..n, s \in S: <<k, s>> \in (1..n) \X S /\ <<k, s>>[1] = k /\ <<k, s>>[2] = s
    OBVIOUS
  <2> QED BY <1>3, <2>1
<1>6. Rule(g, n, S)
  <2>1. \A p \in (1..n) \X S: p[1] \in 1..n /\ p[2] \in S
    OBVIOUS
  <2>2. \A p \in (1..n) \X S: AdmitOne(new[p[1]], p[2]) \in S
    BY <1>4, <2>1
  <2>3. g \in [(1..n) \X S -> S]
    BY <1>3, <2>2
  <2> QED BY <2>3 DEF Rule
<1>7. ns \in S
  BY <1>2
<1>8. PICK f: Follows(f, g, ns, n, S)
  BY <1>6, <1>7, RecursionExists
<1>9. f \in [0..n -> S] /\ f[0] = ns /\ \A k \in 1..n: f[k] = g[<<k, f[k - 1]>>]
  BY <1>8 DEF Follows
<1>10. ASSUME NEW k \in 1..n PROVE f[k] = AdmitOne(new[k], f[k - 1])
  <2>1. k - 1 \in 0..n
    OBVIOUS
  <2>2. f[k - 1] \in S
    BY <1>9, <2>1
  <2> QED BY <1>5, <1>9, <2>2
<1>11. Plans(f, ns, new, w)
  BY <1>1, <1>2, <1>9, <1>10 DEF Plans
<1> QED BY <1>11

LEMMA PlannedIs ==
    ASSUME NEW w, NEW ns, NEW new, Len(new) \in Nat, NEW f, Plans(f, ns, new, w)
    PROVE  Planned(ns, new) = f[Len(new)]
<1>1. PICK n \in Nat: n = Len(new)
  OBVIOUS
<1>2. DOMAIN f = 0..n /\ f = [k \in 0..n |-> f[k]]
      /\ f[0] = ns /\ \A k \in 1..n: f[k] = AdmitOne(new[k], f[k - 1])
  BY <1>1 DEF Plans
<1>3. \A k \in 0..n: f[k] = IF k = 0 THEN ns ELSE AdmitOne(new[k], f[k - 1])
  <2>1. \A k \in 0..n: k = 0 \/ (k # 0 /\ k \in 1..n)
    OBVIOUS
  <2> QED BY <1>2, <2>1, Zenon
<1>4. f = [k \in 0..n |-> IF k = 0 THEN ns ELSE AdmitOne(new[k], f[k - 1])]
  BY <1>2, <1>3, Zenon
<1>5. PICK s: s = CHOOSE plan: plan = [k \in 0..n |-> IF k = 0 THEN ns
                                                      ELSE AdmitOne(new[k], plan[k - 1])]
  OBVIOUS
<1>6. s = [k \in 0..n |-> IF k = 0 THEN ns ELSE AdmitOne(new[k], s[k - 1])]
  <2>1. \E plan: plan = [k \in 0..n |-> IF k = 0 THEN ns ELSE AdmitOne(new[k], plan[k - 1])]
    BY <1>4, Zenon
  <2> QED BY <1>5, <2>1, Zenon
<1>7. \A k \in 0..n: s[k] = IF k = 0 THEN ns ELSE AdmitOne(new[k], s[k - 1])
  BY <1>6, Zenon
<1>8. GoAlike(f, s, n)
  <2>1. 0 \in 0..n /\ \A k \in 1..n: k \in 0..n /\ k # 0
    OBVIOUS
  <2>2. s[0] = ns
    BY <1>7, <2>1, Zenon
  <2>3. \A k \in 1..n: s[k] = AdmitOne(new[k], s[k - 1])
    BY <1>7, <2>1, Zenon
  <2> QED BY <1>2, <2>2, <2>3, Zenon DEF GoAlike
<1>9. AreAlike(f, s, n)
  BY <1>8, Alike
<1>10. n \in 0..n
  OBVIOUS
<1>11. f[n] = s[n]
  BY <1>9, <1>10 DEF AreAlike
<1>12. Planned(ns, new) = s[n]
  BY <1>1, <1>5, Zenon DEF Planned
<1> QED BY <1>1, <1>11, <1>12

(* New chunks in order, later than those retained up to top.               *)
EndOf(new, top) == IF new = <<>> THEN top ELSE new[Len(new)]
Plannable(ns, new, top, w) ==
    /\ top \in Nat /\ KeptOk(ns, top, w) /\ new \in Seq(1..Len(w)) /\ Increasing(new)
    /\ \A i \in 1..Len(new): top < new[i]
PlanOk(ms, ns, new, top, w) ==
    /\ KeptOk(ms, EndOf(new, top), w)
    /\ \A x: x \in Range(ms) => x \in Range(ns) \/ x \in Range(new)

LEMMA PlannedKeeps ==
    ASSUME NEW w \in Seq(Sizes), w = server.chunks, NEW ns, NEW new, NEW top,
           Plannable(ns, new, top, w)
    PROVE  PlanOk(Planned(ns, new), ns, new, top, w)
<1>1. top \in Nat /\ KeptOk(ns, top, w) /\ new \in Seq(1..Len(w)) /\ Increasing(new)
      /\ (\A i \in 1..Len(new): top < new[i])
  BY DEF Plannable
<1>2. ns \in Seq(1..Len(w))
  BY <1>1 DEF KeptOk
<1>3. PICK f: Plans(f, ns, new, w)
  BY <1>1, <1>2, PlanExists
<1>4. PICK n \in Nat: n = Len(new)
  BY <1>1
<1>5. f \in [0..n -> Seq(1..Len(w))] /\ f[0] = ns
      /\ \A k \in 1..n: f[k] = AdmitOne(new[k], f[k - 1])
  BY <1>3, <1>4 DEF Plans
<1>6. \A k \in 1..n: new[k] \in Nat /\ new[k] \in 1..Len(w)
  BY <1>1, <1>4
<1> DEFINE Top(k) == IF k = 0 THEN top ELSE new[k]
           Holds(k) == /\ KeptOk(f[k], Top(k), w)
                       /\ \A x: x \in Range(f[k]) => x \in Range(ns) \/ x \in Range(new)
<1>7. PICK T: T = {k \in 0..n: ~Holds(k)}
  OBVIOUS
<1>8. T = {}
  <2>1. ASSUME T # {} PROVE FALSE
    <3>1. T \in SUBSET Nat
      BY <1>7
    <3>2. PICK k \in T: \A m \in T: k <= m
      BY <2>1, <3>1, NatMin
    <3>3. k \in 0..n /\ ~Holds(k)
      BY <1>7
    <3>4. k # 0
      <4>1. ASSUME k = 0 PROVE FALSE
        <5>1. Holds(0)
          BY <1>1, <1>5
        <5> QED BY <3>3, <4>1, <5>1
      <4> QED BY <4>1
    <3>5. k \in 1..n /\ k - 1 \in 0..n /\ ~(k - 1 \in T)
      BY <3>2, <3>3, <3>4
    <3>6. Holds(k - 1)
      BY <1>7, <3>5
    <3>7. Top(k - 1) \in Nat /\ Top(k - 1) < new[k]
      <4>1. CASE k - 1 = 0
        BY <1>1, <1>4, <3>5, <4>1
      <4>2. CASE k - 1 # 0
        <5>1. k - 1 \in 1..n /\ k - 1 < k
          BY <3>5, <4>2
        <5>2. new[k - 1] < new[k]
          BY <1>1, <1>4, <3>5, <5>1 DEF Increasing
        <5> QED BY <1>6, <4>2, <5>1, <5>2
      <4> QED BY <4>1, <4>2
    <3>8. PICK rs \in Seq(1..Len(w)): rs = f[k - 1]
      BY <1>5, <3>5
    <3>9. f[k] = AdmitOne(new[k], rs)
      BY <1>5, <3>5, <3>8
    <3>10. Admits(rs, f[k], new[k], w)
      BY <1>6, <3>5, <3>9, AdmitOneIs
    <3>11. KeptOk(rs, Top(k - 1), w)
      BY <3>6, <3>8
    <3>12. KeptOk(f[k], new[k], w)
      <4> HIDE DEF Top
      <4> QED BY <3>7, <3>10, <3>11 DEF Admits
    <3>13. ASSUME NEW x, x \in Range(f[k]) PROVE x \in Range(ns) \/ x \in Range(new)
      <4>1. x = new[k] \/ x \in Range(rs)
        BY <3>10, <3>13 DEF Admits
      <4>2. CASE x = new[k]
        BY <1>1, <1>4, <3>5, <4>2, RangeIs
      <4>3. CASE x \in Range(rs)
        BY <3>6, <3>8, <4>3
      <4> QED BY <4>1, <4>2, <4>3
    <3>14. Holds(k)
      BY <3>4, <3>12, <3>13
    <3> QED BY <3>3, <3>14
  <2> QED BY <2>1
<1>9. Holds(n)
  <2>1. n \in 0..n
    OBVIOUS
  <2> QED BY <1>7, <1>8, <2>1
<1>10. EndOf(new, top) = Top(n)
  <2>1. n = 0 <=> new = <<>>
    BY <1>1, <1>4
  <2> QED BY <1>4, <2>1 DEF EndOf
<1>11. Planned(ns, new) = f[n]
  BY <1>3, <1>4, PlannedIs
<1> HIDE DEF Top
<1> QED BY <1>9, <1>10, <1>11 DEF PlanOk

-----------------------------------------------------------------------------
(* The producer's watermark and what a page yields.                        *)

LEMMA ServerIs ==
    ASSUME NEW sv, ServerOk(sv)
    PROVE  /\ sv.chunks \in Seq(Sizes) /\ Len(sv.chunks) \in Nat /\ Len(sv.chunks) <= MaxSeq
           /\ \A n \in Settled(sv): n \in 1..Len(sv.chunks)
           /\ \A n: n \in Settled(sv) <=> n \in sv.stored \/ n \in sv.lost
<1>1. sv.chunks \in Seq(Sizes) /\ Len(sv.chunks) <= MaxSeq /\ Settled(sv) \subseteq 1..Len(sv.chunks)
  BY DEF ServerOk, Servers
<1>2. Len(sv.chunks) \in Nat
  BY <1>1
<1> QED BY <1>1, <1>2 DEF Settled

WatermarkOk(m, sv) ==
    /\ m \in 0..Len(sv.chunks) /\ 1..m \subseteq Settled(sv)
    /\ \A n \in 0..Len(sv.chunks): 1..n \subseteq Settled(sv) => n <= m

LEMMA ResolvedIs ==
    ASSUME ServerOk(server)
    PROVE  WatermarkOk(Resolved, server)
<1>1. PICK l \in Nat: l = Len(server.chunks)
  BY ServerIs
<1>2. PICK T: T = {n \in 0..l: 1..n \subseteq server.stored \cup server.lost}
  OBVIOUS
<1>3. T \in SUBSET Nat /\ 0 \in T /\ \A n \in T: n <= l
  <2>1. 1..0 = {} /\ 0 \in 0..l
    OBVIOUS
  <2> QED BY <1>2, <2>1
<1>4. Max(T) \in T /\ \A n \in T: n <= Max(T)
  BY <1>3, MaxIs
<1>5. Resolved = Max(T)
  BY <1>1, <1>2, Zenon DEF Resolved
<1> QED BY <1>1, <1>2, <1>4, <1>5 DEF WatermarkOk, Settled

(* The first k of a list.                                                  *)
LEMMA FirstIs ==
    ASSUME NEW S, NEW ns \in Seq(S), NEW k \in 0..Len(ns)
    PROVE  LET ms == SubSeq(ns, 1, k)
           IN ms \in Seq(S) /\ Len(ms) = k /\ \A i \in 1..k: ms[i] = ns[i]
<1>1. PICK m \in Nat: m = Len(ns)
  OBVIOUS
<1>2. PICK ms: ms = SubSeq(ns, 1, k)
  OBVIOUS
<1>3. ms = [i \in 1..k |-> ns[i]]
  <2>1. \A i \in 1..k: i + 1 - 1 = i
    BY <1>1
  <2> QED BY <1>1, <1>2, <2>1
<1>4. \A i \in 1..k: i \in 1..m
  BY <1>1
<1>5. k \in Nat /\ \A i \in 1..k: ns[i] \in S
  BY <1>1, <1>4
<1>6. ms \in Seq(S) /\ Len(ms) = k
  BY <1>3, <1>5
<1> QED BY <1>2, <1>3, <1>6

AdmittedOk(ns, page, top) ==
    /\ Len(ns) \in 0..Len(page)
    /\ \A i \in 1..Len(ns): ns[i] = page[i] /\ page[i] <= top
    /\ Len(ns) = 0 /\ Len(page) > 0 => page[1] > top

LEMMA AdmittedIs ==
    ASSUME ServerOk(server), NEW page \in Seq(1..Len(server.chunks))
    PROVE  /\ Admitted(page) \in Seq(1..Len(server.chunks))
           /\ AdmittedOk(Admitted(page), page, Resolved)
<1> DEFINE Fits(k) == /\ \A i \in 1..k: page[i] <= Resolved
                      /\ Cost(SubSeq(page, 1, k)) <= FetchBytes
<1>1. PICK w \in Seq(Sizes): w = server.chunks
  BY ServerIs
<1>2. PICK l \in Nat: l = Len(page)
  OBVIOUS
<1>3. Resolved \in 0..Len(w)
  BY <1>1, ResolvedIs DEF WatermarkOk
<1>4. w \in Seq(Nat) /\ FetchBytes \in Nat
  BY Sized, IntakeAssumption
<1>5. Fits(0)
  <2>1. SubSeq(page, 1, 0) = <<>>
    OBVIOUS
  <2>2. Cost(SubSeq(page, 1, 0)) = 0
    BY <1>1, <1>4, <2>1, CostHere, CostEmpty
  <2> QED BY <1>4, <2>2
<1>6. PICK T: T = {k \in 0..l: Fits(k)}
  OBVIOUS
<1>7. T \in SUBSET Nat /\ 0 \in T /\ \A k \in T: k <= l
  BY <1>5, <1>6
<1>8. PICK k: k = Max(T)
  OBVIOUS
<1>9. k \in T /\ \A j \in T: j <= k
  BY <1>7, <1>8, MaxIs
<1>10. k \in 0..l /\ Fits(k)
  BY <1>6, <1>9
<1>11. PICK ns: ns = SubSeq(page, 1, k)
  OBVIOUS
<1>12. ns \in Seq(1..Len(w)) /\ Len(ns) = k /\ \A i \in 1..k: ns[i] = page[i]
  BY <1>1, <1>2, <1>10, <1>11, FirstIs
<1>13. Admitted(page) = ns
  BY <1>2, <1>6, <1>8, <1>11, Zenon DEF Admitted
<1>14. ASSUME k = 0, l > 0 PROVE page[1] > Resolved
  <2>1. ~(1 \in T)
    BY <1>9, <1>14
  <2>2. ~Fits(1)
    BY <1>2, <1>6, <1>14, <2>1
  <2>3. page[1] \in 1..Len(w)
    BY <1>1, <1>2, <1>14
  <2>4. SubSeq(page, 1, 1) = <<page[1]>>
    <3>1. 1 \in 0..Len(page) /\ SubSeq(page, 1, 1) \in Seq(1..Len(w))
      BY <1>1, <1>2, <1>14, FirstIs
    <3>2. Len(SubSeq(page, 1, 1)) = 1 /\ SubSeq(page, 1, 1)[1] = page[1]
      BY <1>1, <1>2, <1>14, FirstIs
    <3>3. <<page[1]>> \in Seq(1..Len(w)) /\ Len(<<page[1]>>) = 1 /\ <<page[1]>>[1] = page[1]
      BY <2>3
    <3>4. \A i \in 1..Len(SubSeq(page, 1, 1)): SubSeq(page, 1, 1)[i] = <<page[1]>>[i]
      <4>1. \A i \in 1..1: i = 1
        OBVIOUS
      <4> QED BY <3>2, <3>3, <4>1
    <3> QED BY <3>1, <3>2, <3>3, <3>4, SeqEqual
  <2>5. Cost(SubSeq(page, 1, 1)) = w[page[1]]
    BY <1>1, <1>4, <2>3, <2>4, CostHere, CostOfOne
  <2>6. w[page[1]] <= FetchBytes
    BY <2>3, Sized
  <2>7. \E i \in 1..1: ~(page[i] <= Resolved)
    BY <2>2, <2>5, <2>6
  <2> QED BY <1>3, <2>3, <2>7
<1>15. AdmittedOk(ns, page, Resolved)
  BY <1>2, <1>10, <1>12, <1>14 DEF AdmittedOk
<1> QED BY <1>1, <1>12, <1>13, <1>15

(* When as many are admitted as are eligible, all of those are.            *)
LEMMA EligibleAll ==
    ASSUME NEW page, Len(page) \in Nat, DOMAIN page = 1..Len(page),
           NEW ns, AdmittedOk(ns, page, Resolved), Len(ns) = Eligible(page)
    PROVE  \A i \in 1..Len(page): page[i] <= Resolved => i \in 1..Len(ns)
<1>1. PICK E: E = {i \in DOMAIN page: page[i] <= Resolved}
  OBVIOUS
<1>2. Cardinality(E) = Len(ns)
  BY <1>1, Zenon DEF Eligible
<1>3. PICK k \in Nat: k = Len(ns)
  BY DEF AdmittedOk
<1>4. 1..k \subseteq E
  BY <1>1, <1>3 DEF AdmittedOk
<1>5. IsFiniteSet(E)
  <2>1. IsFiniteSet(1..Len(page))
    BY FS_Interval
  <2> QED BY <1>1, <2>1, FS_Subset
<1>6. Cardinality(1..k) = k
  BY FS_Interval
<1>7. E = 1..k
  BY <1>2, <1>3, <1>4, <1>5, <1>6, FS_Subset
<1> QED BY <1>1, <1>3, <1>7

(* A page of what is listed after a cursor.                                *)
PageOk(page, after, sv) ==
    /\ page \in Seq(1..Len(sv.chunks)) /\ Increasing(page)
    /\ \A i \in 1..Len(page): after < page[i]
    /\ \A i \in 1..Len(page): \A n \in sv.stored:
         after < n /\ n < page[i] => n \in Range(page)
    /\ page = <<>> => \A n \in sv.stored: n <= after

LEMMA PagesAre ==
    ASSUME ServerOk(server), NEW after \in Nat, NEW page \in Pages(after)
    PROVE  PageOk(page, after, server)
<1>1. PICK L: L = Listed(after)
  OBVIOUS
<1>2. /\ \A i, j \in DOMAIN page: i < j => page[i] < page[j]
      /\ \A i \in DOMAIN page: \A n \in L: n < page[i] => n \in Range(page)
      /\ page = <<>> => L = {}
  BY <1>1, Zenon DEF Pages
<1>3. page \in BoundedSeq(L, PageSize)
  BY <1>1, Zenon DEF Pages
<1>4. PICK m \in 0..PageSize: page \in [1..m -> L]
  BY <1>3 DEF BoundedSeq, SeqOf
<1>5. m \in Nat
  BY IntakeAssumption
<1>6. \A n: n \in L <=> n \in server.stored /\ n > after
  BY <1>1 DEF Listed
<1>7. \A n \in server.stored: n \in 1..Len(server.chunks)
  BY ServerIs
<1>8. L \subseteq 1..Len(server.chunks)
  BY <1>6, <1>7
<1>9. page \in [1..m -> 1..Len(server.chunks)]
  BY <1>4, <1>8
<1>10. page \in Seq(1..Len(server.chunks)) /\ Len(page) = m /\ DOMAIN page = 1..Len(page)
  BY <1>5, <1>9
<1>11. Increasing(page)
  BY <1>2, <1>10 DEF Increasing
<1>12. \A i \in 1..Len(page): page[i] \in L
  BY <1>4, <1>10
<1>13. \A i \in 1..Len(page): after < page[i]
  <2>1. \A i \in 1..Len(page): page[i] \in Nat /\ page[i] > after
    <3>1. \A n \in L: n \in Nat /\ n > after
      <4>1. \A n \in 1..Len(server.chunks): n \in Nat
        BY ServerIs
      <4> QED BY <1>6, <1>8, <4>1
    <3> QED BY <1>12, <3>1
  <2> QED BY <2>1
<1>14. \A n \in server.stored: n \in Nat /\ (after < n => n \in L)
  <2>1. \A n \in server.stored: n \in Nat
    BY <1>7
  <2> QED BY <1>6, <2>1
<1>15. \A i \in 1..Len(page): \A n \in server.stored:
          after < n /\ n < page[i] => n \in Range(page)
  BY <1>2, <1>10, <1>14
<1>16. page = <<>> => \A n \in server.stored: n <= after
  BY <1>2, <1>14
<1> QED BY <1>10, <1>11, <1>13, <1>15, <1>16 DEF PageOk

-----------------------------------------------------------------------------
(* What a fetch leaves out is lost.                                        *)

LEMMA ManifestNow ==
    ASSUME ServerOk(server)
    PROVE  ManifestOk(Manifest, server)
<1>1. PICK l \in Nat: l = Len(server.chunks) /\ l <= MaxSeq
  BY ServerIs
<1>2. Resolved \in 0..l /\ 1..Resolved \subseteq Settled(server)
  BY <1>1, ResolvedIs DEF WatermarkOk
<1>3. Manifest.production = l /\ Manifest.resolved = Resolved
      /\ Manifest = [production |-> l, resolved |-> Resolved]
  BY <1>1 DEF Manifest
<1>4. l \in 0..MaxSeq /\ Resolved \in 0..MaxSeq
  BY <1>1, <1>2, IntakeAssumption
<1>5. Manifest \in Manifests
  BY <1>3, <1>4 DEF Manifests
<1> QED BY <1>1, <1>2, <1>3, <1>5 DEF ManifestOk

(* The fetch of a page after c.                                            *)
Yields(page, c, ns, tail) ==
    /\ PageOk(page, c, server) /\ ns = Admitted(page) /\ tail \in BOOLEAN
    /\ tail <=> TailSettled(c, page)

LEMMA AdmittedInOrder ==
    ASSUME ServerOk(server), NEW c \in Nat, NEW page, NEW ns, NEW tail,
           Yields(page, c, ns, tail)
    PROVE  /\ ns \in Seq(1..Len(server.chunks)) /\ Increasing(ns)
           /\ \A i \in 1..Len(ns): c < ns[i] /\ ns[i] <= Resolved
<1>1. page \in Seq(1..Len(server.chunks)) /\ Increasing(page) /\ ns = Admitted(page)
      /\ (\A i \in 1..Len(page): c < page[i])
  BY DEF Yields, PageOk
<1>2. ns \in Seq(1..Len(server.chunks)) /\ AdmittedOk(ns, page, Resolved)
  BY <1>1, AdmittedIs
<1>3. PICK k \in Nat: k = Len(ns) /\ \A i \in 1..k: i \in 1..Len(page)
  <2>1. PICK l \in Nat: l = Len(page)
    BY <1>1
  <2>2. Len(ns) \in 0..l
    BY <1>2, <2>1 DEF AdmittedOk
  <2> QED BY <2>1, <2>2
<1>4. \A i \in 1..k: ns[i] = page[i] /\ page[i] <= Resolved
  BY <1>2, <1>3 DEF AdmittedOk
<1>5. \A i, j \in 1..k: i < j => ns[i] < ns[j]
  BY <1>1, <1>3, <1>4 DEF Increasing
<1> QED BY <1>1, <1>2, <1>3, <1>4, <1>5 DEF Increasing

(* A stored chunk above the cursor and not above the last one admitted is  *)
(* admitted.                                                               *)
LEMMA NoneBetween ==
    ASSUME ServerOk(server), NEW c \in Nat, NEW page, NEW ns, NEW tail,
           Yields(page, c, ns, tail), Len(ns) > 0,
           NEW n \in server.stored, c < n, n <= ns[Len(ns)]
    PROVE  n \in Range(ns)
<1>1. page \in Seq(1..Len(server.chunks)) /\ Increasing(page) /\ ns = Admitted(page)
      /\ (\A i \in 1..Len(page): \A m \in server.stored:
            c < m /\ m < page[i] => m \in Range(page))
  BY DEF Yields, PageOk
<1>2. ns \in Seq(1..Len(server.chunks)) /\ AdmittedOk(ns, page, Resolved)
  BY <1>1, AdmittedIs
<1>3. PICK l \in Nat: l = Len(page)
  BY <1>1
<1>4. PICK k \in 1..l: k = Len(ns)
  <2>1. Len(ns) \in 0..l
    BY <1>2, <1>3 DEF AdmittedOk
  <2> QED BY <2>1
<1>5. \A i \in 1..k: ns[i] = page[i]
  BY <1>2, <1>4 DEF AdmittedOk
<1>6. n \in Nat /\ \A i \in 1..l: page[i] \in Nat
  <2>1. n \in 1..Len(server.chunks) /\ Len(server.chunks) \in Nat
    BY ServerIs
  <2>2. \A i \in 1..l: page[i] \in 1..Len(server.chunks)
    BY <1>1, <1>3
  <2> QED BY <2>1, <2>2
<1>7. n <= page[k]
  BY <1>4, <1>5
<1>8. n \in Range(page)
  <2>1. CASE n = page[k]
    BY <1>1, <1>3, <2>1, RangeIs
  <2>2. CASE n < page[k]
    BY <1>1, <1>3, <2>2
  <2> QED BY <1>6, <1>7, <2>1, <2>2
<1>9. PICK j \in 1..l: n = page[j]
  BY <1>1, <1>3, <1>8, RangeIs
<1>10. j \in 1..k
  <2>1. ASSUME k < j PROVE FALSE
    <3>1. page[k] < page[j]
      BY <1>1, <1>3, <2>1 DEF Increasing
    <3> QED BY <1>6, <1>7, <1>9, <3>1
  <2> QED BY <1>9, <2>1
<1> QED BY <1>2, <1>4, <1>5, <1>9, <1>10, RangeIs

(* If the tail is settled, none is stored above the last one admitted and  *)
(* not above the watermark.                                                *)
LEMMA NoneInTail ==
    ASSUME ServerOk(server), NEW c \in Nat, NEW page, NEW ns, NEW tail,
           Yields(page, c, ns, tail), tail,
           NEW n \in server.stored, c < n, n <= Resolved
    PROVE  n \in Range(ns)
<1>1. page \in Seq(1..Len(server.chunks)) /\ ns = Admitted(page)
  BY DEF Yields, PageOk
<1>2. ns \in Seq(1..Len(server.chunks)) /\ AdmittedOk(ns, page, Resolved)
  BY <1>1, AdmittedIs
<1>3. TailSettled(c, page)
  BY DEF Yields
<1>4. Listed(c) \subseteq Range(page) /\ Len(ns) = Eligible(page)
  BY <1>1, <1>3 DEF TailSettled, HasMore
<1>5. n \in Listed(c)
  <2>1. n \in Nat
    BY ServerIs DEF Settled
  <2>2. n > c
    BY <2>1
  <2> QED BY <2>2 DEF Listed
<1>6. PICK j \in 1..Len(page): n = page[j]
  BY <1>1, <1>4, <1>5, RangeIs
<1>7. Len(page) \in Nat /\ DOMAIN page = 1..Len(page)
  BY <1>1
<1>8. j \in 1..Len(ns)
  BY <1>2, <1>4, <1>6, <1>7, EligibleAll
<1>9. ns[j] = n
  BY <1>2, <1>6, <1>8 DEF AdmittedOk
<1> QED BY <1>2, <1>8, <1>9, RangeIs

(* A fetch that neither admits anything nor settles the tail waits for a   *)
(* chunk above the watermark.                                              *)
LEMMA NothingYet ==
    ASSUME ServerOk(server), NEW c \in Nat, NEW page, NEW ns, NEW tail,
           Yields(page, c, ns, tail), ns = <<>>, ~tail
    PROVE  Resolved < Len(server.chunks)
<1>1. page \in Seq(1..Len(server.chunks)) /\ ns = Admitted(page)
      /\ (page = <<>> => \A m \in server.stored: m <= c)
  BY DEF Yields, PageOk
<1>2. AdmittedOk(ns, page, Resolved) /\ Len(ns) = 0
  BY <1>1, AdmittedIs
<1>3. PICK l \in Nat: l = Len(server.chunks)
  BY ServerIs
<1>4. Resolved \in 0..l
  BY <1>3, ResolvedIs DEF WatermarkOk
<1>5. page # <<>>
  <2>1. ASSUME page = <<>> PROVE FALSE
    <3>1. Listed(c) = {}
      <4>1. \A m \in server.stored: m \in Nat /\ m <= c
        BY <1>1, <2>1, ServerIs DEF Settled
      <4>2. \A m \in server.stored: ~(m > c)
        BY <4>1
      <4> QED BY <4>2 DEF Listed
    <3>2. Eligible(page) = 0
      <4>1. DOMAIN page = {}
        BY <2>1
      <4>2. {i \in DOMAIN page: page[i] <= Resolved} = {}
        BY <4>1
      <4>3. Cardinality({}) = 0
        BY FS_EmptySet
      <4> QED BY <4>2, <4>3, Zenon DEF Eligible
    <3>3. TailSettled(c, page)
      BY <1>1, <1>2, <3>1, <3>2 DEF TailSettled, HasMore
    <3> QED BY <3>3 DEF Yields
  <2> QED BY <2>1
<1>6. Len(page) > 0 /\ page[1] \in 1..l
  BY <1>1, <1>3, <1>5
<1>7. page[1] > Resolved
  BY <1>2, <1>6 DEF AdmittedOk
<1> QED BY <1>3, <1>4, <1>6, <1>7

LEMMA PageFetched ==
    ASSUME ServerOk(server), NEW c \in Nat, NEW page, NEW ns, NEW tail,
           Yields(page, c, ns, tail),
           NEW f, f.admitted = ns, f.tail = tail,
           NEW cl, cl.cursor = c, cl.manifest = Manifest
    PROVE  FetchOk(f, cl, server)
<1>1. /\ ns \in Seq(1..Len(server.chunks)) /\ Increasing(ns)
      /\ \A i \in 1..Len(ns): c < ns[i] /\ ns[i] <= Resolved
  BY AdmittedInOrder
<1>2. cl.manifest.resolved = Resolved /\ cl.manifest.production = Len(server.chunks)
  BY DEF Manifest
<1>3. PICK l \in Nat: l = Len(server.chunks)
  BY ServerIs
<1>4. PICK m \in 0..l: m = Resolved /\ 1..m \subseteq Settled(server)
  BY <1>3, ResolvedIs DEF WatermarkOk
<1>5. \A n \in 1..m: n \in server.stored \/ n \in server.lost
  BY <1>4 DEF Settled
<1>6. PICK e: e = ReachOf(f, cl)
  OBVIOUS
<1>7. /\ e \in Nat /\ c <= e
      /\ ns = <<>> => e = c
      /\ ns # <<>> => Len(ns) > 0 /\ e = ns[Len(ns)] /\ e <= m
  <2>1. CASE ns = <<>>
    BY <1>6, <2>1 DEF ReachOf
  <2>2. CASE ns # <<>>
    <3>1. Len(ns) \in 1..Len(ns) /\ Len(ns) > 0
      BY <1>1, <2>2
    <3>2. e = ns[Len(ns)]
      BY <1>6, <2>2 DEF ReachOf
    <3>3. e \in 1..l /\ c < e /\ e <= m
      BY <1>1, <1>3, <1>4, <3>1, <3>2
    <3> QED BY <2>2, <3>1, <3>2, <3>3
  <2> QED BY <2>1, <2>2
<1>8. ASSUME NEW n \in (c + 1)..e PROVE n \in Range(ns) \/ n \in server.lost
  <2>1. ns # <<>>
    BY <1>7, <1>8
  <2>2. c < n /\ n <= e /\ n \in 1..m
    BY <1>4, <1>7, <1>8, <2>1
  <2>3. CASE n \in server.stored
    BY <1>7, <2>1, <2>2, <2>3, NoneBetween
  <2> QED BY <1>5, <2>2, <2>3
<1>9. ASSUME tail, NEW n \in (e + 1)..m PROVE n \in server.lost
  <2>1. c < n /\ n <= Resolved /\ n \in 1..m /\ e < n
    BY <1>4, <1>7, <1>9
  <2>2. CASE n \in server.stored
    <3>1. n \in Range(ns)
      BY <1>9, <2>1, <2>2, NoneInTail
    <3>2. PICK i \in 1..Len(ns): n = ns[i]
      BY <1>1, <3>1, RangeIs
    <3>3. PICK k \in Nat: k = Len(ns)
      BY <1>1
    <3>4. ns # <<>> /\ k \in 1..k /\ i \in 1..k
      BY <3>2, <3>3
    <3>5. i = k \/ ns[i] < ns[k]
      BY <1>1, <3>3, <3>4 DEF Increasing
    <3>6. e = ns[k]
      BY <1>7, <3>3, <3>4
    <3>7. n <= e
      BY <1>7, <2>1, <3>2, <3>5, <3>6
    <3> QED BY <1>7, <2>1, <3>7
  <2> QED BY <1>5, <2>1, <2>2
<1>10. ns = <<>> /\ ~tail => Resolved < Len(server.chunks)
  BY NothingYet
<1> QED BY <1>1, <1>2, <1>4, <1>6, <1>8, <1>9, <1>10, Zenon DEF FetchOk

-----------------------------------------------------------------------------
(* A proposal gives every number one disposition.                          *)

Outcome(c, ns, e, top, tail) ==
    /\ c \in Nat /\ top \in Nat /\ c <= top /\ ns \in Seq(Nat) /\ Increasing(ns)
    /\ \A i \in 1..Len(ns): c < ns[i] /\ ns[i] <= top
    /\ e = EndOf(ns, c) /\ tail \in BOOLEAN
    /\ tail => top > e
Edge(c, ns, k) == IF k = 1 THEN c ELSE ns[k - 1]
Between(g, c, ns, k) == ns[k] > Edge(c, ns, k) + 1 /\ g = <<Edge(c, ns, k) + 1, ns[k] - 1>>
GapsAre(gaps, c, ns, e, top, tail) ==
    \A g: g \in gaps <=> \/ \E k \in 1..Len(ns): Between(g, c, ns, k)
                         \/ tail /\ g = <<e + 1, top>>
Proposed(p, c, ns, e, top, tail) ==
    /\ p.start = c /\ p.chunks = ns /\ p.next = (IF tail THEN top ELSE e)
    /\ GapsAre(p.gaps, c, ns, e, top, tail)

LEMMA OutcomeIs ==
    ASSUME NEW c, NEW ns, NEW e, NEW top, NEW tail, Outcome(c, ns, e, top, tail)
    PROVE  /\ e \in Nat /\ c <= e /\ e <= top
           /\ \A i \in 1..Len(ns): /\ ns[i] \in Nat /\ ns[i] <= e
                                   /\ Edge(c, ns, i) \in Nat
                                   /\ c <= Edge(c, ns, i) /\ Edge(c, ns, i) < ns[i]
           /\ \A i, j \in 1..Len(ns): i < j => ns[i] <= Edge(c, ns, j)
           /\ c < e => Len(ns) > 0 /\ e = ns[Len(ns)]
<1>1. c \in Nat /\ top \in Nat /\ c <= top /\ ns \in Seq(Nat)
      /\ (\A i \in 1..Len(ns): c < ns[i] /\ ns[i] <= top) /\ e = EndOf(ns, c)
  BY DEF Outcome
<1>2. PICK m \in Nat: m = Len(ns)
  BY <1>1
<1>3. \A i \in 1..m: ns[i] \in Nat
  BY <1>1, <1>2
<1>4. \A i, j \in 1..m: i < j => ns[i] < ns[j]
  BY <1>2 DEF Outcome, Increasing
<1>5. CASE m = 0
  <2>2. ns = <<>>
    BY <1>1, <1>2, <1>5, EmptySeq
  <2>3. e = c
    BY <1>1, <2>2, Zenon DEF EndOf
  <2>1. ns = <<>> /\ e = c /\ 1..m = {}
    BY <1>5, <2>2, <2>3
  <2> QED BY <1>1, <1>2, <2>1
<1>6. CASE m > 0
  <2>1. m \in 1..m /\ e = ns[m]
    BY <1>1, <1>2, <1>6 DEF EndOf
  <2>2. e \in Nat /\ c < e /\ e <= top
    BY <1>1, <1>2, <1>3, <2>1
  <2>3. ASSUME NEW i \in 1..m
        PROVE  /\ ns[i] <= e /\ Edge(c, ns, i) \in Nat
               /\ c <= Edge(c, ns, i) /\ Edge(c, ns, i) < ns[i]
    <3>1. ns[i] <= e
      <4>1. i = m \/ ns[i] < ns[m]
        BY <1>4, <2>1
      <4> QED BY <1>3, <2>1, <4>1
    <3>2. CASE i = 1
      BY <1>1, <1>2, <3>1, <3>2 DEF Edge
    <3>3. CASE i # 1
      <4>1. i - 1 \in 1..m /\ i - 1 < i
        BY <3>3
      <4>2. Edge(c, ns, i) = ns[i - 1]
        BY <3>3 DEF Edge
      <4>3. ns[i - 1] < ns[i] /\ c < ns[i - 1]
        BY <1>1, <1>2, <1>4, <4>1
      <4> QED BY <1>1, <1>3, <3>1, <4>1, <4>2, <4>3
    <3> QED BY <3>2, <3>3
  <2>4. ASSUME NEW i \in 1..m, NEW j \in 1..m, i < j PROVE ns[i] <= Edge(c, ns, j)
    <3>1. j # 1 /\ j - 1 \in 1..m
      BY <2>4
    <3>2. Edge(c, ns, j) = ns[j - 1]
      BY <3>1 DEF Edge
    <3>3. i = j - 1 \/ i < j - 1
      BY <2>4
    <3>4. i = j - 1 \/ ns[i] < ns[j - 1]
      BY <1>4, <3>1, <3>3
    <3> QED BY <1>3, <3>1, <3>2, <3>4
  <2>5. e = ns[Len(ns)] /\ Len(ns) > 0 /\ c <= e
    BY <1>1, <1>2, <1>6, <2>1, <2>2
  <2> QED BY <1>2, <1>3, <2>2, <2>3, <2>4, <2>5, Zenon
<1> QED BY <1>2, <1>5, <1>6

(* What lies between two chunks is none of them.                           *)
LEMMA BetweenIs ==
    ASSUME NEW c, NEW ns, NEW e, NEW top, NEW tail, Outcome(c, ns, e, top, tail),
           NEW k \in 1..Len(ns), NEW g, Between(g, c, ns, k), NEW n \in g[1]..g[2]
    PROVE  /\ n \in Nat /\ c < n /\ n <= e
           /\ Edge(c, ns, k) < n /\ n < ns[k] /\ ~(n \in Range(ns))
<1>1. g[1] = Edge(c, ns, k) + 1 /\ g[2] = ns[k] - 1
  BY DEF Between
<1>2. /\ c \in Nat /\ e \in Nat /\ ns[k] \in Nat /\ ns[k] <= e
      /\ Edge(c, ns, k) \in Nat /\ c <= Edge(c, ns, k)
  BY OutcomeIs DEF Outcome
<1>3. n \in Nat /\ Edge(c, ns, k) < n /\ n < ns[k] /\ c < n /\ n <= e
  BY <1>1, <1>2
<1>4. ASSUME n \in Range(ns) PROVE FALSE
  <2>1. ns \in Seq(Nat)
    BY DEF Outcome
  <2>2. PICK i \in 1..Len(ns): n = ns[i]
    BY <1>4, <2>1, RangeIs
  <2>3. PICK m \in Nat: m = Len(ns)
    BY <2>1
  <2>4. i \in 1..m /\ k \in 1..m
    BY <2>2, <2>3
  <2>5. CASE i < k
    <3>1. ns[i] <= Edge(c, ns, k)
      BY <2>2, <2>5, OutcomeIs
    <3> QED BY <1>2, <1>3, <2>2, <3>1
  <2>6. CASE i = k
    BY <1>2, <1>3, <2>2, <2>6
  <2>7. CASE k < i
    <3>1. ns[k] < ns[i]
      BY <2>2, <2>7 DEF Outcome, Increasing
    <3> QED BY <1>2, <1>3, <2>2, <3>1
  <2> QED BY <2>4, <2>5, <2>6, <2>7
<1> QED BY <1>3, <1>4

(* A number that is not a chunk and not above the last one lies between.   *)
LEMMA LiesBetween ==
    ASSUME NEW c, NEW ns, NEW e, NEW top, NEW tail, Outcome(c, ns, e, top, tail),
           NEW n \in Nat, c < n, n <= e, ~(n \in Range(ns))
    PROVE  \E k \in 1..Len(ns): \E g: Between(g, c, ns, k) /\ n \in g[1]..g[2]
<1>1. c \in Nat /\ e \in Nat /\ ns \in Seq(Nat) /\ Len(ns) > 0 /\ e = ns[Len(ns)]
  <2>1. c \in Nat /\ ns \in Seq(Nat)
    BY DEF Outcome
  <2>2. e \in Nat /\ (c < e => Len(ns) > 0 /\ e = ns[Len(ns)])
    BY OutcomeIs
  <2>3. c < e
    BY <2>1, <2>2
  <2> QED BY <2>1, <2>2, <2>3
<1>2. PICK m \in Nat: m = Len(ns)
  BY <1>1
<1>3. PICK T: T = {i \in 1..m: n <= ns[i]}
  OBVIOUS
<1>4. T \in SUBSET Nat /\ m \in T
  BY <1>1, <1>2, <1>3
<1>5. PICK k \in T: \A i \in T: k <= i
  BY <1>4, NatMin
<1>6. k \in 1..m /\ n <= ns[k]
  BY <1>3, <1>5
<1>7. ns[k] \in Nat /\ Edge(c, ns, k) \in Nat
  BY <1>2, <1>6, OutcomeIs
<1>8. n < ns[k]
  <2>1. n # ns[k]
    BY <1>1, <1>2, <1>6, RangeIs
  <2> QED BY <1>6, <1>7, <2>1
<1>9. Edge(c, ns, k) < n
  <2>1. CASE k = 1
    BY <2>1 DEF Edge
  <2>2. CASE k # 1
    <3>1. k - 1 \in 1..m /\ ~(k - 1 \in T)
      BY <1>5, <1>6, <2>2
    <3>2. ns[k - 1] \in Nat /\ ~(n <= ns[k - 1])
      BY <1>1, <1>2, <1>3, <3>1
    <3> QED BY <2>2, <3>2 DEF Edge
  <2> QED BY <2>1, <2>2
<1>10. PICK g: g = <<Edge(c, ns, k) + 1, ns[k] - 1>>
  OBVIOUS
<1>11. ns[k] > Edge(c, ns, k) + 1 /\ n \in g[1]..g[2]
  BY <1>7, <1>8, <1>9, <1>10
<1> QED BY <1>2, <1>6, <1>10, <1>11 DEF Between

LEMMA UnavailableIs ==
    ASSUME NEW c, NEW ns, NEW e, NEW top, NEW tail, Outcome(c, ns, e, top, tail),
           NEW p, Proposed(p, c, ns, e, top, tail), NEW n
    PROVE  n \in Unavailable(p) <=> n \in (c + 1)..p.next /\ ~(n \in Range(ns))
<1>1. c \in Nat /\ top \in Nat /\ e \in Nat /\ c <= e /\ e <= top /\ tail \in BOOLEAN
      /\ (tail => top > e)
  BY OutcomeIs DEF Outcome
<1>2. p.next = (IF tail THEN top ELSE e) /\ GapsAre(p.gaps, c, ns, e, top, tail)
  BY DEF Proposed
<1>3. n \in Unavailable(p) <=> \E g \in p.gaps: n \in g[1]..g[2]
  BY DEF Unavailable
<1>4. ASSUME NEW g \in p.gaps, n \in g[1]..g[2]
      PROVE  n \in (c + 1)..p.next /\ ~(n \in Range(ns))
  <2>1. CASE \E k \in 1..Len(ns): Between(g, c, ns, k)
    <3>1. PICK k \in 1..Len(ns): Between(g, c, ns, k)
      BY <2>1
    <3>2. n \in Nat /\ c < n /\ n <= e /\ ~(n \in Range(ns))
      BY <1>4, <3>1, BetweenIs
    <3> QED BY <1>1, <1>2, <3>2
  <2>2. CASE tail /\ g = <<e + 1, top>>
    <3>1. n \in Nat /\ e < n /\ n <= top
      BY <1>1, <1>4, <2>2
    <3>2. ~(n \in Range(ns))
      <4>1. ASSUME n \in Range(ns) PROVE FALSE
        <5>1. ns \in Seq(Nat)
          BY DEF Outcome
        <5>2. PICK i \in 1..Len(ns): n = ns[i]
          BY <4>1, <5>1, RangeIs
        <5>3. ns[i] <= e
          BY <5>2, OutcomeIs
        <5> QED BY <1>1, <3>1, <5>2, <5>3
      <4> QED BY <4>1
    <3> QED BY <1>1, <1>2, <2>2, <3>1, <3>2
  <2> QED BY <1>2, <2>1, <2>2, Zenon DEF GapsAre
<1>5. ASSUME n \in (c + 1)..p.next, ~(n \in Range(ns))
      PROVE  \E g \in p.gaps: n \in g[1]..g[2]
  <2>1. p.next \in Nat
    BY <1>1, <1>2
  <2>2. n \in Nat /\ c < n /\ n <= p.next
    BY <1>1, <1>5, <2>1
  <2>3. CASE n <= e
    <3>1. PICK k \in 1..Len(ns): \E g: Between(g, c, ns, k) /\ n \in g[1]..g[2]
      BY <1>5, <2>2, <2>3, LiesBetween
    <3>2. PICK g: Between(g, c, ns, k) /\ n \in g[1]..g[2]
      BY <3>1
    <3>3. g \in p.gaps
      BY <1>2, <3>2, Zenon DEF GapsAre
    <3> QED BY <3>2, <3>3
  <2>4. CASE ~(n <= e)
    <3>1. tail /\ p.next = top
      BY <1>2, <2>2, <2>4
    <3>2. PICK g: g = <<e + 1, top>>
      OBVIOUS
    <3>3. g \in p.gaps
      BY <1>2, <3>1, <3>2, Zenon DEF GapsAre
    <3>4. n \in g[1]..g[2]
      BY <1>1, <2>2, <2>4, <3>1, <3>2
    <3> QED BY <3>3, <3>4
  <2> QED BY <2>3, <2>4
<1> QED BY <1>3, <1>4, <1>5

LEMMA GapsApart ==
    ASSUME NEW c, NEW ns, NEW e, NEW top, NEW tail, Outcome(c, ns, e, top, tail),
           NEW p, Proposed(p, c, ns, e, top, tail),
           NEW g \in p.gaps, NEW h \in p.gaps, NEW n \in g[1]..g[2], n \in h[1]..h[2]
    PROVE  g = h
<1>1. GapsAre(p.gaps, c, ns, e, top, tail)
  BY DEF Proposed
<1>2. c \in Nat /\ top \in Nat /\ e \in Nat /\ ns \in Seq(Nat)
  BY OutcomeIs DEF Outcome
<1>3. ASSUME NEW a, NEW b, NEW k \in 1..Len(ns), NEW l \in 1..Len(ns), k < l,
             Between(a, c, ns, k), Between(b, c, ns, l), n \in a[1]..a[2], n \in b[1]..b[2]
      PROVE  FALSE
  <2>1. n \in Nat /\ n < ns[k]
    BY <1>3, BetweenIs
  <2>2. Edge(c, ns, l) < n
    BY <1>3, BetweenIs
  <2>3. ns[k] <= Edge(c, ns, l) /\ ns[k] \in Nat /\ Edge(c, ns, l) \in Nat
    BY <1>3, OutcomeIs
  <2> QED BY <2>1, <2>2, <2>3
<1>4. ASSUME NEW a, NEW k \in 1..Len(ns), Between(a, c, ns, k), n \in a[1]..a[2],
             NEW b, b = <<e + 1, top>>, n \in b[1]..b[2]
      PROVE  FALSE
  <2>1. n \in Nat /\ n <= e
    BY <1>4, BetweenIs
  <2>2. e + 1 <= n
    BY <1>2, <1>4
  <2> QED BY <1>2, <2>1, <2>2
<1>5. (\E k \in 1..Len(ns): Between(g, c, ns, k)) \/ g = <<e + 1, top>>
  BY <1>1, Zenon DEF GapsAre
<1>6. (\E k \in 1..Len(ns): Between(h, c, ns, k)) \/ h = <<e + 1, top>>
  BY <1>1, Zenon DEF GapsAre
<1>7. CASE (\E k \in 1..Len(ns): Between(g, c, ns, k))
           /\ (\E k \in 1..Len(ns): Between(h, c, ns, k))
  <2>1. PICK k \in 1..Len(ns): Between(g, c, ns, k)
    BY <1>7
  <2>2. PICK l \in 1..Len(ns): Between(h, c, ns, l)
    BY <1>7
  <2>3. ~(k < l)
    BY <1>3, <2>1, <2>2
  <2>4. ~(l < k)
    BY <1>3, <2>1, <2>2
  <2>5. k = l
    <3>1. k \in Nat /\ l \in Nat
      BY <1>2
    <3> QED BY <2>3, <2>4, <3>1
  <2> QED BY <2>1, <2>2, <2>5 DEF Between
<1>8. CASE (\E k \in 1..Len(ns): Between(g, c, ns, k)) /\ h = <<e + 1, top>>
  BY <1>4, <1>8
<1>9. CASE (\E k \in 1..Len(ns): Between(h, c, ns, k)) /\ g = <<e + 1, top>>
  BY <1>4, <1>9
<1> QED BY <1>5, <1>6, <1>7, <1>8, <1>9, Zenon

LEMMA ProposedCoherent ==
    ASSUME NEW c, NEW ns, NEW e, NEW top, NEW tail, Outcome(c, ns, e, top, tail),
           NEW p, Proposed(p, c, ns, e, top, tail)
    PROVE  Coherent(p)
<1>1. c \in Nat /\ top \in Nat /\ ns \in Seq(Nat) /\ tail \in BOOLEAN
      /\ (tail => top > e)
  BY DEF Outcome
<1>2. e \in Nat /\ c <= e /\ e <= top
      /\ \A i \in 1..Len(ns): /\ ns[i] \in Nat /\ ns[i] <= e
                              /\ Edge(c, ns, i) \in Nat
                              /\ c <= Edge(c, ns, i) /\ Edge(c, ns, i) < ns[i]
  BY OutcomeIs
<1>3. p.start = c /\ p.chunks = ns /\ p.next = IF tail THEN top ELSE e
  BY DEF Proposed
<1>4. PICK next \in Nat: p.next = next /\ e <= next
  <2>1. p.next \in Nat /\ e <= p.next
    BY <1>1, <1>2, <1>3
  <2> QED BY <2>1
<1>5. 0 <= p.start /\ p.start <= p.next
  BY <1>1, <1>2, <1>3, <1>4
<1>6. \A k \in DOMAIN p.chunks: (IF k = 1 THEN p.start ELSE p.chunks[k - 1]) < p.chunks[k]
  <2>1. DOMAIN ns = 1..Len(ns)
    BY <1>1
  <2> QED BY <1>2, <1>3, <2>1 DEF Edge
<1>7. ASSUME NEW n \in Range(ns) PROVE n \in (c + 1)..next
  <2>1. PICK i \in 1..Len(ns): n = ns[i]
    BY <1>1, RangeIs
  <2>2. ns[i] \in Nat /\ ns[i] <= e /\ c < ns[i]
    BY <1>1, <1>2
  <2> QED BY <1>1, <1>2, <1>4, <2>1, <2>2
<1>8. \A n: n \in Unavailable(p) <=> n \in (c + 1)..next /\ ~(n \in Range(ns))
  BY <1>4, UnavailableIs
<1>9. Range(p.chunks) \cup Unavailable(p) = (p.start + 1)..p.next
      /\ Range(p.chunks) \cap Unavailable(p) = {}
  BY <1>3, <1>4, <1>7, <1>8
<1>10. ASSUME NEW g \in p.gaps, NEW h \in p.gaps, g # h
       PROVE  g[1]..g[2] \cap h[1]..h[2] = {}
  <2>1. ASSUME NEW n \in g[1]..g[2], n \in h[1]..h[2] PROVE FALSE
    BY <1>10, <2>1, GapsApart
  <2> QED BY <2>1
<1> QED BY <1>5, <1>6, <1>9, <1>10 DEF Coherent

(* The proposal of a fetch.                                                *)
TailNow == fetch.tail /\ client.manifest.resolved > Reached(client.cursor)
LEMMA ProposalIs ==
    ASSUME ServerOk(server), fetch \in Fetches, client \in Clients,
           client.cursor <= client.manifest.resolved, FetchOk(fetch, client, server)
    PROVE  /\ Outcome(client.cursor, fetch.admitted, Reached(client.cursor),
                      client.manifest.resolved, TailNow)
           /\ Proposed(Proposal, client.cursor, fetch.admitted, Reached(client.cursor),
                       client.manifest.resolved, TailNow)
<1>1. PICK c \in 0..MaxSeq: c = client.cursor
  BY DEF Clients
<1>2. PICK top \in 0..MaxSeq: top = client.manifest.resolved
  BY DEF Clients, Manifests
<1>3. PICK ns \in Seq(ChunkNumbers): ns = fetch.admitted
  BY DEF Fetches
<1>4. PICK e: e = Reached(c)
  OBVIOUS
<1>5. PICK tail \in BOOLEAN: tail <=> fetch.tail /\ top > e
  OBVIOUS
<1>6. TailNow <=> tail
  BY <1>1, <1>2, <1>4, <1>5 DEF TailNow
<1>7. c \in Nat /\ top \in Nat /\ ns \in Seq(Nat) /\ c <= top
  <2>1. MaxSeq \in Nat
    BY IntakeAssumption
  <2>2. ns \in [1..Len(ns) -> ChunkNumbers] /\ Len(ns) \in Nat
    BY <1>3
  <2>3. \A i \in 1..Len(ns): ns[i] \in Nat
    BY <2>1, <2>2 DEF ChunkNumbers
  <2>4. ns \in [1..Len(ns) -> Nat]
    BY <2>2, <2>3
  <2> QED BY <1>1, <1>2, <2>1, <2>2, <2>4
<1>8. DOMAIN ns = 1..Len(ns) /\ (ns = <<>> <=> Len(ns) = 0) /\ Len(ns) \in Nat
  BY <1>7
<1>9. e = EndOf(ns, c)
  BY <1>3, <1>4, Zenon DEF Reached, EndOf, Last
<1>10. Outcome(c, ns, e, top, tail)
  <2>1. Increasing(ns) /\ \A i \in 1..Len(ns): c < ns[i] /\ ns[i] <= top
    BY <1>1, <1>2, <1>3, Zenon DEF FetchOk
  <2> QED BY <1>5, <1>7, <1>9, <2>1 DEF Outcome
<1> DEFINE edges == <<c>> \o ns
           between == {<<edges[k] + 1, ns[k] - 1>>: k \in {j \in DOMAIN ns: ns[j] > edges[j] + 1}}
           gaps == between \cup (IF tail THEN {<<e + 1, top>>} ELSE {})
<1>11. Proposal = [start |-> c, next |-> IF tail THEN top ELSE e, chunks |-> ns, gaps |-> gaps]
  BY <1>1, <1>2, <1>3, <1>4, <1>5 DEF Proposal
<1>12. \A k \in 1..Len(ns): edges[k] = Edge(c, ns, k)
  <2>1. <<c>> \in Seq(Nat) /\ Len(<<c>>) = 1 /\ <<c>>[1] = c
    BY <1>7
  <2>2. ASSUME NEW k \in 1..Len(ns) PROVE edges[k] = Edge(c, ns, k)
    <3>1. k \in 1..(1 + Len(ns))
      BY <1>8
    <3>2. edges[k] = IF k <= 1 THEN <<c>>[k] ELSE ns[k - 1]
      BY <1>7, <2>1, <3>1, ConcatProperties
    <3> QED BY <2>1, <3>2 DEF Edge
  <2> QED BY <2>2
<1> HIDE DEF edges
<1>13. ASSUME NEW g
       PROVE  g \in between <=> \E k \in 1..Len(ns): Between(g, c, ns, k)
  <2>1. g \in between <=> \E k \in 1..Len(ns): /\ ns[k] > edges[k] + 1
                                               /\ g = <<edges[k] + 1, ns[k] - 1>>
    BY <1>8
  <2> QED BY <1>12, <2>1 DEF Between
<1> HIDE DEF between
<1>14. GapsAre(gaps, c, ns, e, top, tail)
  <2>1. \A g: g \in gaps <=> g \in between \/ (tail /\ g = <<e + 1, top>>)
    OBVIOUS
  <2> QED BY <1>13, <2>1, Zenon DEF GapsAre
<1> HIDE DEF gaps
<1>15. Proposed(Proposal, c, ns, e, top, tail)
  BY <1>11, <1>14 DEF Proposed
<1>16. TailNow = tail
  <2>1. TailNow \in BOOLEAN
    BY <1>1, <1>4, Zenon DEF TailNow
  <2> QED BY <1>6, <2>1, Zenon
<1> QED BY <1>1, <1>2, <1>3, <1>4, <1>10, <1>15, <1>16

-----------------------------------------------------------------------------
(* The producer goes on: it seals, settles and retires, and nothing that    *)
(* was said of what is settled or lost becomes wrong.                      *)

Grows(sv, tv) ==
    /\ ServerOk(sv) /\ ServerOk(tv)
    /\ tv.chunks = sv.chunks \/ \E size \in Sizes: tv.chunks = Append(sv.chunks, size)
    /\ Settled(sv) \subseteq Settled(tv) /\ sv.lost \subseteq tv.lost

LEMMA GrowsManifest ==
    ASSUME NEW sv, NEW tv, Grows(sv, tv), NEW m, ManifestOk(m, sv)
    PROVE  ManifestOk(m, tv)
<1>1. sv.chunks \in Seq(Sizes) /\ Len(sv.chunks) \in Nat
      /\ tv.chunks \in Seq(Sizes) /\ Len(tv.chunks) \in Nat
  BY ServerIs DEF Grows
<1>2. Len(sv.chunks) <= Len(tv.chunks)
  BY <1>1, AppendProperties DEF Grows
<1>3. m \in Manifests /\ m.resolved <= m.production /\ m.production <= Len(sv.chunks)
      /\ 1..m.resolved \subseteq Settled(sv)
  BY DEF ManifestOk
<1>4. m.production \in Nat
  BY <1>3, IntakeAssumption DEF Manifests
<1>5. m.production <= Len(tv.chunks)
  BY <1>1, <1>2, <1>3, <1>4
<1>6. 1..m.resolved \subseteq Settled(tv)
  BY <1>3 DEF Grows
<1> QED BY <1>3, <1>5, <1>6 DEF ManifestOk

LEMMA GrowsKept ==
    ASSUME NEW sv, NEW tv, Grows(sv, tv), NEW ns, NEW top, KeptOk(ns, top, sv.chunks)
    PROVE  KeptOk(ns, top, tv.chunks)
<1>1. CASE tv.chunks = sv.chunks
  BY <1>1
<1>2. CASE \E size \in Sizes: tv.chunks = Append(sv.chunks, size)
  <2>1. PICK size \in Sizes: tv.chunks = Append(sv.chunks, size)
    BY <1>2
  <2>2. PICK w \in Seq(Sizes): w = sv.chunks
    BY ServerIs DEF Grows
  <2>3. w \in Seq(Nat) /\ size \in Nat
    BY Sized, IntakeAssumption
  <2>4. ns \in Seq(1..Len(w)) /\ Increasing(ns) /\ (\A i \in 1..Len(ns): ns[i] <= top)
        /\ CostOf(w, ns) <= ReplayBytes /\ Len(ns) <= ReplayChunks
    BY <2>2 DEF KeptOk
  <2>5. PICK v: v = Append(w, size)
    OBVIOUS
  <2>6. Len(w) \in Nat /\ Len(v) = Len(w) + 1
    BY <2>3, <2>5, AppendProperties
  <2>7. ns \in Seq(1..Len(v))
    <3>1. ns \in [1..Len(ns) -> 1..Len(w)] /\ Len(ns) \in Nat
      BY <2>4
    <3>2. 1..Len(w) \subseteq 1..Len(v)
      BY <2>6
    <3>3. ns \in [1..Len(ns) -> 1..Len(v)]
      BY <3>1, <3>2
    <3> QED BY <3>1, <3>3
  <2>8. CostOf(v, ns) = CostOf(w, ns)
    BY <2>3, <2>4, <2>5, CostStays
  <2>9. KeptOk(ns, top, v)
    BY <2>4, <2>7, <2>8 DEF KeptOk
  <2> QED BY <2>1, <2>2, <2>5, <2>9
<1> QED BY <1>1, <1>2 DEF Grows

LEMMA GrowsReplay ==
    ASSUME NEW sv, NEW tv, Grows(sv, tv), NEW r, NEW led, ReplayOk(r, led, sv)
    PROVE  ReplayOk(r, led, tv)
<1>1. KeptOk(r.chunks, r.cursor, tv.chunks)
  BY GrowsKept DEF ReplayOk
<1>2. ManifestOk(r.manifest, tv)
  BY GrowsManifest DEF ReplayOk
<1>3. led.gone \subseteq tv.lost
  BY DEF ReplayOk, Grows
<1> QED BY <1>1, <1>2, <1>3 DEF ReplayOk

LEMMA GrowsClient ==
    ASSUME NEW sv, NEW tv, Grows(sv, tv), NEW cl, NEW r, ClientOk(cl, r, sv)
    PROVE  ClientOk(cl, r, tv)
<1>1. ManifestOk(cl.manifest, tv)
  BY GrowsManifest DEF ClientOk
<1> QED BY <1>1 DEF ClientOk

LEMMA GrowsFetch ==
    ASSUME NEW sv, NEW tv, Grows(sv, tv), NEW f, NEW cl, FetchOk(f, cl, sv)
    PROVE  FetchOk(f, cl, tv)
<1>1. \A n: n \in sv.lost => n \in tv.lost
  BY DEF Grows
<1> QED BY <1>1 DEF FetchOk

LEMMA GrowsDisk ==
    ASSUME NEW sv, NEW tv, Grows(sv, tv), NEW d, DiskOk(d, sv)
    PROVE  DiskOk(d, tv)
<1>1. ASSUME d.opened PROVE ReplayOk(d.replay, d.ledger, tv)
  BY <1>1, GrowsReplay DEF DiskOk
<1> QED BY <1>1 DEF DiskOk

(* A step that leaves the job alone.                                       *)
LEMMA ServerStep ==
    ASSUME IInv, Grows(server, server'), UNCHANGED local, LeaseInv', leaked' \in BOOLEAN
    PROVE  IInv'
<1>1. UNCHANGED <<pc, fetch, client, replay, sampler, disk, runs, ledger, fault>>
  BY DEF local
<1>2. ServerOk(server')
  BY DEF Grows
<1>3. ReplayOk(replay, ledger, server')
  BY GrowsReplay DEF IInv
<1>4. pc # "off" => ClientOk(client, replay, server') /\ IndexOk(sampler, replay)
  BY GrowsClient DEF IInv
<1>5. FetchInv'
  <2>1. FetchOk(fetch, client, server) => FetchOk(fetch, client, server')
    BY GrowsFetch
  <2> QED BY <1>1, <2>1 DEF IInv, FetchInv
<1>6. DiskOk(disk, server')
  BY GrowsDisk DEF IInv
<1>7. ControlInv'
  BY <1>1 DEF IInv, ControlInv
<1>8. client \in Clients /\ disk.opened \in BOOLEAN
  BY DEF IInv
<1>9. ServerOk(server)' /\ ReplayOk(replay, ledger, server)' /\ DiskOk(disk, server)'
      /\ (pc # "off" => ClientOk(client, replay, server) /\ IndexOk(sampler, replay))'
  BY <1>1, <1>2, <1>3, <1>4, <1>6
<1> QED BY <1>1, <1>5, <1>7, <1>8, <1>9 DEF IInv

LEMMA ServerFields ==
    ASSUME NEW sv, ServerOk(sv)
    PROVE  /\ sv \in Servers /\ sv.chunks \in Seq(Sizes) /\ sv.stored \in SUBSET ChunkNumbers
           /\ sv.lost \in SUBSET ChunkNumbers /\ sv.leases \in SUBSET (SUBSET ChunkNumbers)
           /\ sv.policy \in Policies
           /\ sv.stored \cup sv.lost \subseteq 1..Len(sv.chunks) /\ sv.stored \cap sv.lost = {}
           /\ sv.leases \subseteq SUBSET (1..Len(sv.chunks)) /\ Len(sv.chunks) <= MaxSeq
BY DEF ServerOk, Servers, Settled

LEMMA ProduceIInv ==
    ASSUME IInv, Produce
    PROVE  IInv'
<1>1. PICK size \in Sizes: server' = [server EXCEPT !.chunks = Append(@, size)]
  BY DEF Produce
<1>2. Len(server.chunks) < MaxSeq /\ UNCHANGED local /\ leaked' = leaked
  BY DEF Produce
<1>3. ServerOk(server)
  BY DEF IInv
<1>4. PICK w \in Seq(Sizes): w = server.chunks
  BY <1>3, ServerFields
<1>5. PICK v \in Seq(Sizes): v = Append(w, size) /\ Len(v) = Len(w) + 1
  BY AppendProperties
<1>6. PICK sv: sv = [server EXCEPT !.chunks = v]
  OBVIOUS
<1>7. server' = sv
  BY <1>1, <1>4, <1>5, <1>6
<1>8. sv \in Servers /\ sv.chunks = v /\ sv.stored = server.stored /\ sv.lost = server.lost
      /\ sv.leases = server.leases
  <2>1. server \in Servers
    BY <1>3, ServerFields
  <2> QED BY <1>5, <1>6, <2>1 DEF Servers
<1>9. Len(v) <= MaxSeq /\ 1..Len(w) \subseteq 1..Len(v)
  <2>1. Len(w) \in Nat /\ MaxSeq \in Nat
    BY <1>4, IntakeAssumption
  <2> QED BY <1>2, <1>4, <1>5, <2>1
<1>10. SUBSET (1..Len(w)) \subseteq SUBSET (1..Len(v))
  BY <1>9
<1>11. ServerOk(sv)
  BY <1>3, <1>4, <1>8, <1>9, <1>10, ServerFields DEF ServerOk, Settled
<1>12. Grows(server, server')
  BY <1>3, <1>4, <1>5, <1>7, <1>8, <1>11 DEF Grows, Settled
<1>13. LeaseInv' /\ leaked' \in BOOLEAN
  BY <1>2, <1>7, <1>8 DEF IInv, LeaseInv, ControlInv, local, Pinned
<1> QED BY <1>2, <1>12, <1>13, ServerStep

(* A step of the producer that seals nothing.                              *)
LEMMA ServerChanges ==
    ASSUME IInv, NEW sv, sv \in Servers, server' = sv, sv.chunks = server.chunks,
           Settled(server) \subseteq Settled(sv), server.lost \subseteq sv.lost,
           Settled(sv) \subseteq 1..Len(server.chunks), sv.stored \cap sv.lost = {},
           sv.leases \subseteq server.leases, UNCHANGED local, leaked' = leaked
    PROVE  IInv'
<1>1. ServerOk(server)
  BY DEF IInv
<1>2. ServerOk(sv)
  <2>1. sv.leases \subseteq SUBSET (1..Len(server.chunks)) /\ Len(server.chunks) <= MaxSeq
    BY <1>1, ServerFields
  <2> QED BY <2>1 DEF ServerOk
<1>3. Grows(server, server')
  BY <1>1, <1>2 DEF Grows
<1>4. LeaseInv' /\ leaked' \in BOOLEAN
  BY DEF IInv, LeaseInv, ControlInv, local, Pinned
<1> QED BY <1>3, <1>4, ServerStep

LEMMA SettleIInv ==
    ASSUME IInv, NEW n \in Sealed, Settle(n)
    PROVE  IInv'
<1>1. /\ server.stored \in SUBSET ChunkNumbers /\ server.lost \in SUBSET ChunkNumbers
      /\ server \in Servers
      /\ server.stored \cup server.lost \subseteq 1..Len(server.chunks)
      /\ server.stored \cap server.lost = {} /\ Len(server.chunks) <= MaxSeq
  BY ServerFields DEF IInv
<1>2. n \in 1..Len(server.chunks) /\ ~(n \in server.stored) /\ ~(n \in server.lost)
      /\ UNCHANGED local /\ leaked' = leaked
  BY DEF Settle, InFlight, Sealed
<1>3. n \in ChunkNumbers
  <2>1. Len(server.chunks) \in Nat
    BY ServerIs DEF IInv
  <2> QED BY <1>1, <1>2, <2>1, IntakeAssumption DEF ChunkNumbers
<1>4. CASE server' = [server EXCEPT !.stored = @ \cup {n}]
  <2>1. PICK S \in SUBSET ChunkNumbers: S = server.stored \cup {n}
    BY <1>1, <1>3
  <2>2. PICK sv: sv = [server EXCEPT !.stored = S]
    OBVIOUS
  <2>3. server' = sv
    BY <1>4, <2>1, <2>2
  <2>4. sv \in Servers /\ sv.stored = S /\ sv.lost = server.lost /\ sv.chunks = server.chunks
        /\ sv.leases = server.leases
    BY <1>1, <2>2 DEF Servers
  <2>5. /\ Settled(server) \subseteq Settled(sv) /\ server.lost \subseteq sv.lost
        /\ Settled(sv) \subseteq 1..Len(server.chunks) /\ sv.stored \cap sv.lost = {}
    BY <1>1, <1>2, <2>1, <2>4 DEF Settled
  <2> QED BY <1>2, <2>3, <2>4, <2>5, ServerChanges
<1>5. CASE server' = [server EXCEPT !.lost = @ \cup {n}]
  <2>1. PICK S \in SUBSET ChunkNumbers: S = server.lost \cup {n}
    BY <1>1, <1>3
  <2>2. PICK sv: sv = [server EXCEPT !.lost = S]
    OBVIOUS
  <2>3. server' = sv
    BY <1>5, <2>1, <2>2
  <2>4. sv \in Servers /\ sv.lost = S /\ sv.stored = server.stored /\ sv.chunks = server.chunks
        /\ sv.leases = server.leases
    BY <1>1, <2>2 DEF Servers
  <2>5. /\ Settled(server) \subseteq Settled(sv) /\ server.lost \subseteq sv.lost
        /\ Settled(sv) \subseteq 1..Len(server.chunks) /\ sv.stored \cap sv.lost = {}
    BY <1>1, <1>2, <2>1, <2>4 DEF Settled
  <2> QED BY <1>2, <2>3, <2>4, <2>5, ServerChanges
<1> QED BY <1>4, <1>5 DEF Settle

LEMMA RetireIInv ==
    ASSUME IInv, Retire
    PROVE  IInv'
<1>1. /\ server.stored \in SUBSET ChunkNumbers /\ server.lost \in SUBSET ChunkNumbers
      /\ server \in Servers
      /\ server.stored \cup server.lost \subseteq 1..Len(server.chunks)
      /\ server.stored \cap server.lost = {}
  BY ServerFields DEF IInv
<1>2. PICK n \in server.stored:
        server' = [server EXCEPT !.stored = @ \ {n}, !.lost = @ \cup {n}]
  BY DEF Retire
<1>3. UNCHANGED local /\ leaked' = leaked
  BY DEF Retire
<1>4. PICK S \in SUBSET ChunkNumbers: S = server.stored \ {n}
  BY <1>1
<1>5. PICK L \in SUBSET ChunkNumbers: L = server.lost \cup {n}
  BY <1>1
<1>6. PICK sv: sv = [server EXCEPT !.stored = S, !.lost = L]
  OBVIOUS
<1>7. server' = sv
  BY <1>2, <1>4, <1>5, <1>6
<1>8. sv \in Servers /\ sv.lost = L /\ sv.stored = S /\ sv.chunks = server.chunks
      /\ sv.leases = server.leases
  BY <1>1, <1>6 DEF Servers
<1>9. /\ Settled(server) \subseteq Settled(sv) /\ server.lost \subseteq sv.lost
      /\ Settled(sv) \subseteq 1..Len(server.chunks) /\ sv.stored \cap sv.lost = {}
  BY <1>1, <1>4, <1>5, <1>8 DEF Settled
<1> QED BY <1>3, <1>7, <1>8, <1>9, ServerChanges

LEMMA LeaseExpiresIInv ==
    ASSUME IInv, LeaseExpires
    PROVE  IInv'
<1>1. server \in Servers /\ server.leases \in SUBSET (SUBSET ChunkNumbers)
      /\ server.stored \cup server.lost \subseteq 1..Len(server.chunks)
      /\ server.stored \cap server.lost = {}
  BY ServerFields DEF IInv
<1>2. PICK l \in server.leases: server' = [server EXCEPT !.leases = @ \ {l}]
  BY DEF LeaseExpires
<1>3. UNCHANGED local /\ leaked' = leaked
  BY DEF LeaseExpires
<1>4. PICK S \in SUBSET (SUBSET ChunkNumbers): S = server.leases \ {l}
  BY <1>1
<1>5. PICK sv: sv = [server EXCEPT !.leases = S]
  OBVIOUS
<1>6. server' = sv
  BY <1>2, <1>4, <1>5
<1>7. sv \in Servers /\ sv.lost = server.lost /\ sv.stored = server.stored
      /\ sv.chunks = server.chunks /\ sv.leases \subseteq server.leases
  BY <1>1, <1>4, <1>5 DEF Servers
<1>8. /\ Settled(server) \subseteq Settled(sv) /\ server.lost \subseteq sv.lost
      /\ Settled(sv) \subseteq 1..Len(server.chunks) /\ sv.stored \cap sv.lost = {}
  BY <1>1, <1>7 DEF Settled
<1> QED BY <1>3, <1>6, <1>7, <1>8, ServerChanges

LEMMA PolicyChangesIInv ==
    ASSUME IInv, PolicyChanges
    PROVE  IInv'
<1>1. server \in Servers
      /\ server.stored \cup server.lost \subseteq 1..Len(server.chunks)
      /\ server.stored \cap server.lost = {}
  BY ServerFields DEF IInv
<1>2. PICK p \in Policies: server' = [server EXCEPT !.policy = p]
  BY DEF PolicyChanges
<1>3. UNCHANGED local /\ leaked' = leaked
  BY DEF PolicyChanges
<1>4. PICK sv: sv = [server EXCEPT !.policy = p]
  OBVIOUS
<1>5. server' = sv
  BY <1>2, <1>4
<1>6. sv \in Servers /\ sv.lost = server.lost /\ sv.stored = server.stored
      /\ sv.chunks = server.chunks /\ sv.leases = server.leases
  BY <1>1, <1>4 DEF Servers
<1>7. /\ Settled(server) \subseteq Settled(sv) /\ server.lost \subseteq sv.lost
      /\ Settled(sv) \subseteq 1..Len(server.chunks) /\ sv.stored \cap sv.lost = {}
  BY <1>1, <1>6 DEF Settled
<1> QED BY <1>3, <1>5, <1>6, <1>7, ServerChanges

-----------------------------------------------------------------------------
(* The index and the snapshots.                                            *)

LEMMA ReplayFields ==
    ASSUME NEW r, NEW led, NEW sv, ReplayOk(r, led, sv)
    PROVE  /\ r \in Replays /\ r.opened \in BOOLEAN /\ r.cursor \in Nat /\ r.cursor \in 0..MaxSeq
           /\ r.manifest \in Manifests /\ r.chunks \in Seq(ChunkNumbers) /\ Len(r.chunks) \in Nat
           /\ r.evicted \in Nat /\ r.last \in Proposals \cup {NoProposal}
<1>1. r \in Replays
  BY DEF ReplayOk
<1> QED BY <1>1 DEF Replays

LEMMA RefreshedIs ==
    ASSUME NEW led, NEW sv, ReplayOk(replay, led, sv), IndexOk(sampler, replay)
    PROVE  IndexExact(Refreshed(replay), replay)
<1>1. PICK s: s = Signature(replay)
  OBVIOUS
<1>2. s = <<replay.cursor, replay.evicted, Len(replay.chunks)>>
  BY <1>1 DEF Signature
<1>3. CASE sampler.signature = s
  <2>1. sampler.signature # <<>>
    BY <1>2, <1>3
  <2>2. /\ sampler.cursor \in Nat /\ (\E e, l \in Nat: sampler.signature = <<sampler.cursor, e, l>>)
        /\ sampler.chunks = replay.chunks
    BY <1>1, <1>3, <2>1 DEF IndexOk
  <2>3. sampler.cursor = replay.cursor
    BY <1>2, <1>3, <2>2
  <2>4. Refreshed(replay) = sampler
    BY <1>1, <1>3 DEF Refreshed
  <2> QED BY <1>1, <1>3, <2>2, <2>3, <2>4 DEF IndexExact
<1>4. CASE sampler.signature # s
  <2>1. Refreshed(replay) = [signature |-> s, cursor |-> replay.cursor, chunks |-> replay.chunks]
    BY <1>1, <1>4 DEF Refreshed
  <2> QED BY <1>1, <2>1 DEF IndexExact
<1> QED BY <1>3, <1>4

LEMMA ExactIsOk ==
    ASSUME NEW r, NEW led, NEW sv, ReplayOk(r, led, sv), NEW x, IndexExact(x, r)
    PROVE  IndexOk(x, r)
<1>1. r.cursor \in Nat /\ r.evicted \in Nat /\ Len(r.chunks) \in Nat
  BY ReplayFields
<1>2. x.signature = <<r.cursor, r.evicted, Len(r.chunks)>> /\ x.cursor = r.cursor
      /\ x.chunks = r.chunks
  BY DEF IndexExact, Signature
<1>3. \E e, l \in Nat: x.signature = <<x.cursor, e, l>>
  BY <1>1, <1>2
<1> QED BY <1>1, <1>2, <1>3 DEF IndexOk

LEMMA SnapshotIs ==
    ASSUME IInv, pc # "off", replay.opened
    PROVE  DiskOk(Snapshot, server) /\ Snapshot.opened \in BOOLEAN
<1>1. ReplayOk(replay, ledger, server) /\ IndexOk(sampler, replay)
      /\ client.cursor = replay.cursor
  BY DEF IInv, ClientOk
<1>2. IndexExact(Refreshed(replay), replay)
  BY <1>1, RefreshedIs
<1>3. client.policy \in Policies \cup {Unobserved}
  BY DEF IInv, Clients
<1>4. /\ Snapshot.opened = TRUE /\ Snapshot.replay = replay /\ Snapshot.cursor = client.cursor
      /\ Snapshot.policy = client.policy /\ Snapshot.index = Refreshed(replay)
      /\ Snapshot.ledger = ledger
  BY DEF Snapshot
<1> QED BY <1>1, <1>2, <1>3, <1>4 DEF DiskOk

DiskGood == DiskOk(disk, server) /\ disk.opened \in BOOLEAN
LEMMA FailedIs ==
    ASSUME IInv, pc # "off", Failed, ServerOk(server'), Grows(server, server')
    PROVE  DiskGood' /\ pc' = "off"
<1>1. PICK d: d = IF replay.opened THEN Snapshot ELSE disk
  OBVIOUS
<1>2. disk' = d /\ pc' = "off"
  BY <1>1 DEF Failed
<1>3. DiskOk(d, server) /\ d.opened \in BOOLEAN
  <2>1. CASE replay.opened
    BY <1>1, <2>1, SnapshotIs
  <2>2. CASE ~replay.opened
    BY <1>1, <2>2 DEF IInv
  <2> QED BY <2>1, <2>2
<1>4. DiskOk(d, server')
  BY <1>3, GrowsDisk
<1> QED BY <1>2, <1>3, <1>4 DEF DiskGood

LEMMA GrowsSelf ==
    ASSUME ServerOk(server), server' = server
    PROVE  Grows(server, server')
BY DEF Grows

(* A step of the job that leaves the replay and the cursor alone.          *)
Steady == /\ UNCHANGED <<replay, ledger>> /\ Grows(server, server')
          /\ client'.cursor = client.cursor
LEMMA SteadyStep ==
    ASSUME IInv, Steady, client' \in Clients,
           pc' # "off" => ClientOk(client', replay, server') /\ IndexOk(sampler', replay),
           FetchInv', DiskGood', LeaseInv', ControlInv'
    PROVE  IInv'
<1>1. ReplayOk(replay, ledger, server')
  BY GrowsReplay DEF IInv, Steady
<1>2. ReplayOk(replay, ledger, server)' /\ ServerOk(server)'
      /\ (pc # "off" => ClientOk(client, replay, server) /\ IndexOk(sampler, replay))'
  BY <1>1 DEF Steady, Grows
<1> QED BY <1>2 DEF IInv, DiskGood

LEMMA SaveIInv ==
    ASSUME IInv, Save
    PROVE  IInv'
<1>1. /\ pc = "idle" /\ replay.opened /\ disk' = Snapshot /\ sampler' = Refreshed(replay)
      /\ UNCHANGED <<server, pc, fetch, client, replay, runs, faults, ledger, leaked, fault>>
  BY DEF Save
<1>2. DiskOk(Snapshot, server) /\ Snapshot.opened \in BOOLEAN
  BY <1>1, SnapshotIs
<1>3. DiskGood'
  BY <1>1, <1>2 DEF DiskGood
<1>4. ReplayOk(replay, ledger, server) /\ IndexOk(sampler, replay)
      /\ ClientOk(client, replay, server) /\ client \in Clients /\ ServerOk(server)
  BY <1>1 DEF IInv
<1>5. IndexOk(sampler', replay)
  BY <1>1, <1>4, RefreshedIs, ExactIsOk
<1>6. Steady
  BY <1>1, <1>4, GrowsSelf DEF Steady
<1>7. FetchInv' /\ LeaseInv' /\ ControlInv'
  BY <1>1 DEF IInv, FetchInv, LeaseInv, ControlInv, Pinned
<1> QED BY <1>1, <1>3, <1>4, <1>5, <1>6, <1>7, SteadyStep

LEMMA SampleIInv ==
    ASSUME IInv, Sample
    PROVE  IInv'
<1>1. /\ pc = "idle" /\ replay.opened /\ sampler' = Refreshed(replay)
      /\ UNCHANGED <<server, pc, fetch, client, replay, disk, runs, faults, ledger, leaked, fault>>
  BY DEF Sample
<1>2. DiskGood'
  BY <1>1 DEF IInv, DiskGood
<1>3. ReplayOk(replay, ledger, server) /\ IndexOk(sampler, replay)
      /\ ClientOk(client, replay, server) /\ client \in Clients /\ ServerOk(server)
  BY <1>1 DEF IInv
<1>4. IndexOk(sampler', replay)
  BY <1>1, <1>3, RefreshedIs, ExactIsOk
<1>5. Steady
  BY <1>1, <1>3, GrowsSelf DEF Steady
<1>6. FetchInv' /\ LeaseInv' /\ ControlInv'
  BY <1>1 DEF IInv, FetchInv, LeaseInv, ControlInv, Pinned
<1> QED BY <1>1, <1>2, <1>3, <1>4, <1>5, <1>6, SteadyStep

(* The job ends with an error.                                             *)
LEMMA EndStep ==
    ASSUME IInv, pc' = "off", Steady, client' \in Clients, fetch' \in Fetches,
           DiskGood', LeaseInv', runs' = runs, leaked' \in BOOLEAN, fault' = fault
    PROVE  IInv'
<1>1. FetchInv'
  BY DEF FetchInv
<1>2. ControlInv'
  BY DEF IInv, ControlInv
<1> QED BY <1>1, <1>2, SteadyStep

LEMMA FetchPolicyIInv ==
    ASSUME IInv, FetchPolicy
    PROVE  IInv'
<1>1. pc = "idle"
      /\ UNCHANGED <<server, fetch, replay, sampler, runs, faults, ledger, leaked, fault>>
  BY DEF FetchPolicy
<1>2. ReplayOk(replay, ledger, server) /\ IndexOk(sampler, replay) /\ fetch \in Fetches
      /\ ClientOk(client, replay, server) /\ client \in Clients /\ ServerOk(server)
  BY <1>1 DEF IInv, FetchInv
<1>3. LeaseInv' /\ Grows(server, server') /\ ServerOk(server')
  BY <1>1, <1>2, GrowsSelf DEF IInv, LeaseInv, FetchPolicy, Failed
<1>4. CASE client' = [client EXCEPT !.policy = server.policy] /\ pc' = "page" /\ UNCHANGED disk
  <2>1. server.policy \in Policies
    BY <1>2, ServerFields
  <2>2. client' \in Clients /\ client'.cursor = client.cursor /\ client'.manifest = client.manifest
    BY <1>2, <1>4, <2>1 DEF Clients
  <2>3. ClientOk(client', replay, server')
    BY <1>1, <1>2, <2>2 DEF ClientOk
  <2>4. Steady
    BY <1>1, <1>3, <2>2 DEF Steady
  <2>5. FetchInv' /\ ControlInv' /\ DiskGood'
    BY <1>1, <1>4 DEF IInv, FetchInv, ControlInv, DiskGood
  <2> QED BY <1>1, <1>2, <1>3, <2>2, <2>3, <2>4, <2>5, SteadyStep
<1>5. CASE Failed /\ UNCHANGED client
  <2>1. DiskGood' /\ pc' = "off"
    BY <1>1, <1>3, <1>5, FailedIs
  <2>2. Steady /\ leaked' \in BOOLEAN
    BY <1>1, <1>3, <1>5 DEF Steady, IInv, ControlInv
  <2> QED BY <1>1, <1>2, <1>3, <1>5, <2>1, <2>2, EndStep
<1> QED BY <1>4, <1>5 DEF FetchPolicy

LEMMA RequestFailsIInv ==
    ASSUME IInv, RequestFails
    PROVE  IInv'
<1>1. pc \in {"idle", "page"} /\ Failed
      /\ UNCHANGED <<server, fetch, client, replay, sampler, runs, ledger, leaked, fault>>
  BY DEF RequestFails
<1>2. fetch \in Fetches /\ client \in Clients /\ ServerOk(server)
  BY DEF IInv, FetchInv
<1>3. LeaseInv' /\ Grows(server, server') /\ ServerOk(server')
  BY <1>1, <1>2, GrowsSelf DEF IInv, LeaseInv, Failed
<1>4. DiskGood' /\ pc' = "off"
  BY <1>1, <1>3, FailedIs
<1>5. Steady /\ leaked' \in BOOLEAN
  BY <1>1, <1>3 DEF Steady, IInv, ControlInv
<1> QED BY <1>1, <1>2, <1>3, <1>4, <1>5, EndStep

LEMMA DieIInv ==
    ASSUME IInv, Die
    PROVE  IInv'
<1>1. pc # "off" /\ pc' = "off" /\ leaked' = (leaked \/ pc \in {"download", "release", "abort"})
      /\ UNCHANGED <<server, fetch, client, replay, sampler, disk, runs, ledger, fault>>
  BY DEF Die
<1>2. fetch \in Fetches /\ client \in Clients /\ ServerOk(server) /\ leaked \in BOOLEAN
  BY DEF IInv, FetchInv, ControlInv
<1>3. Grows(server, server') /\ DiskGood'
  BY <1>1, <1>2, GrowsSelf DEF IInv, DiskGood
<1>4. LeaseInv'
  BY <1>1 DEF IInv, LeaseInv
<1>5. Steady
  BY <1>1, <1>3 DEF Steady
<1>6. leaked' \in BOOLEAN
  BY <1>1, <1>2
<1> QED BY <1>1, <1>2, <1>3, <1>4, <1>5, <1>6, EndStep

(* The last proposal again: nothing changes.                               *)
LEMMA AdmitAgainIInv ==
    ASSUME IInv, AdmitAgain
    PROVE  IInv'
<1>1. pc = "idle" /\ replay' = Admit(replay, replay.last, replay.manifest)
      /\ ledger' = LedgerAfter(replay, replay.last, replay')
      /\ UNCHANGED <<server, pc, fetch, client, sampler, disk, runs, faults, leaked, fault>>
  BY DEF AdmitAgain
<1>2. IsRetry(replay, replay.last)
  BY DEF IsRetry
<1>3. replay' = [replay EXCEPT !.manifest = replay.manifest] /\ ledger' = ledger
  BY <1>1, <1>2, Zenon DEF Admit, LedgerAfter
<1>4. replay \in Replays
  BY DEF IInv, ReplayOk
<1>5. replay' = replay
  BY <1>3, <1>4 DEF Replays
<1>6. UNCHANGED <<server, pc, fetch, client, replay, sampler, disk, runs, ledger, leaked, fault>>
  BY <1>1, <1>3, <1>5
<1> QED BY <1>6 DEF IInv, FetchInv, LeaseInv, ControlInv, Pinned

-----------------------------------------------------------------------------
(* The fetch.                                                              *)

(* A manifest of the past is not ahead of the producer's present one.      *)
LEMMA NoRegress ==
    ASSUME ServerOk(server), NEW m, ManifestOk(m, server)
    PROVE  ~Regressed(m, Manifest) /\ m.resolved <= Resolved
<1>1. PICK l \in Nat: l = Len(server.chunks)
  BY ServerIs
<1>2. m \in Manifests /\ m.resolved <= m.production /\ m.production <= l
      /\ 1..m.resolved \subseteq Settled(server)
  BY <1>1 DEF ManifestOk
<1>3. m.resolved \in Nat /\ m.production \in Nat
  BY <1>2, IntakeAssumption DEF Manifests
<1>4. m.resolved <= Resolved /\ Resolved \in Nat
  <2>1. m.resolved \in 0..l
    BY <1>1, <1>2, <1>3
  <2> QED BY <1>1, <1>2, <2>1, ResolvedIs DEF WatermarkOk
<1>5. Manifest.production = l /\ Manifest.resolved = Resolved
  BY <1>1 DEF Manifest
<1> QED BY <1>1, <1>2, <1>3, <1>4, <1>5 DEF Regressed

LEMMA NoRefusal ==
    ASSUME ServerOk(server), NEW r, ClientOk(client, r, server), client \in Clients
    PROVE  ~(Manifest.production < client.cursor \/ Regressed(client.manifest, Manifest))
<1>1. ManifestOk(client.manifest, server) /\ client.cursor <= client.manifest.resolved
  BY DEF ClientOk
<1>2. ~Regressed(client.manifest, Manifest)
  BY <1>1, NoRegress
<1>3. PICK l \in Nat: l = Len(server.chunks)
  BY ServerIs
<1>4. client.manifest.resolved <= client.manifest.production /\ client.manifest.production <= l
  BY <1>1, <1>3 DEF ManifestOk
<1>5. client.cursor \in Nat /\ client.manifest.resolved \in Nat /\ client.manifest.production \in Nat
  BY IntakeAssumption DEF Clients, Manifests
<1>6. Manifest.production = l
  BY <1>3 DEF Manifest
<1> QED BY <1>1, <1>2, <1>3, <1>4, <1>5, <1>6

LEMMA FetchPageIInv ==
    ASSUME IInv, FetchPage
    PROVE  IInv'
<1>1. pc = "page" /\ UNCHANGED <<server, replay, sampler, runs, faults, ledger, leaked>>
  BY DEF FetchPage
<1>2. ReplayOk(replay, ledger, server) /\ IndexOk(sampler, replay)
      /\ ClientOk(client, replay, server) /\ client \in Clients /\ ServerOk(server)
  BY <1>1 DEF IInv
<1>3. ~(Manifest.production < client.cursor \/ Regressed(client.manifest, Manifest))
  BY <1>2, NoRefusal
<1>4. PICK page \in Pages(client.cursor):
        LET ns == Admitted(page)
        IN /\ fetch' = [admitted |-> ns, tail |-> TailSettled(client.cursor, page), got |-> 0]
           /\ pc' = IF ns = <<>> THEN "ingest" ELSE "lease"
  BY <1>3 DEF FetchPage
<1>5. client' = [client EXCEPT !.manifest = Manifest] /\ UNCHANGED <<disk, fault>>
  BY <1>3 DEF FetchPage
<1>6. PICK c \in Nat: c = client.cursor
  BY <1>2, IntakeAssumption DEF Clients
<1>7. PICK ns: ns = Admitted(page)
  OBVIOUS
<1>8. PICK tail \in BOOLEAN: tail = TailSettled(c, page)
  <2>1. TailSettled(c, page) \in BOOLEAN
    BY Zenon DEF TailSettled
  <2> QED BY <2>1
<1>9. fetch' = [admitted |-> ns, tail |-> tail, got |-> 0]
      /\ pc' = IF ns = <<>> THEN "ingest" ELSE "lease"
  BY <1>4, <1>6, <1>7, <1>8, Zenon
<1>10. PageOk(page, c, server)
  BY <1>2, <1>6, PagesAre
<1>11. Yields(page, c, ns, tail)
  BY <1>7, <1>8, <1>10 DEF Yields
<1>12. ManifestOk(Manifest, server)
  BY <1>2, ManifestNow
<1>13. client' \in Clients /\ client'.cursor = c /\ client'.manifest = Manifest
  <2>1. PICK m \in Manifests: m = Manifest
    BY <1>12 DEF ManifestOk
  <2>2. client' = [client EXCEPT !.manifest = m]
    BY <1>5, <2>1
  <2> QED BY <1>2, <1>6, <2>1, <2>2 DEF Clients
<1>14. FetchOk(fetch', client', server)
  BY <1>2, <1>9, <1>11, <1>13, PageFetched
<1>15. fetch' \in Fetches
  <2>1. ns \in Seq(1..Len(server.chunks))
    BY <1>2, <1>11, AdmittedInOrder
  <2>2. ns \in Seq(ChunkNumbers)
    <3>1. Len(server.chunks) \in Nat /\ Len(server.chunks) <= MaxSeq /\ MaxSeq \in Nat
      BY <1>2, ServerIs, IntakeAssumption
    <3>2. 1..Len(server.chunks) \subseteq ChunkNumbers
      BY <3>1 DEF ChunkNumbers
    <3>3. ns \in [1..Len(ns) -> 1..Len(server.chunks)] /\ Len(ns) \in Nat
      BY <2>1
    <3>4. ns \in [1..Len(ns) -> ChunkNumbers]
      BY <3>2, <3>3
    <3> QED BY <3>3, <3>4
  <2> QED BY <1>9, <2>2 DEF Fetches
<1>16. FetchInv'
  <2>1. fetch'.admitted = ns /\ fetch'.got = 0
    BY <1>9
  <2>2. FetchOk(fetch, client, server)'
    BY <1>1, <1>14
  <2>3. CASE ns = <<>>
    <3>1. pc' = "ingest" /\ Len(ns) = 0
      BY <1>9, <2>3
    <3> QED BY <1>15, <2>1, <2>2, <3>1 DEF FetchInv
  <2>4. CASE ns # <<>>
    <3>1. pc' = "lease"
      BY <1>9, <2>4
    <3> QED BY <1>15, <2>1, <2>2, <2>4, <3>1 DEF FetchInv
  <2> QED BY <2>3, <2>4
<1>17. pc' \in {"ingest", "lease"}
  BY <1>9
<1>18. ControlInv' /\ LeaseInv' /\ DiskGood'
  BY <1>1, <1>5, <1>17 DEF IInv, ControlInv, LeaseInv, DiskGood
<1>19. ClientOk(client', replay, server)
  <2>1. ~Regressed(client.manifest, Manifest) /\ client.manifest.resolved <= Resolved
    BY <1>2, NoRegress DEF ClientOk
  <2>2. ManifestOk(replay.manifest, server)
    BY <1>2 DEF ReplayOk
  <2>3. ~Regressed(replay.manifest, Manifest)
    BY <1>2, <2>2, NoRegress
  <2>4. c <= Resolved
    <3>1. c <= client.manifest.resolved /\ client.manifest.resolved \in Nat
      BY <1>2, <1>6, IntakeAssumption DEF ClientOk, Clients, Manifests
    <3>2. Resolved \in Nat
      <4>1. Len(server.chunks) \in Nat
        BY <1>2, ServerIs
      <4> QED BY <1>2, <4>1, ResolvedIs DEF WatermarkOk
    <3> QED BY <2>1, <3>1, <3>2
  <2>5. Manifest.resolved = Resolved /\ c = replay.cursor
    BY <1>2, <1>6 DEF Manifest, ClientOk
  <2> QED BY <1>12, <1>13, <2>3, <2>4, <2>5 DEF ClientOk
<1>20. Steady /\ (pc' # "off" => ClientOk(client', replay, server') /\ IndexOk(sampler', replay))
  BY <1>1, <1>2, <1>6, <1>13, <1>19, GrowsSelf DEF Steady
<1> QED BY <1>13, <1>16, <1>18, <1>20, SteadyStep

(* A change of the leases alone.                                           *)
LEMMA LeasesChange ==
    ASSUME ServerOk(server), NEW L, L \subseteq SUBSET (1..Len(server.chunks)),
           server' = [server EXCEPT !.leases = L]
    PROVE  /\ Grows(server, server') /\ ServerOk(server') /\ server'.leases = L
           /\ server'.stored = server.stored
<1>1. server \in Servers /\ server.stored \cup server.lost \subseteq 1..Len(server.chunks)
      /\ server.stored \cap server.lost = {} /\ Len(server.chunks) <= MaxSeq
  BY ServerFields
<1>2. L \subseteq SUBSET ChunkNumbers
  <2>1. Len(server.chunks) \in Nat /\ MaxSeq \in Nat
    BY ServerIs, IntakeAssumption
  <2>2. 1..Len(server.chunks) \subseteq ChunkNumbers
    BY <1>1, <2>1 DEF ChunkNumbers
  <2>3. SUBSET (1..Len(server.chunks)) \subseteq SUBSET ChunkNumbers
    BY <2>2
  <2> QED BY <2>3
<1>3. PICK sv: sv = [server EXCEPT !.leases = L]
  OBVIOUS
<1>4. sv \in Servers /\ sv.chunks = server.chunks /\ sv.stored = server.stored
      /\ sv.lost = server.lost /\ sv.leases = L
  BY <1>1, <1>2, <1>3 DEF Servers
<1>5. ServerOk(sv)
  BY <1>1, <1>4 DEF ServerOk, Settled
<1> QED BY <1>3, <1>4, <1>5 DEF Grows, Settled

(* The next request of a fetch.                                            *)
LEMMA FetchStep ==
    ASSUME IInv, pc \in {"lease", "download", "release", "abort"}, Grows(server, server'),
           UNCHANGED <<client, replay, sampler, disk, runs, ledger, fault>>,
           leaked' \in BOOLEAN, fetch' \in Fetches, fetch'.admitted = fetch.admitted,
           fetch'.tail = fetch.tail, pc' \in {"download", "release", "abort", "ingest"},
           pc' = "download" => fetch'.got < Len(fetch.admitted),
           pc' \in {"release", "ingest"} => fetch'.got = Len(fetch.admitted), LeaseInv'
    PROVE  IInv'
<1>1. ReplayOk(replay, ledger, server) /\ IndexOk(sampler, replay)
      /\ ClientOk(client, replay, server) /\ client \in Clients
      /\ FetchOk(fetch, client, server) /\ fetch.admitted # <<>>
  BY DEF IInv, FetchInv
<1>2. ClientOk(client, replay, server') /\ FetchOk(fetch, client, server')
  BY <1>1, GrowsClient, GrowsFetch
<1>3. FetchOk(fetch', client, server')
  BY <1>2 DEF FetchOk, ReachOf
<1>4. FetchInv'
  BY <1>1, <1>3 DEF FetchInv
<1>5. DiskGood'
  <2>1. DiskOk(disk, server')
    BY GrowsDisk DEF IInv
  <2> QED BY <2>1 DEF DiskGood, IInv
<1>6. ControlInv'
  BY DEF IInv, ControlInv
<1>7. Steady
  BY DEF Steady
<1>8. pc' # "off" => ClientOk(client', replay, server') /\ IndexOk(sampler', replay)
  BY <1>1, <1>2
<1> QED BY <1>1, <1>4, <1>5, <1>6, <1>7, <1>8, SteadyStep

(* A request fails, and the job ends.                                      *)
LEMMA FetchFails ==
    ASSUME IInv, pc \in {"lease", "download", "release", "abort"}, Failed,
           Grows(server, server'), ServerOk(server'),
           UNCHANGED <<fetch, client, replay, runs, ledger, fault>>,
           leaked' \in BOOLEAN, ~leaked' => server'.leases = {}
    PROVE  IInv'
<1>1. DiskGood' /\ pc' = "off"
  BY FailedIs
<1>2. fetch' \in Fetches /\ client' \in Clients
  BY DEF IInv, FetchInv
<1>3. LeaseInv'
  BY <1>1 DEF LeaseInv
<1>4. Steady
  BY DEF Steady
<1> QED BY <1>1, <1>2, <1>3, <1>4, EndStep

LEMMA PinnedIs ==
    ASSUME IInv, pc \in {"lease", "download", "release", "abort"}
    PROVE  Pinned \subseteq 1..Len(server.chunks)
<1>1. ServerOk(server) /\ FetchOk(fetch, client, server) /\ fetch \in Fetches
      /\ ClientOk(client, replay, server) /\ client \in Clients
  BY DEF IInv, FetchInv
<1>2. PICK ns \in Seq(ChunkNumbers): ns = fetch.admitted
  BY <1>1 DEF Fetches
<1>3. PICK l \in Nat: l = Len(server.chunks)
  BY <1>1, ServerIs
<1>4. PICK c \in Nat: c = client.cursor
  BY <1>1, IntakeAssumption DEF Clients
<1>5. PICK m \in Nat: m = client.manifest.resolved /\ m <= l
  <2>1. client.manifest \in Manifests /\ client.manifest.resolved <= client.manifest.production
        /\ client.manifest.production <= l
    BY <1>1, <1>3 DEF ClientOk, ManifestOk
  <2> QED BY <2>1, IntakeAssumption DEF Manifests
<1>6. \A i \in 1..Len(ns): c < ns[i] /\ ns[i] <= m
  BY <1>1, <1>2, <1>4, <1>5 DEF FetchOk
<1>7. ASSUME NEW n \in Range(ns) PROVE n \in 1..l
  <2>1. PICK i \in 1..Len(ns): n = ns[i]
    BY RangeIs
  <2>2. ns[i] \in Nat
    BY IntakeAssumption DEF ChunkNumbers
  <2> QED BY <1>5, <1>6, <2>1, <2>2
<1> QED BY <1>2, <1>3, <1>7 DEF Pinned

LEMMA LeaseIInv ==
    ASSUME IInv, Lease
    PROVE  IInv'
<1>1. pc = "lease" /\ UNCHANGED <<fetch, client, replay, sampler, runs, ledger, fault>>
  BY DEF Lease
<1>2. ServerOk(server) /\ leaked \in BOOLEAN /\ fetch \in Fetches /\ fetch.admitted # <<>>
      /\ (~leaked => server.leases = {})
  BY <1>1 DEF IInv, ControlInv, FetchInv, LeaseInv
<1>3. PICK P: P = Pinned
  OBVIOUS
<1>4. P \subseteq 1..Len(server.chunks) /\ server.leases \subseteq SUBSET (1..Len(server.chunks))
  BY <1>1, <1>2, <1>3, PinnedIs, ServerFields
<1>5. PICK L: L = server.leases \cup {P}
  OBVIOUS
<1>6. L \subseteq SUBSET (1..Len(server.chunks))
  BY <1>4, <1>5
<1>7. CASE server' = [server EXCEPT !.leases = @ \cup {Pinned}]
           /\ pc' = "download" /\ UNCHANGED <<disk, faults, leaked>>
  <2>1. server' = [server EXCEPT !.leases = L]
    BY <1>3, <1>5, <1>7
  <2>2. Grows(server, server') /\ server'.leases = L
    BY <1>2, <1>6, <2>1, LeasesChange
  <2>3. LeaseInv'
    BY <1>1, <1>2, <1>3, <1>5, <1>7, <2>2 DEF LeaseInv, Pinned
  <2>4. fetch'.got < Len(fetch.admitted)
    <3>1. fetch.got = 0
      BY <1>1 DEF IInv, FetchInv
    <3>2. Len(fetch.admitted) \in Nat /\ Len(fetch.admitted) # 0
      BY <1>2 DEF Fetches
    <3> QED BY <1>1, <3>1, <3>2
  <2> QED BY <1>1, <1>2, <1>7, <2>2, <2>3, <2>4, FetchStep
<1>8. CASE server' = [server EXCEPT !.leases = @ \cup {Pinned}]
           /\ Failed /\ leaked' = TRUE
  <2>1. server' = [server EXCEPT !.leases = L]
    BY <1>3, <1>5, <1>8
  <2>2. Grows(server, server') /\ ServerOk(server')
    BY <1>2, <1>6, <2>1, LeasesChange
  <2> QED BY <1>1, <1>8, <2>2, FetchFails
<1>9. CASE Failed /\ UNCHANGED <<server, leaked>>
  <2>1. Grows(server, server') /\ ServerOk(server')
    BY <1>2, <1>9, GrowsSelf
  <2>2. leaked' \in BOOLEAN /\ (~leaked' => server'.leases = {})
    BY <1>2, <1>9
  <2> QED BY <1>1, <1>9, <2>1, <2>2, FetchFails
<1> QED BY <1>7, <1>8, <1>9 DEF Lease

LEMMA DownloadIInv ==
    ASSUME IInv, Download
    PROVE  IInv'
<1>1. pc = "download"
      /\ UNCHANGED <<server, client, replay, sampler, disk, runs, ledger, leaked, fault>>
  BY DEF Download
<1>2. ServerOk(server) /\ leaked \in BOOLEAN /\ fetch \in Fetches
      /\ fetch.got < Len(fetch.admitted)
      /\ (~leaked => server.leases \subseteq {Pinned})
  BY <1>1 DEF IInv, ControlInv, FetchInv, LeaseInv
<1>3. Grows(server, server')
  BY <1>1, <1>2, GrowsSelf
<1>4. CASE Downloaded
  <2>1. PICK g \in Nat: g = fetch.got
    BY <1>2 DEF Fetches
  <2>2. PICK m \in Nat: m = Len(fetch.admitted)
    BY <1>2 DEF Fetches
  <2>3. g + 1 \in Nat /\ g + 1 <= m
    BY <1>2, <2>1, <2>2
  <2>4. fetch' = [fetch EXCEPT !.got = g + 1]
        /\ pc' = IF g + 1 = m THEN "release" ELSE "download"
    BY <1>4, <2>1, <2>2 DEF Downloaded
  <2>5. fetch' \in Fetches /\ fetch'.admitted = fetch.admitted /\ fetch'.tail = fetch.tail
        /\ fetch'.got = g + 1
    BY <1>2, <2>3, <2>4 DEF Fetches
  <2>6. LeaseInv'
    BY <1>1, <1>2, <2>4, <2>5 DEF LeaseInv, Pinned
  <2>7. /\ pc' \in {"release", "download"}
        /\ pc' = "download" => fetch'.got < Len(fetch.admitted)
        /\ pc' = "release" => fetch'.got = Len(fetch.admitted)
    BY <2>2, <2>3, <2>4, <2>5
  <2> QED BY <1>1, <1>2, <1>3, <2>5, <2>6, <2>7, FetchStep
<1>5. CASE pc' = "abort" /\ UNCHANGED fetch
  <2>1. LeaseInv'
    BY <1>1, <1>2, <1>5 DEF LeaseInv, Pinned
  <2> QED BY <1>1, <1>2, <1>3, <1>5, <2>1, FetchStep
<1> QED BY <1>4, <1>5 DEF Download

LEMMA ReleaseIInv ==
    ASSUME IInv, Release
    PROVE  IInv'
<1>1. pc \in {"release", "abort"}
      /\ UNCHANGED <<fetch, client, replay, sampler, runs, ledger, fault>>
  BY DEF Release
<1>2. ServerOk(server) /\ leaked \in BOOLEAN /\ fetch \in Fetches
      /\ (pc = "release" => fetch.got = Len(fetch.admitted))
      /\ (~leaked => server.leases \subseteq {Pinned})
  BY <1>1 DEF IInv, ControlInv, FetchInv, LeaseInv
<1>3. CASE server' = [server EXCEPT !.leases = @ \ {Pinned}] /\ leaked' = leaked
           /\ IF pc = "release" THEN pc' = "ingest" /\ UNCHANGED disk ELSE Failed
  <2>1. PICK L: L = server.leases \ {Pinned}
    OBVIOUS
  <2>2. server' = [server EXCEPT !.leases = L]
    BY <1>3, <2>1
  <2>3. L \subseteq SUBSET (1..Len(server.chunks))
    BY <1>2, <2>1, ServerFields
  <2>4. Grows(server, server') /\ ServerOk(server') /\ server'.leases = L
    BY <1>2, <2>2, <2>3, LeasesChange
  <2>5. ~leaked' => server'.leases = {}
    BY <1>2, <1>3, <2>1, <2>4
  <2>6. CASE pc = "release"
    <3>1. pc' = "ingest" /\ UNCHANGED disk
      BY <1>3, <2>6
    <3>2. LeaseInv'
      BY <2>5, <3>1 DEF LeaseInv
    <3> QED BY <1>1, <1>2, <1>3, <2>4, <2>6, <3>1, <3>2, FetchStep
  <2>7. CASE pc = "abort"
    <3>1. Failed
      BY <1>3, <2>7
    <3> QED BY <1>1, <1>2, <1>3, <2>4, <2>5, <3>1, FetchFails
  <2> QED BY <1>1, <2>6, <2>7
<1>4. CASE Failed /\ leaked' = TRUE /\ UNCHANGED server
  <2>1. Grows(server, server') /\ ServerOk(server')
    BY <1>2, <1>4, GrowsSelf
  <2> QED BY <1>1, <1>4, <2>1, FetchFails
<1> QED BY <1>3, <1>4 DEF Release

-----------------------------------------------------------------------------
(* A start.                                                                *)

LEMMA NewIs ==
    ASSUME NEW sv, ServerOk(sv)
    PROVE  /\ ReplayOk(NewReplay, NewLedger, sv) /\ NewClient \in Clients
           /\ ClientOk(NewClient, NewReplay, sv) /\ IndexOk(NoIndex, NewReplay)
           /\ NoFetch \in Fetches
<1>1. sv.chunks \in Seq(Sizes) /\ Len(sv.chunks) \in Nat
  BY ServerIs
<1>2. MaxSeq \in Nat /\ ReplayBytes \in Nat /\ ReplayChunks \in Nat
  BY IntakeAssumption
<1>3. PICK w \in Seq(Nat): w = sv.chunks
  BY <1>1, Sized
<1>4. KeptOk(<<>>, 0, sv.chunks)
  <2>1. CostOf(w, <<>>) = 0
    BY CostEmpty
  <2>2. <<>> \in Seq(1..Len(w)) /\ Len(<<>>) = 0 /\ 1..0 = {}
    OBVIOUS
  <2>3. Increasing(<<>>)
    BY <2>2 DEF Increasing
  <2>4. 0 <= ReplayBytes /\ 0 <= ReplayChunks
    BY <1>2
  <2> QED BY <1>3, <2>1, <2>2, <2>3, <2>4 DEF KeptOk
<1>5. ManifestOk(NoManifest, sv)
  <2>1. 1..0 = {} /\ 0 \in 0..MaxSeq /\ 0 <= Len(sv.chunks)
    BY <1>1, <1>2
  <2> QED BY <2>1 DEF ManifestOk, NoManifest, Manifests
<1>6. NewReplay \in Replays
  <2>1. <<>> \in Seq(ChunkNumbers) /\ 0 \in 0..MaxSeq
    BY <1>2
  <2> QED BY <1>2, <1>5, <2>1 DEF Replays, NewReplay, NoProposal, ManifestOk
<1>7. Disposed(NewReplay, NewLedger)
  <2>1. Range(<<>>) = {} /\ 1..0 = {} /\ Cardinality({}) = 0
    BY FS_EmptySet DEF Range
  <2> QED BY <2>1 DEF Disposed, NewReplay, NewLedger
<1>8. ReplayOk(NewReplay, NewLedger, sv)
  BY <1>4, <1>5, <1>6, <1>7 DEF ReplayOk, NewReplay, NewLedger, NoManifest
<1>9. NewClient \in Clients
  BY <1>2, <1>5 DEF Clients, NewClient, ManifestOk
<1>10. ClientOk(NewClient, NewReplay, sv)
  BY <1>5 DEF ClientOk, NewClient, NewReplay, NoManifest, Regressed
<1>11. NoFetch \in Fetches
  BY DEF NoFetch, Fetches
<1> QED BY <1>8, <1>9, <1>10, <1>11 DEF IndexOk, NoIndex

LEMMA Restorable ==
    ASSUME ServerOk(server), DiskOk(disk, server), disk.opened
    PROVE  ~RestoreRefused(disk)
<1>1. PICK r: r = disk.replay
  OBVIOUS
<1>2. ReplayOk(r, disk.ledger, server) /\ disk.cursor = r.cursor /\ IndexExact(disk.index, r)
  BY <1>1 DEF DiskOk
<1>3. KeptOk(r.chunks, r.cursor, server.chunks) /\ r.cursor <= r.manifest.resolved
      /\ (r.last # NoProposal => r.last.next = r.cursor /\ Coherent(r.last))
  BY <1>2 DEF ReplayOk
<1>4. PICK c \in Nat: c = r.cursor
  BY <1>2, ReplayFields
<1>5. PICK m \in Nat: m = r.manifest.resolved
  BY <1>2, ReplayFields, IntakeAssumption DEF Manifests
<1>6. PICK l \in Nat: l = Len(server.chunks)
  BY ServerIs
<1>7. PICK ns \in Seq(1..l): ns = r.chunks
  BY <1>3, <1>6 DEF KeptOk
<1>8. /\ Increasing(ns) /\ (\A i \in 1..Len(ns): ns[i] <= c)
      /\ CostOf(server.chunks, ns) <= ReplayBytes /\ Len(ns) <= ReplayChunks
  BY <1>3, <1>4, <1>7 DEF KeptOk
<1>9. ~(r.cursor > r.manifest.resolved) /\ ~(Len(r.chunks) > ReplayChunks)
  <2>1. Len(ns) \in Nat /\ ReplayChunks \in Nat /\ c <= m
    BY <1>3, <1>4, <1>5, IntakeAssumption
  <2> QED BY <1>4, <1>5, <1>7, <1>8, <2>1
<1>10. ASSUME NEW k \in DOMAIN r.chunks
       PROVE  ~((IF k = 1 THEN 0 ELSE r.chunks[k - 1]) >= r.chunks[k] \/ r.chunks[k] > r.cursor)
  <2>1. PICK n \in Nat: n = Len(ns)
    OBVIOUS
  <2>2. k \in 1..n
    BY <1>7, <2>1
  <2>3. \A i \in 1..n: ns[i] \in 1..l
    BY <2>1
  <2>4. ns[k] \in 1..l /\ ns[k] <= c
    BY <1>8, <2>1, <2>2, <2>3
  <2>5. k # 1 => ns[k - 1] \in 1..l /\ ns[k - 1] < ns[k]
    <3>1. k # 1 => k - 1 \in 1..n /\ k - 1 < k
      BY <2>2
    <3> QED BY <1>8, <2>1, <2>2, <2>3, <3>1 DEF Increasing
  <2>6. ~((IF k = 1 THEN 0 ELSE ns[k - 1]) >= ns[k])
    <3>1. CASE k = 1
      BY <2>4, <3>1
    <3>2. CASE k # 1
      BY <2>4, <2>5, <3>2
    <3> QED BY <3>1, <3>2
  <2> QED BY <1>4, <1>7, <2>4, <2>6
<1>11. ~(Cost(r.chunks) > ReplayBytes)
  <2>1. Cost(r.chunks) = CostOf(server.chunks, ns)
    BY <1>7, CostHere
  <2>2. PICK w \in Seq(Nat): w = server.chunks
    BY ServerIs, Sized
  <2>3. PICK f: Sums(f, w, ns)
    BY <1>6, <2>2, SumsExist
  <2>4. CostOf(w, ns) = f[Len(ns)]
    BY <2>3, CostIs
  <2>5. f[Len(ns)] \in Nat
    <3>1. Len(ns) \in 0..Len(ns)
      OBVIOUS
    <3> QED BY <2>3, <3>1 DEF Sums
  <2>6. ReplayBytes \in Nat
    BY IntakeAssumption
  <2> QED BY <1>8, <2>1, <2>2, <2>4, <2>5, <2>6
<1>12. /\ ~(r.last # NoProposal /\ (r.last.next # r.cursor \/ ~Coherent(r.last)))
       /\ ~(disk.cursor # r.cursor)
       /\ ~(disk.index.cursor # r.cursor \/ disk.index.chunks # r.chunks)
  BY <1>2, <1>3 DEF IndexExact
<1> QED BY <1>1, <1>9, <1>10, <1>11, <1>12, Zenon DEF RestoreRefused

LEMMA ResumeIInv ==
    ASSUME IInv, Resume
    PROVE  IInv'
<1>1. pc = "off" /\ runs < MaxRuns /\ runs' = runs + 1 /\ fetch' = NoFetch
      /\ UNCHANGED <<server, disk, faults, leaked>>
  BY DEF Resume
<1>2. ServerOk(server) /\ DiskOk(disk, server) /\ disk.opened \in BOOLEAN
  BY DEF IInv
<1>3. NoFetch \in Fetches
  BY <1>2, NewIs
<1>4. runs' \in 1..MaxRuns
  BY <1>1, IntakeAssumption DEF IInv, ControlInv
<1>5. CASE ~disk.opened
  <2>1. client' = NewClient /\ replay' = NewReplay /\ ledger' = NewLedger
        /\ sampler' = NoIndex /\ pc' = "idle" /\ fault' = fault
    BY <1>5 DEF Resume
  <2>2. FetchInv' /\ LeaseInv' /\ ControlInv'
    BY <1>1, <1>3, <1>4, <2>1 DEF IInv, FetchInv, LeaseInv, ControlInv
  <2>3. ReplayOk(replay, ledger, server)' /\ (client \in Clients)'
        /\ ClientOk(client, replay, server)' /\ IndexOk(sampler, replay)'
    BY <1>1, <1>2, <2>1, NewIs
  <2>4. ServerOk(server)' /\ DiskOk(disk, server)' /\ (disk.opened \in BOOLEAN)'
    BY <1>1, <1>2
  <2> QED BY <2>2, <2>3, <2>4 DEF IInv
<1>6. CASE disk.opened
  <2>1. ~RestoreRefused(disk)
    BY <1>2, <1>6, Restorable
  <2>2. client' = [cursor |-> disk.cursor, manifest |-> disk.replay.manifest,
                   policy |-> disk.policy]
        /\ replay' = disk.replay /\ ledger' = disk.ledger
        /\ sampler' = disk.index /\ pc' = "idle" /\ fault' = fault
    BY <1>6, <2>1 DEF Resume
  <2>3. ReplayOk(disk.replay, disk.ledger, server) /\ disk.cursor = disk.replay.cursor
        /\ disk.policy \in Policies \cup {Unobserved} /\ IndexExact(disk.index, disk.replay)
    BY <1>2, <1>6 DEF DiskOk
  <2>4. IndexOk(disk.index, disk.replay)
    BY <2>3, ExactIsOk
  <2>5. disk.replay.cursor \in 0..MaxSeq /\ disk.replay.manifest \in Manifests
    BY <2>3, ReplayFields
  <2>6. client' \in Clients /\ client'.cursor = disk.replay.cursor
        /\ client'.manifest = disk.replay.manifest
    BY <2>2, <2>3, <2>5 DEF Clients
  <2>7. ManifestOk(disk.replay.manifest, server) /\ disk.replay.cursor <= disk.replay.manifest.resolved
    BY <2>3 DEF ReplayOk
  <2>8. ~Regressed(disk.replay.manifest, disk.replay.manifest)
    BY <2>5, IntakeAssumption DEF Regressed, Manifests
  <2>9. ClientOk(client', disk.replay, server)
    BY <2>6, <2>7, <2>8 DEF ClientOk
  <2>10. ReplayOk(replay, ledger, server)' /\ (client \in Clients)'
         /\ ClientOk(client, replay, server)' /\ IndexOk(sampler, replay)'
    BY <1>1, <2>2, <2>3, <2>4, <2>6, <2>9
  <2>11. FetchInv' /\ LeaseInv' /\ ControlInv'
    BY <1>1, <1>3, <1>4, <2>2 DEF IInv, FetchInv, LeaseInv, ControlInv
  <2>12. ServerOk(server)' /\ DiskOk(disk, server)' /\ (disk.opened \in BOOLEAN)'
    BY <1>1, <1>2
  <2> QED BY <2>10, <2>11, <2>12 DEF IInv
<1> QED BY <1>2, <1>5, <1>6

-----------------------------------------------------------------------------
(* The ingestion of a proposal.                                            *)

Proposes(p, sv, c, top) ==
    /\ p \in Proposals /\ p.start = c /\ p.next \in Nat /\ c <= p.next /\ p.next <= top
    /\ Coherent(p) /\ p.chunks \in Seq(1..Len(sv.chunks)) /\ Increasing(p.chunks)
    /\ \A i \in 1..Len(p.chunks): c < p.chunks[i] /\ p.chunks[i] <= p.next
    /\ EndOf(p.chunks, c) <= p.next
    /\ \A n: n \in Unavailable(p) <=> n \in (c + 1)..p.next /\ ~(n \in Range(p.chunks))
    /\ Unavailable(p) \subseteq sv.lost

LEMMA GapsTyped ==
    ASSUME NEW c, NEW ns, NEW e, NEW top, NEW tail, Outcome(c, ns, e, top, tail),
           top \in 0..MaxSeq, NEW gaps, GapsAre(gaps, c, ns, e, top, tail)
    PROVE  gaps \subseteq ChunkNumbers \X ChunkNumbers
<1>1. MaxSeq \in Nat /\ e \in Nat /\ e <= top /\ (tail => top > e) /\ top \in Nat
  BY IntakeAssumption, OutcomeIs DEF Outcome
<1>2. ASSUME NEW g, NEW k \in 1..Len(ns), Between(g, c, ns, k)
      PROVE  g \in ChunkNumbers \X ChunkNumbers
  <2>1. PICK a \in Nat: a = Edge(c, ns, k)
    BY OutcomeIs
  <2>2. PICK b \in Nat: b = ns[k] /\ b <= e
    BY OutcomeIs
  <2>3. b > a + 1 /\ g = <<a + 1, b - 1>>
    BY <1>2, <2>1, <2>2 DEF Between
  <2>4. a + 1 \in 1..MaxSeq /\ b - 1 \in 1..MaxSeq
    BY <1>1, <2>2, <2>3
  <2> QED BY <2>3, <2>4 DEF ChunkNumbers
<1>3. ASSUME tail, NEW g, g = <<e + 1, top>>
      PROVE  g \in ChunkNumbers \X ChunkNumbers
  <2>1. e + 1 \in 1..MaxSeq /\ top \in 1..MaxSeq
    BY <1>1, <1>3
  <2> QED BY <1>3, <2>1 DEF ChunkNumbers
<1> QED BY <1>2, <1>3, Zenon DEF GapsAre

LEMMA ProposalProposes ==
    ASSUME ServerOk(server), fetch \in Fetches, client \in Clients,
           client.cursor <= client.manifest.resolved, ManifestOk(client.manifest, server),
           FetchOk(fetch, client, server)
    PROVE  Proposes(Proposal, server, client.cursor, client.manifest.resolved)
<1>1. PICK c \in 0..MaxSeq: c = client.cursor
  BY DEF Clients
<1>2. PICK top \in 0..MaxSeq: top = client.manifest.resolved
  BY DEF Clients, Manifests
<1>3. PICK ns \in Seq(ChunkNumbers): ns = fetch.admitted
  BY DEF Fetches
<1>4. PICK e: e = Reached(c)
  OBVIOUS
<1>5. PICK tail: tail = TailNow
  OBVIOUS
<1>6. PICK p: p = Proposal
  OBVIOUS
<1>7. Outcome(c, ns, e, top, tail) /\ Proposed(p, c, ns, e, top, tail)
  BY <1>1, <1>2, <1>3, <1>4, <1>5, <1>6, ProposalIs
<1>8. MaxSeq \in Nat /\ c \in Nat /\ top \in Nat /\ e \in Nat /\ c <= e /\ e <= top
      /\ e = EndOf(ns, c)
  BY <1>7, IntakeAssumption, OutcomeIs DEF Outcome
<1>9. tail \in BOOLEAN /\ (tail => top > e)
  BY <1>7 DEF Outcome
<1>10. p.start = c /\ p.chunks = ns /\ p.next = (IF tail THEN top ELSE e)
       /\ GapsAre(p.gaps, c, ns, e, top, tail)
  BY <1>7 DEF Proposed
<1>11. p.next \in Nat /\ e <= p.next /\ p.next <= top
  BY <1>8, <1>9, <1>10
<1>12. p \in Proposals
  <2>1. PICK next \in 0..MaxSeq: next = p.next
    BY <1>2, <1>8, <1>11
  <2>2. PICK gaps \in SUBSET (ChunkNumbers \X ChunkNumbers): gaps = p.gaps
    BY <1>7, <1>10, GapsTyped
  <2>3. p = [start |-> p.start, next |-> p.next, chunks |-> p.chunks, gaps |-> p.gaps]
    BY <1>6 DEF Proposal
  <2>4. p = [start |-> c, next |-> next, chunks |-> ns, gaps |-> gaps]
    BY <1>10, <2>1, <2>2, <2>3
  <2> QED BY <2>4 DEF Proposals
<1>13. Coherent(p)
  BY <1>7, ProposedCoherent
<1>14. \A i \in 1..Len(ns): c < ns[i] /\ ns[i] <= p.next
  <2>1. \A i \in 1..Len(ns): c < ns[i] /\ ns[i] \in Nat /\ ns[i] <= e
    BY <1>7, OutcomeIs DEF Outcome
  <2> QED BY <1>8, <1>11, <2>1
<1>15. ns \in Seq(1..Len(server.chunks))
  <2>1. PICK l \in Nat: l = Len(server.chunks)
    BY ServerIs
  <2>2. top <= l
    <3>1. top <= client.manifest.production /\ client.manifest.production <= l
          /\ client.manifest.production \in Nat
      BY <1>2, <1>8, <2>1 DEF ManifestOk, Clients, Manifests
    <3> QED BY <1>8, <3>1
  <2>3. \A i \in 1..Len(ns): ns[i] \in 1..l
    <3>1. \A i \in 1..Len(ns): ns[i] \in Nat /\ ns[i] <= e
      BY <1>7, OutcomeIs
    <3> QED BY <1>8, <1>14, <2>2, <3>1
  <2>4. ns \in [1..Len(ns) -> ChunkNumbers] /\ Len(ns) \in Nat
    OBVIOUS
  <2>5. ns \in [1..Len(ns) -> 1..l]
    BY <2>3, <2>4
  <2> QED BY <2>1, <2>4, <2>5
<1>16. \A n: n \in Unavailable(p) <=> n \in (c + 1)..p.next /\ ~(n \in Range(ns))
  BY <1>7, UnavailableIs
<1>17. ASSUME NEW n \in Unavailable(p) PROVE n \in server.lost
  <2>1. n \in Nat /\ c < n /\ n <= p.next /\ ~(n \in Range(ns))
    BY <1>8, <1>11, <1>16
  <2>2. e = ReachOf(fetch, client)
    BY <1>1, <1>3, <1>8, Zenon DEF ReachOf, EndOf
  <2>3. (\A m \in (c + 1)..e: m \in Range(ns) \/ m \in server.lost)
        /\ (fetch.tail => (e + 1)..top \subseteq server.lost)
    BY <1>1, <1>2, <1>3, <2>2 DEF FetchOk
  <2>4. CASE n <= e
    BY <1>8, <2>1, <2>3, <2>4
  <2>5. CASE ~(n <= e)
    <3>1. tail
      BY <1>10, <2>1, <2>5
    <3>2. fetch.tail /\ p.next = top
      BY <1>5, <1>10, <3>1 DEF TailNow
    <3>3. n \in (e + 1)..top
      BY <1>8, <2>1, <2>5, <3>2
    <3> QED BY <2>3, <3>2, <3>3
  <2> QED BY <2>4, <2>5
<1>18. c <= p.next /\ EndOf(p.chunks, c) <= p.next /\ Increasing(p.chunks)
  BY <1>7, <1>8, <1>10, <1>11 DEF Outcome
<1>19. Proposes(p, server, c, top)
  BY <1>10, <1>11, <1>12, <1>13, <1>14, <1>15, <1>16, <1>17, <1>18 DEF Proposes
<1> QED BY <1>1, <1>2, <1>6, <1>19

(* What the replay owns afterwards.                                        *)
Dropping(r, p, kept) == (Range(r.chunks) \cup Range(p.chunks)) \ Range(kept)
Accounts(r, p, kept, led) ==
    [evicted |-> led.evicted \cup Dropping(r, p, kept), gone |-> led.gone \cup Unavailable(p)]

LEMMA DisposesOnce ==
    ASSUME NEW sv, NEW r, NEW led, ReplayOk(r, led, sv),
           NEW p, NEW top, Proposes(p, sv, r.cursor, top),
           NEW kept, \A x: x \in Range(kept) => x \in Range(r.chunks) \/ x \in Range(p.chunks),
           NEW s, s.chunks = kept, s.cursor = p.next,
           s.evicted = r.evicted + Cardinality(Dropping(r, p, kept))
    PROVE  Disposed(s, Accounts(r, p, kept, led)) /\ Cardinality(Dropping(r, p, kept)) \in Nat
<1>1. PICK c \in Nat: c = r.cursor
  BY ReplayFields
<1>2. PICK K: K = Range(r.chunks)
  OBVIOUS
<1>3. PICK E: E = led.evicted
  OBVIOUS
<1>4. PICK G: G = led.gone
  OBVIOUS
<1>5. /\ K \cup E \cup G = 1..c /\ K \cap E = {} /\ K \cap G = {} /\ E \cap G = {}
      /\ r.evicted = Cardinality(E)
  BY <1>1, <1>2, <1>3, <1>4 DEF ReplayOk, Disposed
<1>6. PICK P: P = Range(p.chunks)
  OBVIOUS
<1>7. PICK U: U = Unavailable(p)
  OBVIOUS
<1>8. PICK next \in Nat: next = p.next /\ c <= next
  BY <1>1 DEF Proposes
<1>9. \A n: n \in U <=> n \in (c + 1)..next /\ ~(n \in P)
  BY <1>1, <1>6, <1>7, <1>8 DEF Proposes
<1>10. \A n \in P: n \in (c + 1)..next
  <2>1. p.chunks \in Seq(1..Len(sv.chunks))
        /\ \A i \in 1..Len(p.chunks): c < p.chunks[i] /\ p.chunks[i] <= next
    BY <1>1, <1>8 DEF Proposes
  <2>2. ASSUME NEW n \in P PROVE n \in (c + 1)..next
    <3>1. PICK i \in 1..Len(p.chunks): n = p.chunks[i]
      BY <1>6, <2>1, RangeIs
    <3>2. n \in 1..Len(sv.chunks)
      BY <2>1, <3>1
    <3>3. n \in Int /\ c < n /\ n <= next
      BY <2>1, <3>1, <3>2
    <3> QED BY <1>1, <1>8, <3>3
  <2> QED BY <2>2
<1>11. P \cup U = (c + 1)..next /\ P \cap U = {}
  BY <1>9, <1>10
<1>12. 1..next = (1..c) \cup ((c + 1)..next) /\ (1..c) \cap ((c + 1)..next) = {}
  BY <1>1, <1>8
<1>13. PICK N: N = Range(kept)
  OBVIOUS
<1>14. N \subseteq K \cup P
  BY <1>2, <1>6, <1>13
<1>15. PICK D: D = (K \cup P) \ N
  OBVIOUS
<1>16. D = Dropping(r, p, kept)
  BY <1>2, <1>6, <1>13, <1>15 DEF Dropping
<1>17. N \cup (E \cup D) \cup (G \cup U) = 1..next
  BY <1>5, <1>11, <1>12, <1>14, <1>15
<1>18. N \cap (E \cup D) = {} /\ N \cap (G \cup U) = {} /\ (E \cup D) \cap (G \cup U) = {}
       /\ E \cap D = {}
  BY <1>5, <1>11, <1>12, <1>14, <1>15
<1>19. IsFiniteSet(E) /\ IsFiniteSet(D)
  <2>1. IsFiniteSet(1..next)
    BY FS_Interval
  <2>2. E \subseteq 1..next /\ D \subseteq 1..next
    BY <1>17
  <2> QED BY <2>1, <2>2, FS_Subset
<1>20. Cardinality(E \cup D) = Cardinality(E) + Cardinality(D) /\ Cardinality(D) \in Nat
  <2>1. Cardinality(E \cup D) = Cardinality(E) + Cardinality(D) - Cardinality(E \cap D)
    BY <1>19, FS_Union
  <2>2. Cardinality(E) \in Nat /\ Cardinality(D) \in Nat
    BY <1>19, FS_CardinalityType
  <2>3. Cardinality(E \cap D) = 0
    BY <1>18, FS_EmptySet
  <2> QED BY <2>1, <2>2, <2>3
<1>21. PICK a: a = Accounts(r, p, kept, led)
  OBVIOUS
<1>22. a.evicted = E \cup D /\ a.gone = G \cup U
  BY <1>3, <1>4, <1>7, <1>16, <1>21 DEF Accounts
<1>23. s.evicted = Cardinality(E) + Cardinality(D)
  BY <1>5, <1>16
<1>24. Disposed(s, a)
  BY <1>8, <1>13, <1>17, <1>18, <1>20, <1>22, <1>23 DEF Disposed
<1> QED BY <1>16, <1>20, <1>21, <1>24

(* Nothing new at the end of a proposal that ends where it starts.         *)
LEMMA EmptyPlan ==
    ASSUME NEW ns
    PROVE  Planned(ns, <<>>) = ns
<1>1. PICK f: f = [k \in 0..0 |-> IF k = 0 THEN ns ELSE AdmitOne(<<>>[k], ns)]
  OBVIOUS
<1>2. 0 \in 0..0 /\ \A k \in 0..0: k = 0
  OBVIOUS
<1>3. f = [k \in 0..0 |-> IF k = 0 THEN ns ELSE AdmitOne(<<>>[k], f[k - 1])]
  <2>1. \A k \in 0..0: (IF k = 0 THEN ns ELSE AdmitOne(<<>>[k], ns))
                       = IF k = 0 THEN ns ELSE AdmitOne(<<>>[k], f[k - 1])
    BY <1>2, Zenon
  <2> QED BY <1>1, <2>1, Zenon
<1>4. PICK s: s = CHOOSE plan: plan = [k \in 0..0 |-> IF k = 0 THEN ns
                                                      ELSE AdmitOne(<<>>[k], plan[k - 1])]
  OBVIOUS
<1>5. s = [k \in 0..0 |-> IF k = 0 THEN ns ELSE AdmitOne(<<>>[k], s[k - 1])]
  <2>1. \E plan: plan = [k \in 0..0 |-> IF k = 0 THEN ns ELSE AdmitOne(<<>>[k], plan[k - 1])]
    BY <1>3, Zenon
  <2> QED BY <1>4, <2>1, Zenon
<1>6. s[0] = ns
  BY <1>2, <1>5, Zenon
<1>7. Len(<<>>) = 0
  OBVIOUS
<1> QED BY <1>4, <1>6, <1>7, Zenon DEF Planned

Owned(s, r, p, m, led, sv) ==
    /\ ReplayOk(s, Accounts(r, p, s.chunks, led), sv)
    /\ s.cursor = p.next /\ s.manifest = m /\ s.last = p
    /\ p.next = r.cursor => Signature(s) = Signature(r) /\ s.chunks = r.chunks

LEMMA OwningKeeps ==
    ASSUME ServerOk(server), NEW r, NEW led, ReplayOk(r, led, server),
           NEW m, ManifestOk(m, server), NEW p, Proposes(p, server, r.cursor, m.resolved)
    PROVE  Owned(Owning(r, p, m), r, p, m, led, server)
<1>1. PICK w \in Seq(Sizes): w = server.chunks
  BY ServerIs
<1>2. PICK c \in Nat: c = r.cursor
  BY ReplayFields
<1>3. PICK next \in Nat: next = p.next /\ c <= next
  BY <1>2 DEF Proposes
<1>4. PICK ns \in Seq(1..Len(w)): ns = r.chunks /\ KeptOk(ns, c, w)
  BY <1>1, <1>2 DEF ReplayOk, KeptOk
<1>5. PICK new \in Seq(1..Len(w)): new = p.chunks
  BY <1>1 DEF Proposes
<1>6. Increasing(new) /\ (\A i \in 1..Len(new): c < new[i] /\ new[i] <= next)
      /\ EndOf(new, c) <= next
  BY <1>2, <1>3, <1>5 DEF Proposes
<1>7. Plannable(ns, new, c, w)
  BY <1>4, <1>6 DEF Plannable
<1>8. PICK kept: kept = Planned(ns, new)
  OBVIOUS
<1>9. PlanOk(kept, ns, new, c, w)
  BY <1>1, <1>7, <1>8, PlannedKeeps
<1>10. KeptOk(kept, EndOf(new, c), w) /\ \A x: x \in Range(kept) => x \in Range(ns) \/ x \in Range(new)
  BY <1>9 DEF PlanOk
<1>11. kept \in Seq(1..Len(w)) /\ KeptOk(kept, next, w)
  <2>1. EndOf(new, c) \in Nat
    BY <1>5 DEF EndOf
  <2>2. kept \in Seq(1..Len(w)) /\ Increasing(kept) /\ (\A i \in 1..Len(kept): kept[i] <= EndOf(new, c))
        /\ CostOf(w, kept) <= ReplayBytes /\ Len(kept) <= ReplayChunks
    BY <1>10 DEF KeptOk
  <2>3. \A i \in 1..Len(kept): kept[i] <= next
    <3>1. \A i \in 1..Len(kept): kept[i] \in Nat
      BY <2>2
    <3> QED BY <1>6, <2>1, <2>2, <3>1
  <2> QED BY <2>2, <2>3 DEF KeptOk
<1>12. PICK n: n = Cardinality(Dropping(r, p, kept))
  OBVIOUS
<1>13. r \in Replays /\ r.evicted \in Nat
  BY ReplayFields
<1>14. PICK v: v = r.evicted + n
  OBVIOUS
<1>15. PICK s: s = [r EXCEPT !.opened = TRUE, !.cursor = next, !.manifest = m, !.chunks = kept,
                             !.evicted = v, !.last = p]
  OBVIOUS
<1>16. Owning(r, p, m) = s
  BY <1>3, <1>4, <1>5, <1>8, <1>12, <1>14, <1>15 DEF Owning, Dropping
<1>17. s.opened = TRUE /\ s.cursor = next /\ s.manifest = m /\ s.chunks = kept
       /\ s.evicted = v /\ s.last = p
  BY <1>13, <1>15 DEF Replays
<1>18. Disposed(s, Accounts(r, p, kept, led)) /\ n \in Nat
  BY <1>3, <1>4, <1>5, <1>10, <1>12, <1>14, <1>17, DisposesOnce
<1>19. s \in Replays
  <2>1. p \in Proposals /\ m \in Manifests
    BY DEF Proposes, ManifestOk
  <2>2. next <= m.resolved /\ m.resolved \in 0..MaxSeq
    BY <1>3, <2>1 DEF Proposes, Manifests
  <2>3. next \in 0..MaxSeq /\ v \in Nat
    BY <1>13, <1>14, <1>18, <2>2, IntakeAssumption
  <2>4. kept \in Seq(ChunkNumbers)
    <3>1. Len(w) \in Nat /\ Len(w) <= MaxSeq /\ MaxSeq \in Nat
      BY <1>1, ServerIs, IntakeAssumption
    <3>2. 1..Len(w) \subseteq ChunkNumbers
      BY <3>1 DEF ChunkNumbers
    <3>3. kept \in [1..Len(kept) -> 1..Len(w)] /\ Len(kept) \in Nat
      BY <1>11
    <3>4. kept \in [1..Len(kept) -> ChunkNumbers]
      BY <3>2, <3>3
    <3> QED BY <3>3, <3>4
  <2> QED BY <1>13, <1>15, <2>1, <2>3, <2>4 DEF Replays
<1>20. Accounts(r, p, kept, led).gone \subseteq server.lost
  <2>1. led.gone \subseteq server.lost /\ Unavailable(p) \subseteq server.lost
    BY DEF ReplayOk, Proposes
  <2> QED BY <2>1 DEF Accounts
<1>21. s.last # NoProposal => s.last.next = s.cursor /\ Coherent(s.last)
  BY <1>3, <1>17 DEF Proposes
<1>22. next <= m.resolved
  BY <1>3 DEF Proposes
<1>23. ReplayOk(s, Accounts(r, p, s.chunks, led), server)
  BY <1>1, <1>11, <1>17, <1>18, <1>19, <1>20, <1>21, <1>22 DEF ReplayOk
<1>24. ASSUME next = c PROVE Signature(s) = Signature(r) /\ s.chunks = r.chunks
  <2>1. new = <<>>
    <3>1. ASSUME Len(new) # 0 PROVE FALSE
      <4>1. 1 \in 1..Len(new) /\ new[1] \in Nat
        BY <3>1
      <4> QED BY <1>6, <1>24, <4>1
    <3> QED BY <3>1, EmptySeq
  <2>2. kept = ns
    BY <1>8, <2>1, EmptyPlan
  <2>3. Dropping(r, p, kept) = {}
    <3>1. Range(p.chunks) = {}
      BY <1>5, <2>1 DEF Range
    <3> QED BY <1>4, <2>2, <3>1 DEF Dropping
  <2>4. n = 0
    BY <1>12, <2>3, FS_EmptySet
  <2>5. v = r.evicted
    BY <1>13, <1>14, <2>4
  <2> QED BY <1>2, <1>4, <1>17, <1>24, <2>2, <2>5 DEF Signature
<1>25. Owned(s, r, p, m, led, server)
  BY <1>2, <1>3, <1>17, <1>23, <1>24 DEF Owned
<1> QED BY <1>16, <1>25

(* The index knows that the replay moved on.                               *)
LEMMA IndexMoves ==
    ASSUME NEW r, NEW led, NEW s, NEW led2, NEW sv, ReplayOk(r, led, sv), ReplayOk(s, led2, sv),
           NEW x, IndexOk(x, r), r.cursor <= s.cursor,
           s.cursor = r.cursor => Signature(s) = Signature(r) /\ s.chunks = r.chunks
    PROVE  IndexOk(x, s)
<1>1. PICK c \in Nat: c = r.cursor
  BY ReplayFields
<1>2. PICK d \in Nat: d = s.cursor /\ c <= d
  BY <1>1, ReplayFields
<1>3. ASSUME x.signature # <<>>
      PROVE  /\ x.cursor \in Nat /\ x.cursor <= d
             /\ \E e, l \in Nat: x.signature = <<x.cursor, e, l>>
             /\ x.signature = Signature(s) => x.chunks = s.chunks
  <2>1. PICK b \in Nat: b = x.cursor /\ b <= c
    BY <1>1, <1>3 DEF IndexOk
  <2>2. \E e, l \in Nat: x.signature = <<b, e, l>>
    BY <1>3, <2>1 DEF IndexOk
  <2>3. x.signature = Signature(r) => x.chunks = r.chunks
    BY <1>3 DEF IndexOk
  <2>4. ASSUME x.signature = Signature(s) PROVE x.chunks = s.chunks
    <3>1. b = d
      <4>1. Signature(s) = <<d, s.evicted, Len(s.chunks)>>
        BY <1>2 DEF Signature
      <4> QED BY <2>2, <2>4, <4>1
    <3>2. d = c
      BY <1>2, <2>1, <3>1
    <3> QED BY <1>1, <1>2, <2>3, <2>4, <3>2
  <2> QED BY <1>2, <2>1, <2>2, <2>4
<1> QED BY <1>2, <1>3 DEF IndexOk

LEMMA IngestIInv ==
    ASSUME IInv, Ingest
    PROVE  IInv'
<1>1. pc = "ingest" /\ fetch' = NoFetch /\ UNCHANGED <<server, sampler, runs, faults, leaked>>
  BY DEF Ingest
<1>2. ReplayOk(replay, ledger, server) /\ IndexOk(sampler, replay)
      /\ ClientOk(client, replay, server) /\ client \in Clients /\ ServerOk(server)
      /\ FetchOk(fetch, client, server) /\ fetch \in Fetches
  BY <1>1 DEF IInv, FetchInv
<1>3. PICK m: m = client.manifest
  OBVIOUS
<1>4. PICK c \in Nat: c = client.cursor /\ c = replay.cursor
  BY <1>2, ReplayFields DEF ClientOk
<1>5. ManifestOk(m, server) /\ c <= m.resolved /\ ~Regressed(replay.manifest, m)
      /\ m \in Manifests
  BY <1>2, <1>3, <1>4 DEF ClientOk, ManifestOk
<1>6. PICK p: p = Proposal
  OBVIOUS
<1>7. Proposes(p, server, c, m.resolved)
  BY <1>2, <1>3, <1>4, <1>5, <1>6, ProposalProposes
<1>8. PICK next \in Nat: next = p.next /\ c <= next /\ next <= m.resolved
  BY <1>7 DEF Proposes
<1>9. p.start = c /\ Coherent(p) /\ p \in Proposals
  BY <1>7 DEF Proposes
<1>10. ~AdmissionRefused(replay, p, m) /\ ~CommitRefused(p)
  <2>1. m.resolved \in Nat
    BY <1>5, IntakeAssumption DEF Manifests
  <2>2. ~AdmissionRefused(replay, p, m)
    BY <1>4, <1>5, <1>8, <1>9, <2>1 DEF AdmissionRefused
  <2>3. ~CommitRefused(p)
    BY <1>4, <1>8, <1>9 DEF CommitRefused
  <2> QED BY <2>2, <2>3
<1>11. PICK s: s = Admit(replay, p, m)
  OBVIOUS
<1>12. replay' = s /\ ledger' = LedgerAfter(replay, p, s)
       /\ client' = [client EXCEPT !.cursor = next] /\ pc' = "idle" /\ UNCHANGED <<disk, fault>>
  BY <1>3, <1>6, <1>8, <1>10, <1>11 DEF Ingest
<1>13. /\ ReplayOk(s, ledger', server) /\ s.cursor = next /\ s.manifest = m
       /\ next = c => Signature(s) = Signature(replay) /\ s.chunks = replay.chunks
  <2>1. CASE IsRetry(replay, p)
    <3>1. s = [replay EXCEPT !.manifest = m] /\ ledger' = ledger
      BY <1>11, <1>12, <2>1, Zenon DEF Admit, LedgerAfter
    <3>2. replay \in Replays
      BY <1>2, ReplayFields
    <3>3. /\ s \in Replays /\ s.opened = replay.opened /\ s.cursor = c /\ s.manifest = m
          /\ s.chunks = replay.chunks /\ s.evicted = replay.evicted /\ s.last = replay.last
      BY <1>4, <1>5, <3>1, <3>2 DEF Replays
    <3>4. p = replay.last
      BY <2>1 DEF IsRetry
    <3>5. replay.last # NoProposal
      <4>1. p = [start |-> p.start, next |-> p.next, chunks |-> p.chunks, gaps |-> p.gaps]
        BY <1>6 DEF Proposal
      <4>2. DOMAIN p = {"start", "next", "chunks", "gaps"}
        BY <4>1
      <4>3. DOMAIN NoProposal = {"next"}
        BY DEF NoProposal
      <4>4. "start" \in DOMAIN p /\ ~("start" \in DOMAIN NoProposal)
        BY <4>2, <4>3
      <4> QED BY <3>4, <4>4
    <3>6. replay.opened
      <4>1. ~replay.opened => replay.last = NoProposal
        BY <1>2 DEF ReplayOk, NewReplay
      <4> QED BY <3>5, <4>1
    <3>7. next = c
      BY <1>2, <1>4, <1>8, <3>4, <3>5 DEF ReplayOk
    <3>8. Disposed(s, ledger)
      BY <1>2, <1>4, <3>3 DEF ReplayOk, Disposed
    <3>9. /\ KeptOk(replay.chunks, c, server.chunks) /\ ledger.gone \subseteq server.lost
          /\ replay.last.next = c /\ Coherent(replay.last)
      BY <1>2, <1>4, <3>5 DEF ReplayOk
    <3>10. ReplayOk(s, ledger, server)
      BY <1>5, <3>3, <3>6, <3>8, <3>9 DEF ReplayOk
    <3>11. Signature(s) = Signature(replay)
      BY <1>4, <3>3 DEF Signature
    <3> QED BY <3>1, <3>3, <3>7, <3>10, <3>11
  <2>2. CASE ~IsRetry(replay, p)
    <3>1. s = Owning(replay, p, m)
      BY <1>11, <2>2, Zenon DEF Admit
    <3>2. Owned(s, replay, p, m, ledger, server)
      BY <1>2, <1>4, <1>5, <1>7, <3>1, OwningKeeps
    <3>3. s.last = p
      BY <3>2 DEF Owned
    <3>4. ledger' = Accounts(replay, p, s.chunks, ledger)
      BY <1>12, <2>2, <3>3 DEF LedgerAfter, Dropped, Accounts, Dropping
    <3> QED BY <1>4, <1>8, <3>2, <3>4 DEF Owned
  <2> QED BY <2>1, <2>2
<1>14. IndexOk(sampler, s)
  BY <1>2, <1>4, <1>8, <1>13, IndexMoves
<1>15. client' \in Clients /\ client'.cursor = next /\ client'.manifest = m
  <2>1. next \in 0..MaxSeq
    <3>1. m.resolved \in 0..MaxSeq
      BY <1>5 DEF Manifests
    <3> QED BY <1>8, <3>1, IntakeAssumption
  <2> QED BY <1>2, <1>3, <1>12, <2>1 DEF Clients
<1>16. ClientOk(client', s, server)
  <2>1. ~Regressed(m, m)
    BY <1>5, IntakeAssumption DEF Regressed, Manifests
  <2> QED BY <1>5, <1>8, <1>13, <1>15, <2>1 DEF ClientOk
<1>17. FetchInv' /\ LeaseInv' /\ ControlInv'
  <2>1. NoFetch \in Fetches
    BY <1>2, NewIs
  <2> QED BY <1>1, <1>12, <2>1 DEF IInv, FetchInv, LeaseInv, ControlInv
<1>18. ReplayOk(replay, ledger, server)' /\ (client \in Clients)'
       /\ ClientOk(client, replay, server)' /\ IndexOk(sampler, replay)'
  BY <1>1, <1>12, <1>13, <1>14, <1>15, <1>16
<1>19. ServerOk(server)' /\ DiskOk(disk, server)' /\ (disk.opened \in BOOLEAN)'
  BY <1>1, <1>2, <1>12 DEF IInv
<1> QED BY <1>17, <1>18, <1>19 DEF IInv

-----------------------------------------------------------------------------
(* The theorems.                                                           *)

LEMMA InitIInv ==
    ASSUME Init
    PROVE  IInv
<1>1. server = [chunks |-> <<>>, stored |-> {}, lost |-> {}, leases |-> {}, policy |-> "bounded"]
      /\ pc = "idle" /\ fetch = NoFetch /\ client = NewClient /\ replay = NewReplay
      /\ sampler = NoIndex /\ disk = NoSnapshot /\ runs = 1
      /\ ledger = NewLedger /\ leaked = FALSE /\ fault = FALSE
  BY DEF Init
<1>2. ServerOk(server)
  <2>1. <<>> \in Seq(Sizes) /\ Len(<<>>) = 0 /\ 0 <= MaxSeq
    BY IntakeAssumption
  <2>2. server \in Servers
    BY <1>1, <2>1 DEF Servers, Policies
  <2> QED BY <1>1, <2>1, <2>2 DEF ServerOk, Settled
<1>3. ReplayOk(replay, ledger, server) /\ client \in Clients
      /\ ClientOk(client, replay, server) /\ IndexOk(sampler, replay) /\ fetch \in Fetches
  BY <1>1, <1>2, NewIs
<1>4. DiskOk(disk, server) /\ disk.opened \in BOOLEAN
  BY <1>1 DEF DiskOk, NoSnapshot
<1>5. FetchInv /\ LeaseInv
  BY <1>1, <1>3 DEF FetchInv, LeaseInv
<1>6. ControlInv
  <2>1. 1 \in 1..MaxRuns
    BY IntakeAssumption
  <2> QED BY <1>1, <2>1 DEF ControlInv
<1> QED BY <1>2, <1>3, <1>4, <1>5, <1>6 DEF IInv

LEMMA NextIInv ==
    ASSUME IInv, [Next]_vars
    PROVE  IInv'
<1>1. CASE UNCHANGED vars
  <2>1. UNCHANGED <<server, pc, fetch, client, replay, sampler, disk, runs, ledger, leaked, fault>>
    BY <1>1 DEF vars
  <2> QED BY <2>1 DEF IInv, FetchInv, LeaseInv, ControlInv, Pinned
<1>2. CASE Produce
  BY <1>2, ProduceIInv
<1>3. CASE \E n \in Sealed: Settle(n)
  BY <1>3, SettleIInv
<1>4. CASE Retire
  BY <1>4, RetireIInv
<1>5. CASE LeaseExpires
  BY <1>5, LeaseExpiresIInv
<1>6. CASE PolicyChanges
  BY <1>6, PolicyChangesIInv
<1>7. CASE Save
  BY <1>7, SaveIInv
<1>8. CASE Sample
  BY <1>8, SampleIInv
<1>9. CASE FetchPolicy
  BY <1>9, FetchPolicyIInv
<1>10. CASE RequestFails
  BY <1>10, RequestFailsIInv
<1>11. CASE FetchPage
  BY <1>11, FetchPageIInv
<1>12. CASE Lease
  BY <1>12, LeaseIInv
<1>13. CASE Download
  BY <1>13, DownloadIInv
<1>14. CASE Release
  BY <1>14, ReleaseIInv
<1>15. CASE Ingest
  BY <1>15, IngestIInv
<1>16. CASE AdmitAgain
  BY <1>16, AdmitAgainIInv
<1>17. CASE Die
  BY <1>17, DieIInv
<1>18. CASE Resume
  BY <1>18, ResumeIInv
<1> QED BY <1>1, <1>2, <1>3, <1>4, <1>5, <1>6, <1>7, <1>8, <1>9, <1>10, <1>11, <1>12, <1>13,
          <1>14, <1>15, <1>16, <1>17, <1>18 DEF Next

-----------------------------------------------------------------------------
(* Histories of the streams.  Chunk n either is the first of its slot or    *)
(* follows the last one before it.                                         *)

Starts == {"captureStart", "continuation", "generationStart", "gap", "physicalLifeStart"}
Ends == {"sealed", "lifeEnded"}
ChunkRecords == [slot: Slots, generation: Nat, life: Nat, first: Nat, start: Starts,
                 last: Nat, end: Ends]
Earlier(h, n) == {m \in 1..(n - 1): h[m].slot = h[n].slot}
Follow(c, p, t) ==
    /\ c.generation = NextChunk(p, t).generation /\ c.life = NextChunk(p, t).life
    /\ c.first = NextChunk(p, t).first /\ c.start = NextChunk(p, t).start
ChunkOk(h, n) ==
    /\ h[n].first <= h[n].last
    /\ IF Earlier(h, n) = {} THEN h[n].start = "captureStart"
       ELSE \E t \in Transitions: Follow(h[n], h[Max(Earlier(h, n))], t)
Chronicle(h) == h \in Seq(ChunkRecords) /\ \A n \in 1..Len(h): ChunkOk(h, n)

LEMMA ChunkFields ==
    ASSUME NEW c \in ChunkRecords
    PROVE  /\ c.slot \in Slots /\ c.generation \in Nat /\ c.life \in Nat /\ c.first \in Nat
           /\ c.start \in Starts /\ c.last \in Nat /\ c.end \in Ends
BY DEF ChunkRecords

LEMMA NextTyped ==
    ASSUME NEW p \in ChunkRecords, NEW t \in Transitions
    PROVE  LET q == NextChunk(p, t)
           IN /\ q.slot = p.slot /\ q.generation \in Nat /\ q.life \in Nat
              /\ q.first \in Nat /\ q.start \in Starts
<1>1. p.generation \in Nat /\ p.life \in Nat /\ p.last \in Nat
  BY ChunkFields
<1>2. t \in {"continuation", "generationStart", "gap", "lifeAfterGap"}
  BY WindowsAssumption
<1>3. PICK g \in Nat: g = IF t = "generationStart" THEN p.generation + 1 ELSE p.generation
  BY <1>1
<1>4. PICK l \in Nat: l = IF p.end = "lifeEnded" \/ t \in {"generationStart", "lifeAfterGap"}
                          THEN p.life + 1 ELSE p.life
  BY <1>1
<1>5. PICK f \in Nat: f = IF t \in {"gap", "lifeAfterGap"} THEN p.last + 2 ELSE p.last + 1
  BY <1>1
<1>6. PICK s: s = CASE t = "lifeAfterGap" -> "physicalLifeStart"
                    [] t = "continuation" /\ p.end = "lifeEnded" -> "physicalLifeStart"
                    [] OTHER -> t
  OBVIOUS
<1>7. s \in Starts
  BY <1>2, <1>6 DEF Starts
<1>8. NextChunk(p, t) = [slot |-> p.slot, generation |-> g, life |-> l, first |-> f, start |-> s]
  BY <1>3, <1>4, <1>5, <1>6, Zenon DEF NextChunk
<1> QED BY <1>7, <1>8

LEMMA ChunkAppended ==
    ASSUME NEW h, Chronicle(h), NEW c \in Chunks(h)
    PROVE  Chronicle(Append(h, c)) /\ Len(Append(h, c)) = Len(h) + 1
<1>1. PICK n \in Nat: n = Len(h)
  BY DEF Chronicle
<1>2. h \in Seq(ChunkRecords) /\ DOMAIN h = 1..n /\ \A k \in 1..n: h[k] \in ChunkRecords
  BY <1>1 DEF Chronicle
<1>3. \E slot \in Slots: \E b \in Heads(h, slot): \E r \in Rows: \E e \in Ends:
        c = [slot |-> b.slot, generation |-> b.generation, life |-> b.life, first |-> b.first,
             start |-> b.start, last |-> b.first + r - 1, end |-> e]
  BY DEF Chunks, Ends
<1>20. PICK slot \in Slots: \E b \in Heads(h, slot): \E r \in Rows: \E e \in Ends:
        c = [slot |-> b.slot, generation |-> b.generation, life |-> b.life, first |-> b.first,
             start |-> b.start, last |-> b.first + r - 1, end |-> e]
  BY <1>3
<1>21. PICK b \in Heads(h, slot), r \in Rows, e \in Ends:
        c = [slot |-> b.slot, generation |-> b.generation, life |-> b.life, first |-> b.first,
             start |-> b.start, last |-> b.first + r - 1, end |-> e]
  BY <1>20
<1>4. PICK owned: owned = {m \in 1..n: h[m].slot = slot}
  OBVIOUS
<1>5. owned # {} => Max(owned) \in owned
  <2>1. owned \in SUBSET Nat /\ \A y \in owned: y <= n
    BY <1>4
  <2> QED BY <2>1, MaxIs
<1>6. \/ owned = {} /\ b = FirstChunk(slot)
      \/ owned # {} /\ \E t \in Transitions: b = NextChunk(h[Max(owned)], t)
  BY <1>2, <1>21, <1>4, Zenon DEF Heads
<1>7. /\ b.slot = slot /\ b.generation \in Nat /\ b.life \in Nat
      /\ b.first \in Nat /\ b.start \in Starts
  <2>1. CASE owned = {} /\ b = FirstChunk(slot)
    BY <2>1 DEF FirstChunk, Starts
  <2>2. CASE owned # {} /\ \E t \in Transitions: b = NextChunk(h[Max(owned)], t)
    <3>1. PICK p \in ChunkRecords: p = h[Max(owned)] /\ p.slot = slot
      BY <1>2, <1>4, <1>5, <2>2
    <3>2. PICK t \in Transitions: b = NextChunk(p, t)
      BY <2>2, <3>1
    <3> QED BY <3>1, <3>2, NextTyped
  <2> QED BY <1>6, <2>1, <2>2
<1>8. r \in Nat /\ 1 <= r
  BY WindowsAssumption
<1>9. /\ c \in ChunkRecords /\ c.slot = slot /\ c.first <= c.last
      /\ c.generation = b.generation /\ c.life = b.life /\ c.first = b.first /\ c.start = b.start
  BY <1>21, <1>7, <1>8 DEF ChunkRecords
<1>10. PICK g \in Seq(ChunkRecords): g = Append(h, c)
  BY <1>2, <1>9, AppendProperties
<1>11. Len(g) = n + 1 /\ g[n + 1] = c /\ \A k \in 1..n: g[k] = h[k]
  BY <1>1, <1>2, <1>9, <1>10, AppendProperties
<1>12. ASSUME NEW k \in 1..n PROVE ChunkOk(g, k)
  <2>1. g[k] = h[k]
    BY <1>11
  <2>2. \A m \in 1..(k - 1): g[m] = h[m]
    BY <1>1, <1>11
  <2>3. Earlier(g, k) = Earlier(h, k)
    BY <2>1, <2>2 DEF Earlier
  <2>4. Earlier(h, k) # {} => Max(Earlier(h, k)) \in 1..(k - 1)
    <3>1. PICK E: E = Earlier(h, k)
      OBVIOUS
    <3>2. E \in SUBSET Nat /\ k \in Nat /\ \A y \in E: y <= k /\ y \in 1..(k - 1)
      BY <3>1 DEF Earlier
    <3>3. E # {} => Max(E) \in E
      BY <3>2, MaxIs
    <3> QED BY <3>1, <3>2, <3>3
  <2>5. Earlier(h, k) # {} => g[Max(Earlier(h, k))] = h[Max(Earlier(h, k))]
    BY <2>2, <2>4
  <2>6. ChunkOk(h, k)
    BY <1>1 DEF Chronicle
  <2> QED BY <2>1, <2>3, <2>5, <2>6 DEF ChunkOk
<1>13. ChunkOk(g, n + 1)
  <2>1. Earlier(g, n + 1) = owned
    <3>1. (n + 1) - 1 = n
      OBVIOUS
    <3> QED BY <1>4, <1>9, <1>11, <3>1 DEF Earlier
  <2>2. owned = {} => c.start = "captureStart"
    BY <1>6, <1>9 DEF FirstChunk
  <2>3. owned # {} => \E t \in Transitions: Follow(c, g[Max(owned)], t)
    <3>1. ASSUME owned # {} PROVE g[Max(owned)] = h[Max(owned)]
      BY <1>4, <1>5, <1>11, <3>1
    <3>2. ASSUME owned # {} PROVE \E t \in Transitions: Follow(c, h[Max(owned)], t)
      BY <1>6, <1>9, <3>2 DEF Follow
    <3> QED BY <3>1, <3>2
  <2> QED BY <1>9, <1>11, <2>1, <2>2, <2>3 DEF ChunkOk
<1>14. \A k \in 1..(n + 1): k \in 1..n \/ k = n + 1
  OBVIOUS
<1>15. Chronicle(g)
  BY <1>10, <1>11, <1>12, <1>13, <1>14 DEF Chronicle
<1> QED BY <1>1, <1>10, <1>11, <1>15

Extended(hs) == UNION {{Append(h, c): c \in Chunks(h)}: h \in hs}

LEMMA HistoriesOk ==
    ASSUME NEW n \in Nat, NEW h \in Histories(n)
    PROVE  Chronicle(h) /\ Len(h) = n
<1>1. PICK S: S = SUBSET {g \in Seq(ChunkRecords): Chronicle(g)}
  OBVIOUS
<1>2. ASSUME NEW hs \in S PROVE Extended(hs) \in S
  <2>1. ASSUME NEW g \in hs, NEW c \in Chunks(g)
        PROVE  Append(g, c) \in {d \in Seq(ChunkRecords): Chronicle(d)}
    <3>1. Chronicle(g)
      BY <1>1
    <3>2. Chronicle(Append(g, c))
      BY <3>1, ChunkAppended
    <3> QED BY <3>2 DEF Chronicle
  <2>2. ASSUME NEW z \in Extended(hs)
        PROVE  z \in {d \in Seq(ChunkRecords): Chronicle(d)}
    <3>1. PICK g \in hs: z \in {Append(g, c): c \in Chunks(g)}
      BY DEF Extended
    <3>2. PICK c \in Chunks(g): z = Append(g, c)
      BY <3>1
    <3> QED BY <2>1, <3>2
  <2> QED BY <1>1, <2>2
<1>3. PICK f: f = [p \in (1..n) \X S |-> Extended(p[2])]
  OBVIOUS
<1>4. Rule(f, n, S)
  <2>1. \A p \in (1..n) \X S: Extended(p[2]) \in S
    BY <1>2
  <2> QED BY <1>3, <2>1 DEF Rule
<1>5. PICK a: a = {<<>>}
  OBVIOUS
<1>6. a \in S
  <2>1. <<>> \in Seq(ChunkRecords) /\ Len(<<>>) = 0
    OBVIOUS
  <2>2. Chronicle(<<>>)
    BY <2>1 DEF Chronicle
  <2> QED BY <1>1, <1>5, <2>1, <2>2
<1>7. PICK u: Follows(u, f, a, n, S)
  BY <1>4, <1>6, RecursionExists
<1>8. u \in [0..n -> S] /\ u[0] = a /\ \A k \in 1..n: u[k] = Extended(u[k - 1])
  <2>1. u \in [0..n -> S] /\ u[0] = a /\ \A k \in 1..n: u[k] = f[<<k, u[k - 1]>>]
    BY <1>7 DEF Follows
  <2>2. ASSUME NEW k \in 1..n PROVE u[k] = Extended(u[k - 1])
    <3>1. k - 1 \in 0..n
      OBVIOUS
    <3>2. <<k, u[k - 1]>> \in (1..n) \X S
      BY <2>1, <3>1
    <3> QED BY <1>3, <2>1, <3>2
  <2> QED BY <2>1, <2>2
<1>9. u = [k \in 0..n |-> IF k = 0 THEN {<<>>} ELSE Extended(u[k - 1])]
  <2>1. \A k \in 0..n: k = 0 \/ k \in 1..n
    OBVIOUS
  <2> QED BY <1>5, <1>8, <2>1
<1>10. PICK s: s = CHOOSE q: q = [k \in 0..n |-> IF k = 0 THEN {<<>>} ELSE Extended(q[k - 1])]
  OBVIOUS
<1>11. s = [k \in 0..n |-> IF k = 0 THEN {<<>>} ELSE Extended(s[k - 1])]
  <2>1. \E q: q = [k \in 0..n |-> IF k = 0 THEN {<<>>} ELSE Extended(q[k - 1])]
    BY <1>9
  <2> QED BY <1>10, <2>1, Zenon
<1>12. \A k \in 0..n: s[k] = IF k = 0 THEN {<<>>} ELSE Extended(s[k - 1])
  BY <1>11, Zenon
<1>13. Histories(n) = s[n]
  BY <1>10, Zenon DEF Histories, Extended
<1>14. PICK T: T = {k \in 0..n: ~(\A g \in s[k]: Chronicle(g) /\ Len(g) = k)}
  OBVIOUS
<1>15. ASSUME T # {} PROVE FALSE
  <2>1. T \in SUBSET Nat
    BY <1>14
  <2>2. PICK k \in T: \A m \in T: k <= m
    BY <1>15, <2>1, NatMin
  <2>3. k \in 0..n /\ ~(\A g \in s[k]: Chronicle(g) /\ Len(g) = k)
    BY <1>14
  <2>4. k # 0
    <3>1. ASSUME k = 0 PROVE FALSE
      <4>1. s[0] = {<<>>} /\ Len(<<>>) = 0
        BY <1>12
      <4>2. Chronicle(<<>>)
        BY <1>1, <1>5, <1>6
      <4> QED BY <2>3, <3>1, <4>1, <4>2
    <3> QED BY <3>1
  <2>5. k - 1 \in 0..n /\ k - 1 \notin T
    BY <2>2, <2>3, <2>4
  <2>6. \A g \in s[k - 1]: Chronicle(g) /\ Len(g) = k - 1
    BY <1>14, <2>5
  <2>7. s[k] = Extended(s[k - 1])
    BY <1>12, <2>3, <2>4
  <2>8. ASSUME NEW g \in s[k] PROVE Chronicle(g) /\ Len(g) = k
    <3>0. PICK d \in s[k - 1]: \E c \in Chunks(d): g = Append(d, c)
      BY <2>7 DEF Extended
    <3>1. PICK c \in Chunks(d): g = Append(d, c)
      BY <3>0
    <3>2. Chronicle(d) /\ Len(d) = k - 1
      BY <2>6
    <3>3. Chronicle(g) /\ Len(g) = (k - 1) + 1
      BY <3>1, <3>2, ChunkAppended
    <3> QED BY <2>3, <3>3
  <2> QED BY <2>3, <2>8
<1>16. n \in 0..n /\ n \notin T
  BY <1>15
<1> QED BY <1>13, <1>14, <1>16

(* What the next chunk of a slot may say of the one before it.              *)
Succeeds(p, c) ==
    /\ p.generation <= c.generation /\ p.last < c.first
    /\ c.start # "captureStart"
    /\ c.start = "generationStart" => p.generation < c.generation
    /\ p.generation = c.generation /\ c.first = p.last + 1 =>
         IF p.end = "lifeEnded" THEN c.start = "physicalLifeStart" /\ c.life = p.life + 1
         ELSE c.start = "continuation" /\ c.life = p.life

LEMMA FollowSucceeds ==
    ASSUME NEW p \in ChunkRecords, NEW c \in ChunkRecords, NEW t \in Transitions,
           Follow(c, p, t)
    PROVE  Succeeds(p, c)
<1>1. /\ p.generation \in Nat /\ p.life \in Nat /\ p.last \in Nat
      /\ c.generation \in Nat /\ c.life \in Nat /\ c.first \in Nat
  BY ChunkFields
<1>2. t \in {"continuation", "generationStart", "gap", "lifeAfterGap"}
  BY WindowsAssumption
<1>3. /\ c.generation = IF t = "generationStart" THEN p.generation + 1 ELSE p.generation
      /\ c.life = IF p.end = "lifeEnded" \/ t \in {"generationStart", "lifeAfterGap"}
                  THEN p.life + 1 ELSE p.life
      /\ c.first = IF t \in {"gap", "lifeAfterGap"} THEN p.last + 2 ELSE p.last + 1
      /\ c.start = CASE t = "lifeAfterGap" -> "physicalLifeStart"
                     [] t = "continuation" /\ p.end = "lifeEnded" -> "physicalLifeStart"
                     [] OTHER -> t
  BY DEF Follow, NextChunk
<1>4. CASE t = "continuation"
  BY <1>1, <1>3, <1>4 DEF Succeeds
<1>5. CASE t = "generationStart"
  BY <1>1, <1>3, <1>5 DEF Succeeds
<1>6. CASE t \in {"gap", "lifeAfterGap"}
  BY <1>1, <1>3, <1>6 DEF Succeeds
<1> QED BY <1>2, <1>4, <1>5, <1>6

(* What any later chunk of a slot may say of an earlier one of its          *)
(* generation: it joins only the last one before it.                       *)
Precedes(p, c) ==
    /\ p.generation <= c.generation /\ p.last < c.first
    /\ p.generation = c.generation =>
         c.start # "captureStart" /\ c.start # "generationStart"
    /\ p.generation = c.generation /\ c.first = p.last + 1 =>
         IF p.end = "lifeEnded" THEN c.start = "physicalLifeStart" /\ c.life = p.life + 1
         ELSE c.start = "continuation" /\ c.life = p.life
Ordered(h, n) == \A m \in Earlier(h, n): Precedes(h[m], h[n])

LEMMA ThroughOne ==
    ASSUME NEW a \in ChunkRecords, NEW p \in ChunkRecords, NEW c \in ChunkRecords,
           Precedes(a, p), Succeeds(p, c), p.first <= p.last
    PROVE  Precedes(a, c)
<1>1. /\ a.generation \in Nat /\ a.last \in Nat
      /\ p.generation \in Nat /\ p.first \in Nat /\ p.last \in Nat
      /\ c.generation \in Nat /\ c.first \in Nat
  BY ChunkFields
<1>2. /\ a.generation <= p.generation /\ a.last < p.first
  BY DEF Precedes
<1>3. /\ p.generation <= c.generation /\ p.last < c.first /\ c.start # "captureStart"
      /\ c.start = "generationStart" => p.generation < c.generation
  BY DEF Succeeds
<1>4. a.last + 1 < c.first
  BY <1>1, <1>2, <1>3
<1> QED BY <1>1, <1>2, <1>3, <1>4 DEF Precedes

LEMMA AllOrdered ==
    ASSUME NEW h, Chronicle(h)
    PROVE  \A n \in 1..Len(h): Ordered(h, n)
<1>1. PICK N \in Nat: N = Len(h)
  BY DEF Chronicle
<1>2. \A n \in 1..N: h[n] \in ChunkRecords /\ ChunkOk(h, n)
  BY <1>1 DEF Chronicle
<1>3. PICK T: T = {n \in 1..N: ~Ordered(h, n)}
  OBVIOUS
<1>4. ASSUME T # {} PROVE FALSE
  <2>1. T \in SUBSET Nat
    BY <1>3
  <2>2. PICK n \in T: \A k \in T: n <= k
    BY <1>4, <2>1, NatMin
  <2>3. n \in 1..N /\ n \in Nat
    BY <1>3
  <2>4. PICK E: E = Earlier(h, n)
    OBVIOUS
  <2>5. E = {m \in 1..(n - 1): h[m].slot = h[n].slot}
    BY <2>4 DEF Earlier
  <2>6. ASSUME NEW m \in E PROVE Precedes(h[m], h[n])
    <3>1. E \in SUBSET Nat /\ \A y \in E: y <= n
      BY <2>3, <2>5
    <3>2. PICK q \in E: q = Max(E) /\ \A y \in E: y <= q
      BY <2>3, <2>6, <3>1, MaxIs
    <3>3. /\ h[n] \in ChunkRecords /\ h[m] \in ChunkRecords /\ h[q] \in ChunkRecords
          /\ q \in 1..N /\ m \in 1..N /\ q < n /\ m <= q
      <4>1. q \in 1..(n - 1) /\ m \in 1..(n - 1)
        BY <2>5
      <4>2. q \in 1..N /\ m \in 1..N /\ q < n
        BY <2>3, <4>1
      <4> QED BY <1>2, <2>3, <3>2, <4>2
    <3>4. PICK t \in Transitions: Follow(h[n], h[q], t)
      BY <1>2, <2>3, <2>4, <2>6, <3>2 DEF ChunkOk
    <3>5. Succeeds(h[q], h[n])
      BY <3>3, <3>4, FollowSucceeds
    <3>6. CASE m = q
      <4>1. /\ h[q].generation \in Nat /\ h[n].generation \in Nat
        BY <3>3, ChunkFields
      <4> QED BY <3>5, <3>6, <4>1 DEF Succeeds, Precedes
    <3>7. CASE m # q
      <4>1. m \in 1..(q - 1) /\ h[m].slot = h[q].slot
        BY <2>5, <3>1, <3>3, <3>7
      <4>2. m \in Earlier(h, q)
        BY <4>1 DEF Earlier
      <4>3. ~(q \in T)
        BY <2>2, <2>3, <3>1, <3>3
      <4>4. Precedes(h[m], h[q])
        BY <1>3, <3>3, <4>2, <4>3 DEF Ordered
      <4>5. h[q].first <= h[q].last
        BY <1>2, <3>3 DEF ChunkOk
      <4> QED BY <3>3, <3>5, <4>4, <4>5, ThroughOne
    <3> QED BY <3>6, <3>7
  <2>7. Ordered(h, n)
    BY <2>4, <2>6 DEF Ordered
  <2> QED BY <1>3, <2>2, <2>7
<1> QED BY <1>1, <1>3, <1>4

-----------------------------------------------------------------------------
(* Rows of a stream: recurrent state is carried from a row to the next      *)
(* exactly as Sound asks.                                                   *)

Boundaries == {"CAPTURE_START", "GENERATION", "GAP", "LIFE", "CONTINUE"}
RowRecords == [ordinal: Nat, life: Nat, boundary: Boundaries]
Stepped(x, y) ==
    /\ x.ordinal < y.ordinal
    /\ (y.boundary = "CONTINUE") <=> (y.ordinal = x.ordinal + 1 /\ y.life = x.life)
    /\ y.boundary = "LIFE" => y.ordinal = x.ordinal + 1 /\ y.life = x.life + 1
RowsOk(rows) ==
    /\ rows \in Seq(RowRecords)
    /\ \A k \in 2..Len(rows): Stepped(rows[k - 1], rows[k])

LEMMA RowFields ==
    ASSUME NEW x \in RowRecords
    PROVE  x.ordinal \in Nat /\ x.life \in Nat /\ x.boundary \in Boundaries
BY DEF RowRecords

(* Ordinals grow at least as fast as positions.                             *)
LEMMA RowsSpread ==
    ASSUME NEW rows, RowsOk(rows), NEW i \in 1..Len(rows), NEW j \in 1..Len(rows), i <= j
    PROVE  rows[j].ordinal - rows[i].ordinal >= j - i
<1>1. PICK n \in Nat: n = Len(rows)
  BY DEF RowsOk
<1>2. \A k \in 1..n: rows[k].ordinal \in Nat
  <2>1. \A k \in 1..n: rows[k] \in RowRecords
    BY <1>1 DEF RowsOk
  <2> QED BY <2>1, RowFields
<1>3. \A k \in 2..n: rows[k - 1].ordinal < rows[k].ordinal
  BY <1>1 DEF RowsOk, Stepped
<1>4. PICK o: o = [k \in 1..n |-> rows[k].ordinal]
  OBVIOUS
<1>5. o \in [1..n -> Nat] /\ (\A k \in 2..n: o[k - 1] < o[k]) /\ \A k \in 1..n: o[k] = rows[k].ordinal
  <2>1. \A k \in 2..n: k \in 1..n /\ k - 1 \in 1..n
    OBVIOUS
  <2> QED BY <1>2, <1>3, <1>4, <2>1
<1>6. PICK T: T = {k \in i..n: ~(o[k] - o[i] >= k - i)}
  OBVIOUS
<1>7. ASSUME T # {} PROVE FALSE
  <2>1. T \in SUBSET Nat /\ i \in 1..n
    BY <1>1, <1>6
  <2>2. PICK k \in T: \A m \in T: k <= m
    BY <1>7, <2>1, NatMin
  <2>3. k \in i..n /\ ~(o[k] - o[i] >= k - i)
    BY <1>6
  <2>4. o[i] \in Nat /\ k # i
    BY <1>5, <2>1, <2>3
  <2>5. k - 1 \in i..n /\ ~(k - 1 \in T)
    BY <2>1, <2>2, <2>3, <2>4
  <2>6. o[k - 1] - o[i] >= (k - 1) - i
    BY <1>6, <2>5
  <2>7. k \in 2..n /\ k - 1 \in 1..n
    BY <2>1, <2>3, <2>4
  <2>8. o[k - 1] < o[k] /\ o[k] \in Nat /\ o[k - 1] \in Nat
    BY <1>5, <2>7
  <2> QED BY <2>1, <2>3, <2>4, <2>6, <2>7, <2>8
<1>8. ~(j \in T) /\ j \in i..n /\ i \in 1..n /\ j \in 1..n
  BY <1>1, <1>7
<1>9. o[j] - o[i] >= j - i
  BY <1>6, <1>8
<1> QED BY <1>5, <1>8, <1>9

(* Rows go on after rows, when the first goes on after the last.            *)
LEMMA RowsJoined ==
    ASSUME NEW r, NEW s, RowsOk(r), RowsOk(s),
           r # <<>> /\ s # <<>> => Stepped(r[Len(r)], s[1])
    PROVE  /\ RowsOk(r \o s) /\ Len(r \o s) = Len(r) + Len(s)
           /\ s # <<>> => (r \o s)[Len(r) + Len(s)] = s[Len(s)]
<1>1. PICK m \in Nat: m = Len(r)
  BY DEF RowsOk
<1>2. PICK n \in Nat: n = Len(s)
  BY DEF RowsOk
<1>3. r \in Seq(RowRecords) /\ s \in Seq(RowRecords)
  BY DEF RowsOk
<1>4. PICK u \in Seq(RowRecords): u = r \o s
  BY <1>3, ConcatProperties
<1>5. /\ Len(u) = m + n
      /\ \A k \in 1..m: u[k] = r[k]
      /\ \A k \in (m + 1)..(m + n): u[k] = s[k - m]
  <2>1. Len(u) = m + n /\ \A k \in 1..(m + n): u[k] = IF k <= m THEN r[k] ELSE s[k - m]
    BY <1>1, <1>2, <1>3, <1>4, ConcatProperties
  <2> QED BY <2>1
<1>6. ASSUME NEW k \in 2..(m + n) PROVE Stepped(u[k - 1], u[k])
  <2>1. CASE k <= m
    <3>1. u[k] = r[k] /\ u[k - 1] = r[k - 1]
      BY <1>5, <2>1
    <3>2. Stepped(r[k - 1], r[k])
      BY <1>1, <2>1 DEF RowsOk
    <3> QED BY <3>1, <3>2
  <2>2. CASE k = m + 1
    <3>1. u[k] = s[1] /\ u[k - 1] = r[m] /\ m \in 1..m /\ 1 \in 1..n
      BY <1>5, <2>2
    <3>2. r # <<>> /\ s # <<>>
      BY <1>1, <1>2, <1>3, <3>1
    <3> QED BY <1>1, <3>1, <3>2
  <2>3. CASE k > m + 1
    <3>1. u[k] = s[k - m] /\ u[k - 1] = s[(k - m) - 1]
      <4>1. k \in (m + 1)..(m + n) /\ k - 1 \in (m + 1)..(m + n) /\ (k - 1) - m = (k - m) - 1
        BY <2>3
      <4> QED BY <1>5, <4>1
    <3>2. k - m \in 2..n
      BY <2>3
    <3>3. Stepped(s[(k - m) - 1], s[k - m])
      BY <1>2, <3>2 DEF RowsOk
    <3> QED BY <3>1, <3>3
  <2> QED BY <2>1, <2>2, <2>3
<1>7. RowsOk(u)
  BY <1>4, <1>5, <1>6 DEF RowsOk
<1>8. ASSUME s # <<>> PROVE u[m + n] = s[n]
  <2>1. n # 0
    BY <1>2, <1>3, <1>8
  <2>2. m + n \in (m + 1)..(m + n) /\ (m + n) - m = n
    BY <2>1
  <2> QED BY <1>5, <2>2
<1> QED BY <1>1, <1>2, <1>4, <1>5, <1>7, <1>8

(* The rows of one chunk.                                                   *)
BlockOk(c, b) ==
    /\ b # <<>> /\ RowsOk(b)
    /\ b[1].ordinal = c.first /\ b[1].life = c.life
    /\ b[Len(b)].ordinal = c.last /\ b[Len(b)].life = c.life

Block(c, e) ==
    [r \in 1..(c.last - c.first + 1) |->
        [ordinal |-> c.first + r - 1, life |-> c.life,
         boundary |-> IF r = 1 THEN e ELSE "CONTINUE"]]

LEMMA BlockRows ==
    ASSUME NEW c \in ChunkRecords, c.first <= c.last, NEW e \in Boundaries
    PROVE  BlockOk(c, Block(c, e)) /\ Block(c, e)[1].boundary = e
<1>0. PICK b: b = Block(c, e)
  OBVIOUS
<1>1. c.first \in Nat /\ c.last \in Nat /\ c.life \in Nat
  BY ChunkFields
<1>2. PICK n \in Nat: n = c.last - c.first + 1 /\ n >= 1
  BY <1>1
<1>3. \A r \in 1..n: /\ b[r] \in RowRecords
                     /\ b[r].ordinal = c.first + r - 1 /\ b[r].life = c.life
                     /\ b[r].boundary = IF r = 1 THEN e ELSE "CONTINUE"
  <2>1. "CONTINUE" \in Boundaries
    BY DEF Boundaries
  <2>2. ASSUME NEW r \in 1..n
        PROVE /\ b[r] \in RowRecords
              /\ b[r].ordinal = c.first + r - 1 /\ b[r].life = c.life
              /\ b[r].boundary = IF r = 1 THEN e ELSE "CONTINUE"
    <3>1. PICK d: d = IF r = 1 THEN e ELSE "CONTINUE"
      OBVIOUS
    <3>2. b[r] = [ordinal |-> c.first + r - 1, life |-> c.life, boundary |-> d]
      BY <1>0, <1>2, <3>1 DEF Block
    <3>3. d \in Boundaries /\ c.first + r - 1 \in Nat
      BY <1>1, <2>1, <3>1
    <3> QED BY <1>1, <3>1, <3>2, <3>3 DEF RowRecords
  <2> QED BY <2>2
<1>4. b \in Seq(RowRecords) /\ Len(b) = n
  <2>1. b \in [1..n -> RowRecords]
    <3>1. b = [r \in 1..n |-> b[r]]
      BY <1>0, <1>2 DEF Block
    <3> QED BY <1>3, <3>1
  <2>2. \A f \in [1..n -> RowRecords]: f \in Seq(RowRecords) /\ Len(f) = n
    OBVIOUS
  <2> QED BY <2>1, <2>2
<1>5. ASSUME NEW k \in 2..n PROVE Stepped(b[k - 1], b[k])
  <2>1. k - 1 \in 1..n /\ k \in 1..n /\ k # 1
    OBVIOUS
  <2>2. b[k].boundary = "CONTINUE" /\ b[k].life = b[k - 1].life
    BY <1>3, <2>1
  <2>3. b[k].ordinal = c.first + k - 1 /\ b[k - 1].ordinal = c.first + (k - 1) - 1
    BY <1>3, <2>1
  <2>4. b[k].ordinal = b[k - 1].ordinal + 1 /\ b[k - 1].ordinal < b[k].ordinal
    BY <1>1, <2>3
  <2>5. b[k].boundary # "LIFE"
    BY <2>2
  <2> QED BY <2>2, <2>4, <2>5 DEF Stepped
<1>6. RowsOk(b)
  BY <1>4, <1>5 DEF RowsOk
<1>7. 1 \in 1..n /\ n \in 1..n
  BY <1>2
<1>8. /\ b[1].ordinal = c.first /\ b[1].life = c.life /\ b[1].boundary = e
      /\ b[n].ordinal = c.last /\ b[n].life = c.life
  <2>1. c.first + 1 - 1 = c.first /\ c.first + n - 1 = c.last
    BY <1>1, <1>2
  <2> QED BY <1>3, <1>7, <2>1
<1>9. b # <<>>
  BY <1>2, <1>4
<1> QED BY <1>0, <1>4, <1>6, <1>8, <1>9 DEF BlockOk

-----------------------------------------------------------------------------
(* The rows of a stream, retained chunk by retained chunk.                  *)

Retains(h, ns) == ns \in Seq(1..Len(h)) /\ Increasing(ns)
SameSlot(h, ns, k) == {j \in 1..(k - 1): h[ns[j]].slot = h[ns[k]].slot}
InStream(h, ns, stream, k) == {j \in 1..k: Stream(h, ns[j]) = stream}

LEMMA RetainedChunks ==
    ASSUME NEW h, Chronicle(h), NEW ns, Retains(h, ns)
    PROVE  /\ Len(ns) \in Nat
           /\ \A k \in 1..Len(ns): /\ ns[k] \in 1..Len(h) /\ h[ns[k]] \in ChunkRecords
                                   /\ h[ns[k]].first <= h[ns[k]].last
           /\ \A k \in 1..Len(ns): \A j \in SameSlot(h, ns, k): Precedes(h[ns[j]], h[ns[k]])
<1>1. PICK K \in Nat: K = Len(ns)
  BY DEF Retains
<1>2. PICK N \in Nat: N = Len(h)
  BY DEF Chronicle
<1>3. \A k \in 1..K: ns[k] \in 1..N
  BY <1>1, <1>2 DEF Retains
<1>4. \A n \in 1..N: h[n] \in ChunkRecords /\ ChunkOk(h, n)
  BY <1>2 DEF Chronicle
<1>5. \A n \in 1..N: h[n] \in ChunkRecords /\ h[n].first <= h[n].last
  BY <1>4 DEF ChunkOk
<1>6. ASSUME NEW k \in 1..K, NEW j \in SameSlot(h, ns, k) PROVE Precedes(h[ns[j]], h[ns[k]])
  <2>1. j \in 1..(k - 1) /\ h[ns[j]].slot = h[ns[k]].slot
    BY DEF SameSlot
  <2>2. j \in 1..K /\ j < k
    BY <2>1
  <2>3. ns[j] < ns[k]
    BY <1>1, <2>2 DEF Retains, Increasing
  <2>4. ns[j] \in 1..(ns[k] - 1)
    BY <1>3, <2>2, <2>3
  <2>5. ns[j] \in Earlier(h, ns[k])
    BY <2>1, <2>4 DEF Earlier
  <2>6. Ordered(h, ns[k])
    BY <1>2, <1>3, AllOrdered
  <2> QED BY <2>5, <2>6 DEF Ordered
<1> QED BY <1>1, <1>2, <1>3, <1>5, <1>6

(* A boundary is one of the five, and where a stream goes on from the last  *)
(* retained chunk it says what Sound asks of it.                            *)
LEMMA BoundaryIs ==
    ASSUME NEW h, Chronicle(h), NEW ns, Retains(h, ns), NEW k \in 1..Len(ns)
    PROVE  /\ Boundary(h, ns, k) \in Boundaries
           /\ SameSlot(h, ns, k) = {} => Boundary(h, ns, k) \notin {"CONTINUE", "LIFE"}
<1>1. PICK c: c = h[ns[k]]
  OBVIOUS
<1>2. PICK s: s = SameSlot(h, ns, k)
  OBVIOUS
<1>3. PICK p: p = h[ns[Max(s)]]
  OBVIOUS
<1>4. Boundary(h, ns, k) =
        IF c.start \in DOMAIN Recorded THEN Recorded[c.start]
        ELSE IF s = {} THEN "GAP"
        ELSE IF KnownLife(p, c) THEN "LIFE"
        ELSE IF Continues(p, c) THEN "CONTINUE" ELSE "GAP"
  BY <1>1, <1>2, <1>3, Zenon DEF Boundary, SameSlot
<1>5. \A x \in DOMAIN Recorded: Recorded[x] \in {"CAPTURE_START", "GENERATION"}
  BY DEF Recorded
<1>6. CASE c.start \in DOMAIN Recorded
  <2>1. Boundary(h, ns, k) = Recorded[c.start]
    BY <1>4, <1>6
  <2>2. Boundary(h, ns, k) \in {"CAPTURE_START", "GENERATION"}
    BY <1>5, <1>6, <2>1
  <2> QED BY <2>2 DEF Boundaries
<1>7. CASE ~(c.start \in DOMAIN Recorded)
  <2>1. Boundary(h, ns, k) = IF s = {} THEN "GAP"
                             ELSE IF KnownLife(p, c) THEN "LIFE"
                             ELSE IF Continues(p, c) THEN "CONTINUE" ELSE "GAP"
    BY <1>4, <1>7
  <2>2. s = {} => Boundary(h, ns, k) = "GAP"
    BY <2>1
  <2>3. Boundary(h, ns, k) \in {"GAP", "LIFE", "CONTINUE"}
    BY <2>1
  <2> QED BY <1>2, <2>2, <2>3 DEF Boundaries
<1> QED BY <1>6, <1>7

LEMMA BoundaryJoins ==
    ASSUME NEW h, Chronicle(h), NEW ns, Retains(h, ns), NEW k \in 1..Len(ns),
           NEW q \in SameSlot(h, ns, k), q = Max(SameSlot(h, ns, k)),
           h[ns[q]].generation = h[ns[k]].generation,
           NEW x \in RowRecords, x.ordinal = h[ns[q]].last, x.life = h[ns[q]].life,
           NEW y \in RowRecords, y.ordinal = h[ns[k]].first, y.life = h[ns[k]].life,
           y.boundary = Boundary(h, ns, k)
    PROVE  Stepped(x, y)
<1>1. PICK c: c = h[ns[k]]
  OBVIOUS
<1>2. PICK p: p = h[ns[q]]
  OBVIOUS
<1>3. PICK s: s = SameSlot(h, ns, k)
  OBVIOUS
<1>4. q \in 1..Len(ns) /\ s # {}
  <2>1. q \in 1..(k - 1) /\ Len(ns) \in Nat
    BY RetainedChunks DEF SameSlot
  <2>2. k \in 1..Len(ns)
    OBVIOUS
  <2>3. q \in 1..Len(ns)
    BY <2>1, <2>2
  <2>4. s # {}
    BY <1>3
  <2> QED BY <2>3, <2>4
<1>5. Precedes(p, c) /\ p.generation = c.generation
  BY <1>1, <1>2, RetainedChunks
<1>6. p \in ChunkRecords /\ c \in ChunkRecords
  BY <1>1, <1>2, <1>4, RetainedChunks
<1>7. /\ p.last \in Nat /\ p.life \in Nat /\ p.end \in Ends
      /\ c.first \in Nat /\ c.life \in Nat /\ c.start \in Starts
  BY <1>6, ChunkFields
<1>8. /\ p.last < c.first
      /\ c.start # "captureStart" /\ c.start # "generationStart"
      /\ c.first = p.last + 1 =>
           IF p.end = "lifeEnded" THEN c.start = "physicalLifeStart" /\ c.life = p.life + 1
           ELSE c.start = "continuation" /\ c.life = p.life
  BY <1>5 DEF Precedes
<1>9. ~(c.start \in DOMAIN Recorded)
  <2>1. DOMAIN Recorded = {"captureStart", "generationStart"}
    BY DEF Recorded
  <2> QED BY <1>8, <2>1
<1>10. Boundary(h, ns, k) =
        IF c.start \in DOMAIN Recorded THEN Recorded[c.start]
        ELSE IF s = {} THEN "GAP"
        ELSE IF KnownLife(p, c) THEN "LIFE"
        ELSE IF Continues(p, c) THEN "CONTINUE" ELSE "GAP"
  BY <1>1, <1>2, <1>3, Zenon DEF Boundary, SameSlot
<1>11. y.boundary = IF KnownLife(p, c) THEN "LIFE"
                    ELSE IF Continues(p, c) THEN "CONTINUE" ELSE "GAP"
  BY <1>4, <1>9, <1>10
<1>12. x.ordinal = p.last /\ x.life = p.life /\ y.ordinal = c.first /\ y.life = c.life
  BY <1>1, <1>2
<1>13. CASE c.first = p.last + 1 /\ p.end = "lifeEnded"
  <2>1. c.start = "physicalLifeStart" /\ c.life = p.life + 1 /\ p.life # c.life
    BY <1>7, <1>8, <1>13
  <2>2. KnownLife(p, c)
    BY <1>5, <1>13, <2>1 DEF KnownLife, Joined
  <2>3. y.boundary = "LIFE"
    BY <1>11, <2>2
  <2> QED BY <1>7, <1>8, <1>12, <1>13, <2>1, <2>3 DEF Stepped
<1>14. CASE c.first = p.last + 1 /\ p.end # "lifeEnded"
  <2>1. c.start = "continuation" /\ c.life = p.life /\ p.end = "sealed"
    BY <1>7, <1>8, <1>14 DEF Ends
  <2>2. Continues(p, c) /\ ~KnownLife(p, c)
    BY <1>5, <1>14, <2>1 DEF KnownLife, Continues, Joined
  <2>3. y.boundary = "CONTINUE"
    BY <1>11, <2>2
  <2> QED BY <1>7, <1>8, <1>12, <1>14, <2>1, <2>3 DEF Stepped
<1>15. CASE c.first # p.last + 1
  <2>1. ~KnownLife(p, c) /\ ~Continues(p, c)
    BY <1>15 DEF KnownLife, Continues, Joined
  <2>2. y.boundary = "GAP"
    BY <1>11, <2>1
  <2> QED BY <1>7, <1>8, <1>12, <1>15, <2>2 DEF Stepped
<1> QED BY <1>13, <1>14, <1>15

Part(h, ns, stream, k) == IF Stream(h, ns[k]) = stream THEN RowsAt(h, ns, k) ELSE <<>>
EndsAt(rows, c) ==
    /\ rows # <<>>
    /\ rows[Len(rows)].ordinal = c.last /\ rows[Len(rows)].life = c.life
StreamOk(h, ns, stream, k, rows) ==
    /\ RowsOk(rows)
    /\ InStream(h, ns, stream, k) = {} => rows = <<>>
    /\ InStream(h, ns, stream, k) # {} =>
         EndsAt(rows, h[ns[Max(InStream(h, ns, stream, k))]])

LEMMA NoRows == RowsOk(<<>>)
<1>1. <<>> \in Seq(RowRecords) /\ Len(<<>>) = 0
  OBVIOUS
<1>2. 2..0 = {}
  OBVIOUS
<1> QED BY <1>1, <1>2 DEF RowsOk

LEMMA RowsOfChunk ==
    ASSUME NEW h, Chronicle(h), NEW ns, Retains(h, ns), NEW k \in 1..Len(ns)
    PROVE  /\ BlockOk(h[ns[k]], RowsAt(h, ns, k))
           /\ RowsAt(h, ns, k)[1].boundary = Boundary(h, ns, k)
<1>1. PICK c: c = h[ns[k]]
  OBVIOUS
<1>2. PICK e: e = Boundary(h, ns, k)
  OBVIOUS
<1>4. RowsAt(h, ns, k) = Block(c, e)
  BY <1>1, <1>2, Zenon DEF RowsAt, Block
<1>5. c \in ChunkRecords /\ c.first <= c.last
  BY <1>1, RetainedChunks
<1>6. e \in Boundaries
  BY <1>2, BoundaryIs
<1>7. BlockOk(c, Block(c, e)) /\ Block(c, e)[1].boundary = e
  BY <1>5, <1>6, BlockRows
<1> QED BY <1>1, <1>2, <1>4, <1>7

LEMMA StreamStep ==
    ASSUME NEW h, Chronicle(h), NEW ns, Retains(h, ns), NEW k \in 1..Len(ns), NEW stream,
           NEW rows, StreamOk(h, ns, stream, k - 1, rows)
    PROVE  StreamOk(h, ns, stream, k, rows \o Part(h, ns, stream, k))
<1>1. PICK K \in Nat: K = Len(ns) /\ k \in 1..K
  BY RetainedChunks
<1>2. PICK d: d = InStream(h, ns, stream, k - 1)
  OBVIOUS
<1>3. PICK u: u = InStream(h, ns, stream, k)
  OBVIOUS
<1>4. /\ d = {j \in 1..(k - 1): Stream(h, ns[j]) = stream}
      /\ u = {j \in 1..k: Stream(h, ns[j]) = stream}
  BY <1>2, <1>3 DEF InStream
<1>5. /\ RowsOk(rows)
      /\ d = {} => rows = <<>>
      /\ d # {} => EndsAt(rows, h[ns[Max(d)]])
  BY <1>2 DEF StreamOk
<1>6. \A j \in 1..k: j \in 1..(k - 1) \/ j = k
  BY <1>1
<1>7. CASE Stream(h, ns[k]) # stream
  <2>1. u = d
    <3>1. \A j \in 1..(k - 1): j \in 1..k
      BY <1>1
    <3> QED BY <1>4, <1>6, <1>7, <3>1
  <2>2. Part(h, ns, stream, k) = <<>>
    BY <1>7 DEF Part
  <2>3. rows \o <<>> = rows
    <3>1. rows \in Seq(RowRecords)
      BY <1>5 DEF RowsOk
    <3> QED BY <3>1
  <2>4. StreamOk(h, ns, stream, k, rows)
    BY <1>3, <1>5, <2>1 DEF StreamOk
  <2> QED BY <2>2, <2>3, <2>4
<1>8. CASE Stream(h, ns[k]) = stream
  <2>1. PICK c: c = h[ns[k]]
    OBVIOUS
  <2>2. PICK b: b = RowsAt(h, ns, k)
    OBVIOUS
  <2>3. /\ BlockOk(c, b) /\ b[1].boundary = Boundary(h, ns, k)
    BY <2>1, <2>2, RowsOfChunk
  <2>4. /\ b # <<>> /\ RowsOk(b)
        /\ b[1].ordinal = c.first /\ b[1].life = c.life
        /\ b[Len(b)].ordinal = c.last /\ b[Len(b)].life = c.life
    BY <2>3 DEF BlockOk
  <2>5. Part(h, ns, stream, k) = b
    BY <1>8, <2>2 DEF Part
  <2>6. k \in u /\ Max(u) = k
    <3>1. k \in u
      BY <1>1, <1>4, <1>8
    <3>2. u \in SUBSET Nat /\ k \in Nat /\ \A y \in u: y <= k
      BY <1>1, <1>4
    <3>3. Max(u) \in u /\ \A y \in u: y <= Max(u)
      BY <3>1, <3>2, MaxIs
    <3>4. Max(u) \in Nat /\ Max(u) <= k /\ k <= Max(u)
      BY <3>1, <3>2, <3>3
    <3> QED BY <3>1, <3>2, <3>4
  <2>7. ASSUME rows # <<>> /\ b # <<>> PROVE Stepped(rows[Len(rows)], b[1])
    <3>1. d # {} /\ EndsAt(rows, h[ns[Max(d)]])
      BY <1>5, <2>7
    <3>2. PICK s: s = SameSlot(h, ns, k)
      OBVIOUS
    <3>3. s = {j \in 1..(k - 1): h[ns[j]].slot = h[ns[k]].slot}
      BY <3>2 DEF SameSlot
    <3>4. \A j \in 1..(k - 1):
            j \in d <=> (h[ns[j]].slot = h[ns[k]].slot /\ h[ns[j]].generation = h[ns[k]].generation)
      BY <1>4, <1>8 DEF Stream
    <3>5. d \in SUBSET s /\ s \in SUBSET Nat /\ k \in Nat /\ \A y \in s: y <= k
      BY <1>1, <1>4, <3>3, <3>4
    <3>6. PICK q \in d: q = Max(d) /\ \A y \in d: y <= q
      BY <3>1, <3>5, MaxIs
    <3>7. PICK m \in s: m = Max(s) /\ \A y \in s: y <= m
      BY <3>1, <3>5, MaxIs
    <3>8. /\ q \in 1..(k - 1) /\ m \in 1..(k - 1) /\ q \in 1..K /\ m \in 1..K
          /\ q \in Nat /\ m \in Nat
      <4>1. q \in 1..(k - 1)
        BY <1>4
      <4>2. m \in 1..(k - 1)
        BY <3>3
      <4> QED BY <1>1, <4>1, <4>2
    <3>9. h[ns[q]] \in ChunkRecords /\ h[ns[m]] \in ChunkRecords /\ c \in ChunkRecords
      BY <1>1, <2>1, <3>8, RetainedChunks
    <3>10. /\ h[ns[q]].generation \in Nat /\ h[ns[m]].generation \in Nat /\ c.generation \in Nat
      BY <3>9, ChunkFields
    <3>11. q = m
      <4>1. ASSUME q # m PROVE FALSE
        <5>1. q <= m /\ q \in 1..(m - 1)
          BY <3>5, <3>6, <3>7, <3>8, <4>1
        <5>2. h[ns[q]].slot = h[ns[m]].slot
          BY <3>3, <3>5, <3>6, <3>7
        <5>3. q \in SameSlot(h, ns, m)
          BY <5>1, <5>2 DEF SameSlot
        <5>4. Precedes(h[ns[q]], h[ns[m]])
          BY <1>1, <3>8, <5>3, RetainedChunks
        <5>5. Precedes(h[ns[m]], h[ns[k]])
          BY <1>1, <3>2, <3>7, RetainedChunks
        <5>6. /\ h[ns[q]].generation <= h[ns[m]].generation
              /\ h[ns[m]].generation <= h[ns[k]].generation
          BY <5>4, <5>5 DEF Precedes
        <5>7. h[ns[q]].generation = h[ns[k]].generation
          BY <3>4, <3>6, <3>8
        <5>8. h[ns[m]].generation = h[ns[k]].generation
          BY <2>1, <3>10, <5>6, <5>7
        <5>9. m \in d
          BY <3>3, <3>4, <3>7, <3>8, <5>8
        <5> QED BY <3>6, <3>8, <4>1, <5>1, <5>9
      <4> QED BY <4>1
    <3>12. PICK x: x = rows[Len(rows)]
      OBVIOUS
    <3>13. x \in RowRecords /\ x.ordinal = h[ns[q]].last /\ x.life = h[ns[q]].life
      <4>1. x.ordinal = h[ns[q]].last /\ x.life = h[ns[q]].life
        BY <3>1, <3>6, <3>12 DEF EndsAt
      <4>2. rows \in Seq(RowRecords) /\ rows # <<>>
        BY <1>5, <2>7 DEF RowsOk
      <4>3. Len(rows) \in 1..Len(rows)
        BY <4>2
      <4> QED BY <3>12, <4>1, <4>2, <4>3
    <3>14. b[1] \in RowRecords
      <4>1. b \in Seq(RowRecords) /\ b # <<>>
        BY <2>4 DEF RowsOk
      <4>2. 1 \in 1..Len(b)
        BY <4>1
      <4> QED BY <4>1, <4>2
    <3>15. q \in SameSlot(h, ns, k) /\ q = Max(SameSlot(h, ns, k))
      BY <3>2, <3>7, <3>11
    <3>16. h[ns[q]].generation = h[ns[k]].generation
      BY <3>4, <3>6, <3>8
    <3>17. Stepped(x, b[1])
      BY <2>1, <2>3, <2>4, <3>13, <3>14, <3>15, <3>16, BoundaryJoins
    <3> QED BY <3>12, <3>17
  <2>8. PICK out: out = rows \o b
    OBVIOUS
  <2>9. PICK l \in Nat: l = Len(rows) + Len(b) /\ l > 0
    <3>1. rows \in Seq(RowRecords) /\ b \in Seq(RowRecords)
      BY <1>5, <2>4 DEF RowsOk
    <3>2. Len(rows) \in Nat /\ Len(b) \in Nat /\ Len(b) > 0
      BY <2>4, <3>1
    <3> QED BY <3>2
  <2>10. RowsOk(out) /\ Len(out) = l /\ out[l] = b[Len(b)]
    BY <1>5, <2>4, <2>7, <2>8, <2>9, RowsJoined
  <2>11. out # <<>>
    <3>1. Len(<<>>) = 0
      OBVIOUS
    <3> QED BY <2>9, <2>10, <3>1
  <2>12. EndsAt(out, c)
    BY <2>4, <2>10, <2>11 DEF EndsAt
  <2>13. StreamOk(h, ns, stream, k, out)
    BY <1>3, <2>1, <2>6, <2>10, <2>12 DEF StreamOk
  <2> QED BY <2>5, <2>8, <2>13
<1> QED BY <1>7, <1>8

LEMMA StreamRowsOk ==
    ASSUME NEW h, Chronicle(h), NEW ns, Retains(h, ns), NEW stream
    PROVE  RowsOk(StreamRows(h, ns, stream))
<1>1. PICK n \in Nat: n = Len(ns)
  BY RetainedChunks
<1>2. PICK S: S = Seq(RowRecords)
  OBVIOUS
<1>3. ASSUME NEW k \in 1..n PROVE Part(h, ns, stream, k) \in S
  <2>1. BlockOk(h[ns[k]], RowsAt(h, ns, k))
    BY <1>1, RowsOfChunk
  <2>2. RowsAt(h, ns, k) \in S /\ <<>> \in S
    BY <1>2, <2>1 DEF BlockOk, RowsOk
  <2> QED BY <2>2 DEF Part
<1>4. PICK f: f = [p \in (1..n) \X S |-> p[2] \o Part(h, ns, stream, p[1])]
  OBVIOUS
<1>5. Rule(f, n, S)
  <2>1. ASSUME NEW p \in (1..n) \X S PROVE p[2] \o Part(h, ns, stream, p[1]) \in S
    <3>1. p[2] \in S /\ p[1] \in 1..n
      OBVIOUS
    <3>2. Part(h, ns, stream, p[1]) \in S
      BY <1>3, <3>1
    <3> QED BY <1>2, <3>1, <3>2, ConcatProperties
  <2> QED BY <1>4, <2>1 DEF Rule
<1>6. <<>> \in S
  BY <1>2
<1>7. PICK u: Follows(u, f, <<>>, n, S)
  BY <1>5, <1>6, RecursionExists
<1>8. u \in [0..n -> S] /\ u[0] = <<>> /\ \A k \in 1..n: u[k] = u[k - 1] \o Part(h, ns, stream, k)
  <2>1. u \in [0..n -> S] /\ u[0] = <<>> /\ \A k \in 1..n: u[k] = f[<<k, u[k - 1]>>]
    BY <1>7 DEF Follows
  <2>2. ASSUME NEW k \in 1..n PROVE u[k] = u[k - 1] \o Part(h, ns, stream, k)
    <3>1. k - 1 \in 0..n
      OBVIOUS
    <3>2. <<k, u[k - 1]>> \in (1..n) \X S
      BY <2>1, <3>1
    <3> QED BY <1>4, <2>1, <3>2
  <2> QED BY <2>1, <2>2
<1>9. u = [k \in 0..n |-> IF k = 0 THEN <<>> ELSE u[k - 1] \o Part(h, ns, stream, k)]
  <2>1. \A k \in 0..n: k = 0 \/ k \in 1..n
    OBVIOUS
  <2> QED BY <1>8, <2>1
<1>10. PICK s: s = CHOOSE q: q = [k \in 0..n |->
                     IF k = 0 THEN <<>> ELSE q[k - 1] \o Part(h, ns, stream, k)]
  OBVIOUS
<1>11. s = [k \in 0..n |-> IF k = 0 THEN <<>> ELSE s[k - 1] \o Part(h, ns, stream, k)]
  <2>1. \E q: q = [k \in 0..n |-> IF k = 0 THEN <<>> ELSE q[k - 1] \o Part(h, ns, stream, k)]
    BY <1>9
  <2> QED BY <1>10, <2>1, Zenon
<1>12. \A k \in 0..n: s[k] = IF k = 0 THEN <<>> ELSE s[k - 1] \o Part(h, ns, stream, k)
  BY <1>11, Zenon
<1>13. StreamRows(h, ns, stream) = s[n]
  BY <1>1, <1>10, Zenon DEF StreamRows, Part
<1>14. PICK T: T = {k \in 0..n: ~StreamOk(h, ns, stream, k, s[k])}
  OBVIOUS
<1>15. ASSUME T # {} PROVE FALSE
  <2>1. T \in SUBSET Nat
    BY <1>14
  <2>2. PICK k \in T: \A m \in T: k <= m
    BY <1>15, <2>1, NatMin
  <2>3. k \in 0..n /\ ~StreamOk(h, ns, stream, k, s[k])
    BY <1>14
  <2>4. k # 0
    <3>1. ASSUME k = 0 PROVE FALSE
      <4>1. s[0] = <<>>
        BY <1>12
      <4>2. InStream(h, ns, stream, 0) = {}
        BY DEF InStream
      <4>3. StreamOk(h, ns, stream, 0, <<>>)
        BY <4>2, NoRows DEF StreamOk
      <4> QED BY <2>3, <3>1, <4>1, <4>3
    <3> QED BY <3>1
  <2>5. k - 1 \in 0..n /\ ~(k - 1 \in T) /\ k \in 1..n
    BY <2>2, <2>3, <2>4
  <2>6. StreamOk(h, ns, stream, k - 1, s[k - 1])
    BY <1>14, <2>5
  <2>7. s[k] = s[k - 1] \o Part(h, ns, stream, k)
    BY <1>12, <2>3, <2>4
  <2>8. StreamOk(h, ns, stream, k, s[k])
    BY <1>1, <2>5, <2>6, <2>7, StreamStep
  <2> QED BY <2>3, <2>8
<1>16. n \in 0..n /\ ~(n \in T)
  BY <1>15
<1>17. StreamOk(h, ns, stream, n, s[n])
  BY <1>14, <1>16
<1> QED BY <1>13, <1>17 DEF StreamOk

-----------------------------------------------------------------------------
(* Any window of such rows is sound, and a snapshot with it can be loaded.  *)

OpenedRow(x) == [x EXCEPT !.boundary = Opened(@)]

LEMMA OpenedIs ==
    ASSUME NEW x \in RowRecords
    PROVE  /\ OpenedRow(x).ordinal = x.ordinal /\ OpenedRow(x).life = x.life
           /\ OpenedRow(x).boundary \notin {"CONTINUE", "LIFE"}
<1>1. PICK o, l, b: x = [ordinal |-> o, life |-> l, boundary |-> b]
  BY DEF RowRecords
<1>2. OpenedRow(x) = [ordinal |-> o, life |-> l, boundary |-> Opened(b)]
  BY <1>1 DEF OpenedRow
<1>3. Opened(b) \notin {"CONTINUE", "LIFE"}
  BY DEF Opened
<1> QED BY <1>1, <1>2, <1>3

WindowOf(rows, b, l, w) ==
    /\ w \in Seq(RowRecords) /\ Len(w) = l
    /\ w[1].boundary \notin {"CONTINUE", "LIFE"}
    /\ \A k \in 1..l: w[k].ordinal = rows[b + k - 1].ordinal /\ w[k].life = rows[b + k - 1].life
    /\ \A k \in 2..l: w[k] = rows[b + k - 1]

LEMMA WindowIs ==
    ASSUME NEW rows, RowsOk(rows), NEW b \in 1..(Len(rows) - BurnIn)
    PROVE  \E l \in Nat: /\ l > BurnIn /\ l <= BurnIn + Bptt /\ b + l - 1 <= Len(rows)
                         /\ WindowOf(rows, b, l, Window(rows, b))
<1>1. PICK n \in Nat: n = Len(rows)
  BY DEF RowsOk
<1>2. BurnIn \in Nat /\ Bptt \in Nat /\ Bptt >= 1 /\ b \in Nat /\ b >= 1 /\ b + BurnIn <= n
  BY <1>1, WindowsAssumption
<1>3. PICK e: e = Min({b + BurnIn + Bptt - 1, n})
  OBVIOUS
<1>4. e \in Nat /\ e <= b + BurnIn + Bptt - 1 /\ e <= n /\ e >= b + BurnIn
  <2>1. PICK x \in Nat: x = b + BurnIn + Bptt - 1
    BY <1>2
  <2>2. {x, n} \in SUBSET Nat /\ {x, n} # {}
    BY <1>1
  <2>3. Min({x, n}) \in {x, n} /\ \A y \in {x, n}: Min({x, n}) <= y
    BY <2>2, MinIs
  <2>4. e \in {x, n} /\ e <= x /\ e <= n
    BY <1>1, <1>3, <2>1, <2>3
  <2> QED BY <1>1, <1>2, <2>1, <2>4
<1>5. PICK l \in Nat: l = e - b + 1
  BY <1>2, <1>4
<1>6. l > BurnIn /\ l <= BurnIn + Bptt /\ b + l - 1 <= n /\ l >= 1
  BY <1>2, <1>4, <1>5
<1>7. rows \in Seq(RowRecords)
  BY DEF RowsOk
<1>8. PICK s: s = SubSeq(rows, b, e)
  OBVIOUS
<1>9. s \in Seq(RowRecords) /\ Len(s) = l /\ \A k \in 1..l: s[k] = rows[b + k - 1]
  <2>1. b \in 1..(n + 1) /\ e \in 0..n /\ b \in 1..n /\ e \in b..n
    BY <1>2, <1>4
  <2>2. Len(s) = (IF b <= e THEN e - b + 1 ELSE 0) /\ s \in Seq(RowRecords)
    BY <1>1, <1>7, <1>8, <2>1, SubSeqProperties
  <2>3. \A k \in 1..(e - b + 1): s[k] = rows[b + k - 1]
    BY <1>1, <1>7, <1>8, <2>1, SubSeqProperties
  <2> QED BY <1>2, <1>4, <1>5, <2>2, <2>3
<1>10. PICK w: w = Window(rows, b)
  OBVIOUS
<1>11. w = [s EXCEPT ![1] = OpenedRow(s[1])]
  <2>1. w = [s EXCEPT ![1].boundary = Opened(@)]
    BY <1>1, <1>3, <1>8, <1>10 DEF Window
  <2> QED BY <2>1 DEF OpenedRow
<1>12. DOMAIN s = 1..l /\ 1 \in 1..l /\ s[1] \in RowRecords
  BY <1>6, <1>9
<1>13. DOMAIN w = 1..l /\ w[1] = OpenedRow(s[1]) /\ \A k \in 2..l: w[k] = s[k]
  BY <1>11, <1>12
<1>14. OpenedRow(s[1]) \in RowRecords
  <2>1. PICK o \in Nat, y \in Nat, z \in Boundaries: s[1] = [ordinal |-> o, life |-> y, boundary |-> z]
    BY <1>12 DEF RowRecords
  <2>2. OpenedRow(s[1]) = [ordinal |-> o, life |-> y, boundary |-> Opened(z)]
    BY <2>1 DEF OpenedRow
  <2>3. Opened(z) \in Boundaries
    BY DEF Opened, Boundaries
  <2> QED BY <2>2, <2>3 DEF RowRecords
<1>15. w \in Seq(RowRecords) /\ Len(w) = l
  <2>1. \A k \in 1..l: k = 1 \/ k \in 2..l
    OBVIOUS
  <2>2. \A k \in 1..l: w[k] \in RowRecords
    BY <1>9, <1>13, <1>14, <2>1
  <2>3. w = [k \in 1..l |-> w[k]]
    BY <1>11, <1>12
  <2>4. w \in [1..l -> RowRecords]
    BY <2>2, <2>3
  <2>5. \A f \in [1..l -> RowRecords]: f \in Seq(RowRecords) /\ Len(f) = l
    OBVIOUS
  <2> QED BY <2>4, <2>5
<1>16. /\ w[1].ordinal = s[1].ordinal /\ w[1].life = s[1].life
       /\ w[1].boundary \notin {"CONTINUE", "LIFE"}
  BY <1>12, <1>13, OpenedIs
<1>17. \A k \in 2..l: w[k] = rows[b + k - 1]
  BY <1>9, <1>13
<1>18. \A k \in 1..l: w[k].ordinal = rows[b + k - 1].ordinal /\ w[k].life = rows[b + k - 1].life
  <2>1. \A k \in 1..l: k = 1 \/ k \in 2..l
    OBVIOUS
  <2>2. s[1] = rows[b + 1 - 1]
    BY <1>9, <1>12
  <2> QED BY <1>16, <1>17, <2>1, <2>2
<1>19. WindowOf(rows, b, l, w)
  BY <1>15, <1>16, <1>17, <1>18 DEF WindowOf
<1> QED BY <1>1, <1>6, <1>10, <1>19

LEMMA WindowOk ==
    ASSUME NEW rows, RowsOk(rows), NEW b \in 1..(Len(rows) - BurnIn)
    PROVE  Sound(Window(rows, b)) /\ WindowAdmitted(Window(rows, b))
<1>1. PICK n \in Nat: n = Len(rows)
  BY DEF RowsOk
<1>2. BurnIn \in Nat /\ Bptt \in Nat /\ b \in 1..n
  BY <1>1, WindowsAssumption
<1>3. PICK w: w = Window(rows, b)
  OBVIOUS
<1>4. PICK l \in Nat: /\ l > BurnIn /\ l <= BurnIn + Bptt /\ b + l - 1 <= n
                      /\ WindowOf(rows, b, l, w)
  BY <1>1, <1>3, WindowIs
<1>5. /\ Len(w) = l /\ w[1].boundary \notin {"CONTINUE", "LIFE"}
      /\ \A k \in 1..l: w[k].ordinal = rows[b + k - 1].ordinal /\ w[k].life = rows[b + k - 1].life
      /\ \A k \in 2..l: w[k] = rows[b + k - 1]
  BY <1>4 DEF WindowOf
<1>6. \A k \in 1..l: b + k - 1 \in 1..n /\ w[k].ordinal \in Nat
  <2>1. \A k \in 1..l: b + k - 1 \in 1..n
    BY <1>2, <1>4
  <2>2. \A j \in 1..n: rows[j] \in RowRecords
    BY <1>1 DEF RowsOk
  <2>3. \A j \in 1..n: rows[j].ordinal \in Nat
    BY <2>2, RowFields
  <2> QED BY <1>5, <2>1, <2>3
<1>7. ASSUME NEW k \in 2..l
      PROVE  /\ (w[k].boundary = "CONTINUE") <=>
                   (w[k].ordinal = w[k - 1].ordinal + 1 /\ w[k].life = w[k - 1].life)
             /\ w[k].boundary = "LIFE" =>
                   w[k].ordinal = w[k - 1].ordinal + 1 /\ w[k].life = w[k - 1].life + 1
  <2>1. PICK j: j = b + k - 1
    OBVIOUS
  <2>2. j \in 2..n /\ k - 1 \in 1..l /\ b + (k - 1) - 1 = j - 1
    BY <1>2, <1>4, <2>1
  <2>3. Stepped(rows[j - 1], rows[j])
    BY <1>1, <2>2 DEF RowsOk
  <2>4. w[k] = rows[j]
    BY <1>5, <2>1
  <2>5. w[k - 1].ordinal = rows[j - 1].ordinal /\ w[k - 1].life = rows[j - 1].life
    BY <1>5, <2>2
  <2> QED BY <2>3, <2>4, <2>5 DEF Stepped
<1>8. Sound(w)
  BY <1>5, <1>7 DEF Sound
<1>9. ASSUME NEW i \in 1..l, NEW j \in 1..l, i <= j
      PROVE  w[j].ordinal - w[i].ordinal >= j - i
  <2>1. PICK p \in 1..n: p = b + i - 1
    BY <1>6
  <2>2. PICK q \in 1..n: q = b + j - 1
    BY <1>6
  <2>3. p <= q /\ q - p = j - i
    BY <1>2, <1>9, <2>1, <2>2
  <2>4. rows[q].ordinal - rows[p].ordinal >= q - p
    BY <1>1, <2>3, RowsSpread
  <2> QED BY <1>5, <2>1, <2>2, <2>3, <2>4
<1>10. /\ 1 \in 1..l /\ BurnIn + 1 \in 1..l /\ l \in 1..l
  BY <1>2, <1>4
<1>11. PICK first \in Nat: first = w[1].ordinal
  BY <1>6, <1>10
<1>12. PICK train \in Nat: train = w[BurnIn + 1].ordinal
  BY <1>6, <1>10
<1>13. PICK last \in Nat: last = w[l].ordinal
  BY <1>6, <1>10
<1>14. train - first >= BurnIn
  <2>1. train - first >= (BurnIn + 1) - 1
    BY <1>2, <1>9, <1>10, <1>11, <1>12
  <2> QED BY <1>2, <2>1
<1>15. last - train >= (l - BurnIn) - 1
  <2>1. last - train >= l - (BurnIn + 1)
    BY <1>2, <1>4, <1>9, <1>10, <1>12, <1>13
  <2> QED BY <1>2, <2>1
<1>16. /\ l - BurnIn \in 1..Bptt /\ first <= train /\ train <= last
  BY <1>2, <1>4, <1>14, <1>15
<1>17. BurnIn = 0 => train = first
  BY <1>11, <1>12
<1>18. l - BurnIn = 1 => last = train
  <2>1. l - BurnIn = 1 => l = BurnIn + 1
    BY <1>2
  <2> QED BY <1>12, <1>13, <2>1
<1>19. WindowAdmitted(w)
  BY <1>5, <1>11, <1>12, <1>13, <1>14, <1>15, <1>16, <1>17, <1>18 DEF WindowAdmitted
<1> QED BY <1>3, <1>8, <1>19

(* What is said of every history, for any chunks retained.                  *)
LEMMA WindowsOk ==
    ASSUME NEW h, Chronicle(h), NEW ns, Retains(h, ns), NEW w \in Windows(h, ns)
    PROVE  Sound(w) /\ WindowAdmitted(w)
<1>1. PICK stream: \E b \in 1..(Len(StreamRows(h, ns, stream)) - BurnIn):
                      w = Window(StreamRows(h, ns, stream), b)
  BY DEF Windows
<1>2. PICK rows: rows = StreamRows(h, ns, stream)
  OBVIOUS
<1>3. RowsOk(rows)
  BY <1>2, StreamRowsOk
<1>4. PICK b \in 1..(Len(rows) - BurnIn): w = Window(rows, b)
  BY <1>1, <1>2
<1> QED BY <1>3, <1>4, WindowOk

-----------------------------------------------------------------------------
(* A set of numbers has one enumeration in order: what is retained is one   *)
(* of the retentions.                                                       *)
Enumerates(f, n, S) ==
    /\ f \in [1..n -> S] /\ S \in SUBSET Nat /\ (\A x \in S: \E i \in 1..n: f[i] = x)
    /\ \A i, j \in 1..n: i < j => f[i] < f[j]

LEMMA OneOrder ==
    ASSUME NEW n \in Nat, NEW S, NEW f, NEW g, Enumerates(f, n, S), Enumerates(g, n, S)
    PROVE  \A k \in 1..n: f[k] = g[k]
<1>1. /\ \A i \in 1..n: f[i] \in S /\ g[i] \in S
      /\ \A x \in S: x \in Nat /\ (\E i \in 1..n: f[i] = x) /\ \E i \in 1..n: g[i] = x
      /\ \A i, j \in 1..n: i < j => f[i] < f[j]
      /\ \A i, j \in 1..n: i < j => g[i] < g[j]
  BY DEF Enumerates
<1>2. PICK T: T = {k \in 1..n: f[k] # g[k]}
  OBVIOUS
<1>3. ASSUME T # {} PROVE FALSE
  <2>1. T \in SUBSET Nat
    BY <1>2
  <2>2. PICK k \in T: \A m \in T: k <= m
    BY <1>3, <2>1, NatMin
  <2>3. k \in 1..n /\ f[k] # g[k] /\ f[k] \in Nat /\ g[k] \in Nat
    BY <1>1, <1>2
  <2>4. \A j \in 1..n: j < k => f[j] = g[j]
    <3>1. ASSUME NEW j \in 1..n, j < k, f[j] # g[j] PROVE FALSE
      <4>1. j \in T
        BY <1>2, <3>1
      <4> QED BY <2>2, <2>3, <3>1, <4>1
    <3> QED BY <3>1
  <2>5. ASSUME f[k] < g[k] PROVE FALSE
    <3>1. PICK j \in 1..n: g[j] = f[k]
      BY <1>1, <2>3
    <3>2. j < k
      <4>1. ASSUME ~(j < k) PROVE FALSE
        <5>1. j = k \/ k < j
          BY <2>3, <4>1
        <5>2. j # k
          BY <2>5, <3>1, <2>3
        <5>3. g[k] < g[j]
          BY <1>1, <2>3, <5>1, <5>2
        <5> QED BY <2>3, <2>5, <3>1, <5>3
      <4> QED BY <4>1
    <3>3. f[j] = f[k] /\ f[j] < f[k]
      BY <1>1, <2>3, <2>4, <3>1, <3>2
    <3> QED BY <2>3, <3>3
  <2>6. ASSUME g[k] < f[k] PROVE FALSE
    <3>1. PICK j \in 1..n: f[j] = g[k]
      BY <1>1, <2>3
    <3>2. j < k
      <4>1. ASSUME ~(j < k) PROVE FALSE
        <5>1. j = k \/ k < j
          BY <2>3, <4>1
        <5>2. j # k
          BY <2>6, <3>1, <2>3
        <5>3. f[k] < f[j]
          BY <1>1, <2>3, <5>1, <5>2
        <5> QED BY <2>3, <2>6, <3>1, <5>3
      <4> QED BY <4>1
    <3>3. g[j] = g[k] /\ g[j] < g[k]
      BY <1>1, <2>3, <2>4, <3>1, <3>2
    <3> QED BY <2>3, <3>3
  <2> QED BY <2>3, <2>5, <2>6
<1> QED BY <1>2, <1>3

LEMMA InOrderIs ==
    ASSUME NEW m \in Nat, NEW ns \in Seq(1..m), Increasing(ns)
    PROVE  InOrder(Range(ns)) = ns
<1>1. PICK n \in Nat: n = Len(ns)
  OBVIOUS
<1>2. PICK S: S = Range(ns)
  OBVIOUS
<1>3. DOMAIN ns = 1..n /\ \A i \in 1..n: ns[i] \in 1..m
  BY <1>1
<1>4. S = {ns[i]: i \in 1..n}
  BY <1>2, <1>3 DEF Range
<1>5. S \in SUBSET Nat /\ \A i \in 1..n: ns[i] \in S
  BY <1>3, <1>4
<1>6. ns \in [1..n -> S]
  <2>1. ns = [i \in 1..n |-> ns[i]]
    BY <1>3
  <2> QED BY <1>5, <2>1
<1>7. \A i, j \in 1..n: i < j => ns[i] < ns[j]
  BY <1>1 DEF Increasing
<1>8. Enumerates(ns, n, S)
  BY <1>4, <1>5, <1>6, <1>7 DEF Enumerates
<1>9. ASSUME NEW f \in [1..n -> S], \A i, j \in 1..n: i < j => f[i] < f[j]
      PROVE  f \in Injection(1..n, S)
  <2>1. ASSUME NEW i \in 1..n, NEW j \in 1..n, f[i] = f[j] PROVE i = j
    <3>1. f[i] \in Nat /\ f[j] \in Nat
      BY <1>5, <1>9
    <3>2. ~(f[i] < f[j]) /\ ~(f[j] < f[i])
      BY <2>1, <3>1
    <3> QED BY <1>9, <3>2
  <2> QED BY <2>1 DEF Injection, IsInjective
<1>10. IsFiniteSet(1..n) /\ Cardinality(1..n) = n
  BY FS_Interval
<1>11. ns \in Surjection(1..n, S)
  BY <1>4, <1>6 DEF Surjection
<1>12. IsFiniteSet(S) /\ Cardinality(S) = n
  BY <1>6, <1>7, <1>9, <1>10, <1>11, FS_Surjection
<1>13. PICK f: f = InOrder(S)
  OBVIOUS
<1>14. f \in [1..n -> S] /\ \A i, j \in DOMAIN f: i < j => f[i] < f[j]
  <2>1. f = CHOOSE g \in [1..n -> S]: \A i, j \in DOMAIN g: i < j => g[i] < g[j]
    BY <1>12, <1>13 DEF InOrder
  <2>2. \A i, j \in DOMAIN ns: i < j => ns[i] < ns[j]
    BY <1>3, <1>7
  <2> QED BY <1>6, <2>1, <2>2
<1>15. \A i, j \in 1..n: i < j => f[i] < f[j]
  BY <1>14
<1>16. f \in Surjection(1..n, S)
  BY <1>9, <1>10, <1>12, <1>14, <1>15, FS_Injection
<1>17. Enumerates(f, n, S)
  BY <1>5, <1>14, <1>15, <1>16 DEF Enumerates, Surjection
<1>18. \A k \in 1..n: f[k] = ns[k]
  BY <1>8, <1>17, OneOrder
<1>19. f = ns
  BY <1>6, <1>14, <1>18
<1> QED BY <1>2, <1>13, <1>19

LEMMA RetainedDrawn ==
    ASSUME NEW ns \in Seq(ChunkNumbers), Increasing(ns)
    PROVE  ns \in DrawnSoundly
<1>1. MaxSeq \in Nat /\ ChunkNumbers = 1..MaxSeq
  BY IntakeAssumption DEF ChunkNumbers
<1>2. ns \in Retentions
  <2>1. InOrder(Range(ns)) = ns
    BY <1>1, InOrderIs
  <2>2. Range(ns) \in SUBSET ChunkNumbers
    BY DEF Range
  <2> QED BY <2>1, <2>2 DEF Retentions
<1>3. ASSUME NEW h \in Histories(MaxSeq), NEW w \in Windows(h, ns)
      PROVE  Sound(w) /\ WindowAdmitted(w)
  <2>1. Chronicle(h) /\ Len(h) = MaxSeq
    BY <1>1, HistoriesOk
  <2>2. Retains(h, ns)
    BY <1>1, <2>1 DEF Retains
  <2> QED BY <2>1, <2>2, WindowsOk
<1> QED BY <1>2, <1>3 DEF DrawnSoundly

-----------------------------------------------------------------------------
(* The theorems.                                                            *)

(* The invariant holds in every state.                                     *)
THEOREM Invariance == Spec => []IInv
<1>1. Init => IInv
  BY InitIInv
<1>2. IInv /\ [Next]_vars => IInv'
  BY NextIInv
<1> QED BY <1>1, <1>2, PTL DEF Spec

(* Every variable has its type, a step of the fetch has what it presumes,  *)
(* and the replay keeps its two bounds (TeacherReplay._cost, max_chunks).  *)
THEOREM TypeCorrect == Spec => []TypeOK
<1>1. ASSUME IInv PROVE TypeOK
  <2>1. ServerOk(server) /\ ReplayOk(replay, ledger, server) /\ client \in Clients /\ FetchInv
        /\ ControlInv
    BY <1>1 DEF IInv
  <2>2. server.stored \cap server.lost = {} /\ server.stored \cup server.lost \subseteq Sealed
        /\ server.leases \subseteq SUBSET Sealed /\ server.policy \in Policies
    BY <2>1, ServerFields DEF Sealed
  <2>3. Cost(replay.chunks) <= ReplayBytes /\ Len(replay.chunks) <= ReplayChunks
        /\ replay \in Replays
    BY <2>1, CostHere DEF ReplayOk, KeptOk
  <2>4. /\ fetch \in Fetches
        /\ pc \in {"lease", "download", "release", "abort"} => fetch.admitted # <<>>
        /\ pc = "download" => fetch.got < Len(fetch.admitted)
        /\ pc \in {"release", "ingest"} => fetch.got = Len(fetch.admitted)
    BY <2>1 DEF FetchInv
  <2>5. pc \in {"idle", "page", "lease", "download", "release", "abort", "ingest", "off"}
        /\ runs \in 1..MaxRuns /\ leaked \in BOOLEAN /\ fault \in BOOLEAN
    BY <2>1 DEF ControlInv
  <2> QED BY <2>1, <2>2, <2>3, <2>4, <2>5 DEF TypeOK, Fetches, Clients
<1> QED BY <1>1, Invariance, PTL

(* Every number below the cursor has exactly one disposition: retained,    *)
(* evicted or unavailable; over failed fetches, restarts, retries, and     *)
(* evictions of any size (TeacherReplay.admit).                            *)
THEOREM DisposesExactlyOnce == Spec => []DisposedOnce
<1>1. ASSUME IInv PROVE DisposedOnce
  <2>1. KeptOk(replay.chunks, replay.cursor, server.chunks) /\ Disposed(replay, ledger)
    BY <1>1 DEF IInv, ReplayOk
  <2>2. PICK l \in Nat: l = Len(server.chunks)
    BY <1>1, ServerIs DEF IInv
  <2>3. PICK ns \in Seq(1..l): ns = replay.chunks /\ Increasing(ns)
    BY <2>1, <2>2 DEF KeptOk
  <2>4. IsInjective(ns)
    <3>1. PICK n \in Nat: n = Len(ns)
      OBVIOUS
    <3>2. DOMAIN ns = 1..n /\ \A i \in 1..n: ns[i] \in 1..l
      BY <3>1
    <3>3. ASSUME NEW i \in 1..n, NEW j \in 1..n, ns[i] = ns[j] PROVE i = j
      <4>1. ~(ns[i] < ns[j]) /\ ~(ns[j] < ns[i])
        BY <3>2, <3>3
      <4> QED BY <2>3, <3>1, <4>1 DEF Increasing
    <3> QED BY <3>2, <3>3 DEF IsInjective
  <2> QED BY <2>1, <2>3, <2>4 DEF DisposedOnce, Disposed
<1> QED BY <1>1, Invariance, PTL

(* A chunk is recorded as unavailable only if the producer has lost it for *)
(* good, whatever it stored, dropped or retired between two requests       *)
(* (DistillationClient.fetch).                                             *)
THEOREM NothingIsSkipped == Spec => []NothingSkipped
<1>1. ASSUME IInv PROVE NothingSkipped
  BY <1>1 DEF IInv, ReplayOk, NothingSkipped
<1> QED BY <1>1, Invariance, PTL

(* A coherent producer is never refused: not its manifests and pages, not  *)
(* the proposals made of them, not the snapshots taken in between.         *)
THEOREM IsNeverRefused == Spec => []NeverRefused
<1>1. ASSUME IInv PROVE NeverRefused
  BY <1>1 DEF IInv, ControlInv, NeverRefused
<1> QED BY <1>1, Invariance, PTL

(* No lease outlives its fetch, unless a reply or the process was lost.    *)
THEOREM PinsAreReleased == Spec => []PinsReleased
<1>1. ASSUME IInv PROVE PinsReleased
  <2>1. ~leaked => server.leases \subseteq IF pc \in {"download", "release", "abort"}
                                           THEN {Pinned} ELSE {}
    BY <1>1 DEF IInv, LeaseInv
  <2> QED BY <2>1 DEF PinsReleased
<1> QED BY <1>1, Invariance, PTL

(* Once everything is settled, every fetch that is ingested moves the      *)
(* cursor, for pages and transfers of any size.                            *)
THEOREM FetchesAdvance == Spec => []FetchAdvances
<1>1. ASSUME IInv PROVE FetchAdvances
  <2>1. ASSUME pc = "ingest", client.manifest.resolved = client.manifest.production,
               client.cursor # client.manifest.resolved
        PROVE  Proposal.next > client.cursor
    <3>1. ServerOk(server) /\ fetch \in Fetches /\ client \in Clients
          /\ client.cursor <= client.manifest.resolved
          /\ FetchOk(fetch, client, server)
      BY <1>1, <2>1 DEF IInv, FetchInv, ClientOk
    <3>2. PICK c: c = client.cursor
      OBVIOUS
    <3>3. PICK top: top = client.manifest.resolved
      OBVIOUS
    <3>4. PICK ns: ns = fetch.admitted
      OBVIOUS
    <3>5. PICK e: e = Reached(c)
      OBVIOUS
    <3>6. PICK tail: tail = TailNow
      OBVIOUS
    <3>7. Outcome(c, ns, e, top, tail) /\ Proposed(Proposal, c, ns, e, top, tail)
      BY <3>1, <3>2, <3>3, <3>4, <3>5, <3>6, ProposalIs
    <3>8. /\ c \in Nat /\ top \in Nat /\ e \in Nat /\ c <= e /\ e <= top /\ tail \in BOOLEAN
          /\ Proposal.next = IF tail THEN top ELSE e
      BY <3>7, OutcomeIs DEF Outcome, Proposed
    <3>9. c < top
      BY <2>1, <3>1, <3>2, <3>3, <3>8
    <3>10. CASE ns = <<>>
      <4>1. fetch.tail
        <5>1. fetch.tail \in BOOLEAN
          BY <3>1 DEF Fetches
        <5>2. ~fetch.tail => client.manifest.resolved < client.manifest.production
          BY <3>1, <3>4, <3>10 DEF FetchOk
        <5> QED BY <2>1, <3>3, <3>8, <5>1, <5>2
      <4>2. e = c
        BY <3>7, <3>10 DEF Outcome, EndOf
      <4>3. tail
        BY <3>2, <3>3, <3>5, <3>6, <3>8, <3>9, <4>1, <4>2 DEF TailNow
      <4> QED BY <3>2, <3>8, <3>9, <4>3
    <3>11. CASE ns # <<>>
      <4>1. Len(ns) \in 1..Len(ns) /\ e = ns[Len(ns)]
        BY <3>7, <3>11 DEF Outcome, EndOf
      <4>2. c < e
        BY <3>7, <4>1 DEF Outcome
      <4> QED BY <3>2, <3>8, <3>9, <4>2
    <3> QED BY <3>10, <3>11
  <2> QED BY <2>1 DEF FetchAdvances
<1> QED BY <1>1, Invariance, PTL
(* Whatever was fetched, lost, evicted or restored, windows are drawn from *)
(* exactly what the replay retains, and in every history that a producer   *)
(* can seal, for every number of chunks, slots and rows, every burn-in and *)
(* every length of training, each of them carries recurrent state as the   *)
(* stream did and is one that a snapshot can be loaded with                *)
(* (distillation_replay.py _boundary, distillation_sampling.py _refresh).  *)
THEOREM WindowsAreSound == Spec => []WindowsSound
<1>1. ASSUME IInv PROVE WindowsSound
  <2>1. ASSUME pc = "idle"
        PROVE  Refreshed(replay).chunks = replay.chunks /\ replay.chunks \in DrawnSoundly
    <3>1. ReplayOk(replay, ledger, server) /\ IndexOk(sampler, replay)
      BY <1>1, <2>1 DEF IInv
    <3>2. Refreshed(replay).chunks = replay.chunks
      BY <3>1, RefreshedIs DEF IndexExact
    <3>3. Increasing(replay.chunks) /\ replay.chunks \in Seq(ChunkNumbers)
      BY <3>1, ReplayFields DEF ReplayOk, KeptOk
    <3> QED BY <3>2, <3>3, RetainedDrawn
  <2> QED BY <2>1 DEF WindowsSound
<1> QED BY <1>1, Invariance, PTL
=============================================================================
