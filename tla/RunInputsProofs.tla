-------------------------- MODULE RunInputsProofs --------------------------
(***************************************************************************)
(* Proofs about what a run is made of, for any curators, roots, manifests, *)
(* package directories and edits.                                          *)
(***************************************************************************)
EXTENDS RunInputs, SequenceTheorems, WellFoundedInduction, TLAPS

----------------------------------------------------------------------------
(* Recursive functions. The library's induction schemes take an operator,  *)
(* so here is one over a set, and what it shows of functions.              *)

(* Induction up to n, over a set rather than a predicate.                  *)
LEMMA UpTo ==
  ASSUME NEW n \in Nat, NEW G, 0 \in G, \A k \in 0 .. n - 1 : k \in G => k + 1 \in G
  PROVE  \A k \in 0 .. n : k \in G
<1> SUFFICES ASSUME NEW m \in 0 .. n, m \notin G
             PROVE  FALSE
  OBVIOUS
<1> DEFINE T == {k \in 0 .. n : k \notin G}
<1>1. T \subseteq Nat /\ T # {}
  OBVIOUS
<1>2. \E x \in T : \A y \in T : <<y, x>> \notin OpToRel(<, Nat)
  <2> HIDE DEF T
  <2> QED BY <1>1, NatLessThanWellFounded, WFMin
<1>3. PICK x \in T : \A y \in T : ~(y < x)
  BY <1>1, <1>2 DEF OpToRel
<1>4. x - 1 \in 0 .. n - 1 /\ x - 1 \notin T
  BY <1>3
<1> QED BY <1>3, <1>4

(* f is what n steps make of a.                                            *)
Iterates(f, n, S, a, step) ==
  f \in [0 .. n -> S] /\ f[0] = a /\ \A i \in 1 .. n : f[i] = step[<<i, f[i - 1]>>]

(* A function defined by primitive recursion exists.                       *)
LEMMA Recursion ==
  ASSUME NEW n \in Nat, NEW S, NEW a \in S, NEW step \in [(1 .. n) \X S -> S]
  PROVE  \E f : Iterates(f, n, S, a, step)
<1> DEFINE Good(k, f) == f[0] = a /\ \A i \in 1 .. k : f[i] = step[<<i, f[i - 1]>>]
           G == {k \in 0 .. n : \E f \in [0 .. k -> S] : Good(k, f)}
<1>1. 0 \in G
  <2>1. [i \in 0 .. 0 |-> a] \in [0 .. 0 -> S] /\ Good(0, [i \in 0 .. 0 |-> a])
    OBVIOUS
  <2>2. \E f \in [0 .. 0 -> S] : Good(0, f)
    BY <2>1, Zenon
  <2> QED BY <2>2
<1>2. ASSUME NEW k \in 0 .. n - 1, k \in G
      PROVE  k + 1 \in G
  <2>1. PICK f \in [0 .. k -> S] : Good(k, f)
    BY <1>2
  <2> DEFINE g == [i \in 0 .. k + 1 |-> IF i = k + 1 THEN step[<<k + 1, f[k]>>] ELSE f[i]]
  <2>2. step[<<k + 1, f[k]>>] \in S
    OBVIOUS
  <2>3. g \in [0 .. k + 1 -> S]
    BY <2>2
  <2>4. Good(k + 1, g)
    <3>1. g[0] = a
      BY <2>1
    <3>2. ASSUME NEW i \in 1 .. k + 1
          PROVE  g[i] = step[<<i, g[i - 1]>>]
      <4>1. CASE i = k + 1
        <5>1. g[k + 1] = step[<<k + 1, f[k]>>] /\ g[k] = f[k]
          OBVIOUS
        <5>2. i - 1 = k
          BY <4>1
        <5> QED BY <4>1, <5>1, <5>2
      <4>2. CASE i \in 1 .. k
        <5>1. g[i] = f[i] /\ g[i - 1] = f[i - 1]
          BY <4>2
        <5> QED BY <2>1, <4>2, <5>1
      <4> QED BY <4>1, <4>2
    <3> QED BY <3>1, <3>2
  <2>5. \E h \in [0 .. k + 1 -> S] : Good(k + 1, h)
    <3> HIDE DEF g, Good
    <3> QED BY <2>3, <2>4
  <2> QED BY <2>5
<1>3. n \in G
  <2> HIDE DEF G
  <2> QED BY <1>1, <1>2, UpTo
<1>4. PICK f \in [0 .. n -> S] : Good(n, f)
  BY <1>3
<1>5. Iterates(f, n, S, a, step)
  BY <1>4 DEF Iterates
<1> QED BY <1>5

----------------------------------------------------------------------------
(* What a manifest allots.                                                 *)

(* The sum of a manifest's counts, as a table of its partial sums.         *)
LEMMA Sums ==
  ASSUME NEW s, Len(s) \in Nat, \A i \in 1 .. Len(s) : s[i].count \in Nat
  PROVE  \E sum \in [0 .. Len(s) -> Nat] :
           /\ sum[0] = 0 /\ \A i \in 1 .. Len(s) : sum[i] = sum[i - 1] + s[i].count
           /\ total_count(s) = sum[Len(s)]
<1> DEFINE n == Len(s)
           body(f) == [i \in 0 .. n |-> IF i = 0 THEN 0 ELSE f[i - 1] + s[i].count]
           sum == CHOOSE f : f = body(f)
<1>1. \E f : f = body(f)
  <2> DEFINE step == [p \in (1 .. n) \X Nat |-> p[2] + s[p[1]].count]
  <2>1. step \in [(1 .. n) \X Nat -> Nat] /\ \A i \in 1 .. n, x \in Nat : step[<<i, x>>] = x + s[i].count
    OBVIOUS
  <2> HIDE DEF step
  <2>2. PICK f : Iterates(f, n, Nat, 0, step)
    <3>1. n \in Nat /\ 0 \in Nat
      OBVIOUS
    <3> HIDE DEF n, body, sum
    <3> QED BY <2>1, <3>1, Recursion
  <2>3. ASSUME NEW i \in 1 .. n
        PROVE  f[i - 1] \in Nat /\ f[i] = f[i - 1] + s[i].count
    <3>1. f[i - 1] \in Nat
      BY <2>2 DEF Iterates
    <3> QED BY <2>1, <2>2, <3>1 DEF Iterates
  <2>4. f = body(f)
    BY <2>2, <2>3 DEF Iterates
  <2> QED BY <2>4
<1>2. sum = body(sum)
  <2> HIDE DEF body
  <2> QED BY <1>1, Zenon
<1>3. total_count(s) = sum[n]
  BY Zenon DEF total_count
<1> HIDE DEF sum
<1>4. sum[0] = 0 /\ \A i \in 1 .. n : sum[i] = sum[i - 1] + s[i].count
  BY <1>2
<1>5. \A k \in 0 .. n : sum[k] \in Nat
  <2> DEFINE G == {i \in 0 .. n : sum[i] \in Nat}
  <2>1. 0 \in G /\ \A k \in 0 .. n - 1 : k \in G => k + 1 \in G
    BY <1>4, SMTT(20)
  <2>2. n \in Nat
    OBVIOUS
  <2>3. \A k \in 0 .. n : k \in G
    <3> HIDE DEF G, n
    <3> QED BY <2>1, <2>2, UpTo
  <2> QED BY <2>3
<1>6. sum \in [0 .. n -> Nat]
  BY <1>2, <1>5
<1> QED BY <1>3, <1>4, <1>6

(* What FlattenSeq makes of a sequence of sequences, prefix by prefix.     *)
LEMMA Flattened ==
  ASSUME NEW T, NEW seqs \in Seq(Seq(T))
  PROVE  \E g \in [0 .. Len(seqs) -> Seq(T)] :
           /\ g[0] = << >> /\ \A i \in 1 .. Len(seqs) : g[i] = g[i - 1] \o seqs[i]
           /\ FlattenSeq(seqs) = g[Len(seqs)]
<1> DEFINE n == Len(seqs)
           body(f) == [i \in 1 .. n |-> IF i = 1 THEN seqs[i] ELSE f[i - 1] \o seqs[i]]
           flatten == CHOOSE f : f = body(f)
           step == [p \in (1 .. n) \X Seq(T) |-> p[2] \o seqs[p[1]]]
<1>1. n \in Nat /\ << >> \in Seq(T) /\ \A i \in 1 .. n : seqs[i] \in Seq(T)
  OBVIOUS
<1>2. /\ step \in [(1 .. n) \X Seq(T) -> Seq(T)]
      /\ \A i \in 1 .. n, x \in Seq(T) : step[<<i, x>>] = x \o seqs[i]
  BY <1>1, ConcatProperties
<1> HIDE DEF step
<1>3. PICK g : Iterates(g, n, Seq(T), << >>, step)
  <2> HIDE DEF n
  <2> QED BY <1>1, <1>2, Recursion
<1>4. /\ g \in [0 .. n -> Seq(T)] /\ g[0] = << >>
      /\ \A i \in 1 .. n : g[i - 1] \in Seq(T) /\ g[i] = g[i - 1] \o seqs[i]
  <2>1. g \in [0 .. n -> Seq(T)] /\ g[0] = << >>
    BY <1>3 DEF Iterates
  <2>2. ASSUME NEW i \in 1 .. n
        PROVE  g[i - 1] \in Seq(T) /\ g[i] = g[i - 1] \o seqs[i]
    <3>1. i - 1 \in 0 .. n
      BY <1>1
    <3>2. g[i - 1] \in Seq(T)
      BY <2>1, <3>1
    <3> QED BY <1>2, <1>3, <3>2 DEF Iterates
  <2> QED BY <2>1, <2>2
<1>5. flatten = body(flatten)
  <2> DEFINE h == [i \in 1 .. n |-> g[i]]
  <2>1. ASSUME NEW i \in 1 .. n
        PROVE  g[i] = IF i = 1 THEN seqs[i] ELSE h[i - 1] \o seqs[i]
    <3>1. CASE i = 1
      <4>1. 1 \in 1 .. n /\ 1 - 1 = 0
        BY <1>1, <3>1
      <4>2. g[1] = << >> \o seqs[1] /\ seqs[1] \in Seq(T)
        BY <1>1, <1>4, <4>1
      <4> QED BY <3>1, <4>2, ConcatEmptySeq
    <3>2. CASE i # 1
      <4>1. i - 1 \in 1 .. n
        BY <1>1, <3>2
      <4>2. h[i - 1] = g[i - 1]
        BY <4>1
      <4> QED BY <1>4, <3>2, <4>2
    <3> QED BY <3>1, <3>2
  <2>2. h = body(h)
    BY <2>1
  <2>3. \E f : f = body(f)
    <3> HIDE DEF h, body
    <3> QED BY <2>2
  <2> HIDE DEF body
  <2> QED BY <2>3, Zenon
<1>6. n # 0 => FlattenSeq(seqs) = flatten[n]
  BY Zenon DEF FlattenSeq
<1> HIDE DEF flatten
<1>7. \A i \in 1 .. n : flatten[i] = g[i]
  <2> DEFINE G == {i \in 0 .. n : i # 0 => flatten[i] = g[i]}
  <2>1. 0 \in G
    BY <1>1
  <2>2. ASSUME NEW k \in 0 .. n - 1, k \in G
        PROVE  k + 1 \in G
    <3>1. CASE k = 0
      <4>1. 1 \in 1 .. n /\ 1 - 1 = 0
        BY <1>1, <3>1
      <4>2. flatten[1] = seqs[1]
        BY <1>5, <4>1
      <4>3. g[1] = << >> \o seqs[1] /\ seqs[1] \in Seq(T)
        BY <1>1, <1>4, <4>1
      <4> QED BY <3>1, <4>1, <4>2, <4>3, ConcatEmptySeq
    <3>2. CASE k # 0
      <4>1. k + 1 \in 1 .. n /\ (k + 1) - 1 = k /\ k + 1 # 1 /\ k + 1 \in 0 .. n
        BY <1>1, <3>2
      <4>2. flatten[k] = g[k]
        BY <2>2, <3>2
      <4>3. flatten[k + 1] = flatten[(k + 1) - 1] \o seqs[k + 1]
        <5> HIDE DEF n
        <5> QED BY <1>5, <4>1
      <4>4. g[k + 1] = g[(k + 1) - 1] \o seqs[k + 1]
        BY <1>4, <4>1
      <4> QED BY <4>1, <4>2, <4>3, <4>4
    <3> QED BY <3>1, <3>2
  <2>3. \A k \in 0 .. n : k \in G
    <3> HIDE DEF G, n
    <3> QED BY <1>1, <2>1, <2>2, UpTo
  <2> QED BY <2>3
<1>8. FlattenSeq(seqs) = g[n]
  <2>1. CASE n = 0
    <3>1. FlattenSeq(seqs) = seqs /\ seqs = << >>
      BY <2>1 DEF FlattenSeq
    <3> QED BY <1>4, <2>1, <3>1
  <2>2. CASE n # 0
    BY <1>1, <1>6, <1>7, <2>2
  <2> QED BY <2>1, <2>2
<1> QED BY <1>4, <1>8

(* What a valid entry allots: as many seeds as it counts, all of them its. *)
LEMMA EntryAllots ==
  ASSUME NEW e \in SplitEntry, valid_entry(e)
  PROVE  /\ e.count \in Nat /\ resolved_seeds(e) \in Seq(Int) /\ Len(resolved_seeds(e)) = e.count
         /\ \A j \in 1 .. e.count : Allots(e, <<e.scenario_id, resolved_seeds(e)[j]>>)
<1>1. e.count \in Nat
  BY DEF SplitEntry, valid_entry
<1>2. CASE e.seeds # None
  <2>1. e.seeds \in Seq(Int) /\ resolved_seeds(e) = e.seeds /\ Len(e.seeds) = e.count
    BY <1>2 DEF SplitEntry, valid_entry, resolved_seeds
  <2>2. \A j \in 1 .. e.count : e.seeds[j] \in Range(e.seeds)
    BY <2>1 DEF Range
  <2> QED BY <1>1, <1>2, <2>1, <2>2 DEF Allots
<1>3. CASE e.seeds = None
  <2> DEFINE first == e.seed_range[1]
             last == e.seed_range[2]
  <2>1. e.seed_range \in Seq(Int) /\ Len(e.seed_range) = 2 /\ e.count <= last - first + 1
    BY <1>3 DEF SplitEntry, valid_entry
  <2>2. first \in Int /\ last \in Int
    BY <2>1
  <2>3. resolved_seeds(e) = [i \in 1 .. e.count |-> first + i - 1]
    BY <1>3 DEF resolved_seeds
  <2> HIDE DEF first, last
  <2>4. resolved_seeds(e) \in Seq(Int) /\ Len(resolved_seeds(e)) = e.count
    BY <1>1, <2>2, <2>3
  <2>5. \A j \in 1 .. e.count : resolved_seeds(e)[j] \in first .. last
    BY <1>1, <2>1, <2>2, <2>3
  <2> QED BY <1>1, <1>3, <2>4, <2>5 DEF Allots, first, last
<1> QED BY <1>2, <1>3

(* iter_seeded and total_count agree, and every allocation is an entry's.  *)
LEMMA SplitAllots ==
  ASSUME NEW s \in Seq(SplitEntry), \A i \in DOMAIN s : valid_entry(s[i])
  PROVE  /\ iter_seeded(s) \in Seq(STRING \X Int) /\ Len(iter_seeded(s)) = total_count(s)
         /\ \A k \in 1 .. Len(iter_seeded(s)) : \E i \in DOMAIN s : Allots(s[i], iter_seeded(s)[k])
<1> DEFINE Id == STRING \X Int
           n == Len(s)
           ids(i) == [j \in DOMAIN resolved_seeds(s[i]) |-> <<s[i].scenario_id, resolved_seeds(s[i])[j]>>]
           seqs == [i \in DOMAIN s |-> ids(i)]
<1>1. n \in Nat /\ DOMAIN s = 1 .. n /\ \A i \in 1 .. n : s[i] \in SplitEntry /\ valid_entry(s[i])
  OBVIOUS
<1>2. ASSUME NEW i \in 1 .. n
      PROVE  /\ s[i].count \in Nat /\ ids(i) \in Seq(Id) /\ Len(ids(i)) = s[i].count
             /\ \A j \in 1 .. Len(ids(i)) : Allots(s[i], ids(i)[j])
  <2>1. /\ s[i].count \in Nat /\ resolved_seeds(s[i]) \in Seq(Int)
        /\ Len(resolved_seeds(s[i])) = s[i].count
        /\ \A j \in 1 .. s[i].count : Allots(s[i], <<s[i].scenario_id, resolved_seeds(s[i])[j]>>)
    BY <1>1, EntryAllots
  <2>2. s[i].scenario_id \in STRING /\ DOMAIN resolved_seeds(s[i]) = 1 .. s[i].count
    BY <1>1, <2>1 DEF SplitEntry
  <2>3. \A j \in 1 .. s[i].count : resolved_seeds(s[i])[j] \in Int
    BY <2>1
  <2>4. ids(i) \in Seq(Id) /\ Len(ids(i)) = s[i].count
    BY <2>1, <2>2, <2>3, SMTT(20)
  <2> QED BY <2>1, <2>2, <2>4
<1> HIDE DEF ids
<1>3. seqs \in Seq(Seq(Id)) /\ Len(seqs) = n /\ \A i \in 1 .. n : seqs[i] = ids(i)
  BY <1>1, <1>2
<1>4. iter_seeded(s) = FlattenSeq(seqs)
  BY DEF iter_seeded, ids
<1> HIDE DEF seqs
<1>5. PICK g \in [0 .. n -> Seq(Id)] :
        /\ g[0] = << >> /\ \A i \in 1 .. n : g[i] = g[i - 1] \o seqs[i]
        /\ FlattenSeq(seqs) = g[n]
  <2> HIDE DEF Id
  <2>1. \E g \in [0 .. Len(seqs) -> Seq(Id)] :
          /\ g[0] = << >> /\ \A i \in 1 .. Len(seqs) : g[i] = g[i - 1] \o seqs[i]
          /\ FlattenSeq(seqs) = g[Len(seqs)]
    BY <1>3, Flattened
  <2> QED BY <1>3, <2>1
<1>6. PICK sum \in [0 .. n -> Nat] :
        /\ sum[0] = 0 /\ \A i \in 1 .. n : sum[i] = sum[i - 1] + s[i].count
        /\ total_count(s) = sum[n]
  BY <1>1, <1>2, Sums
<1> DEFINE Allotted(t) == \A k \in 1 .. Len(t) : \E i \in 1 .. n : Allots(s[i], t[k])
           G == {i \in 0 .. n : Len(g[i]) = sum[i] /\ Allotted(g[i])}
<1>7. 0 \in G
  BY <1>1, <1>5, <1>6
<1>8. ASSUME NEW k \in 0 .. n - 1, k \in G
      PROVE  k + 1 \in G
  <2> HIDE DEF n, Id
  <2>1. k + 1 \in 1 .. n /\ k + 1 \in 0 .. n /\ k \in 0 .. n /\ (k + 1) - 1 = k
    BY <1>1
  <2>2. /\ g[k] \in Seq(Id) /\ seqs[k + 1] \in Seq(Id) /\ g[k + 1] = g[k] \o seqs[k + 1]
        /\ sum[k] \in Nat /\ sum[k + 1] = sum[k] + s[k + 1].count
    BY <1>2, <1>3, <1>5, <1>6, <2>1
  <2>3. Len(g[k]) = sum[k] /\ Len(seqs[k + 1]) = s[k + 1].count
    BY <1>2, <1>3, <1>8, <2>1
  <2>4. \A j \in 1 .. Len(seqs[k + 1]) : Allots(s[k + 1], seqs[k + 1][j])
    BY <1>2, <1>3, <2>1
  <2> DEFINE a == g[k]
             b == seqs[k + 1]
             c == g[k + 1]
  <2>5. Len(a) \in Nat /\ Len(b) \in Nat
    BY <2>2
  <2>6. /\ Len(c) = Len(a) + Len(b)
        /\ \A j \in 1 .. Len(a) + Len(b) : c[j] = IF j <= Len(a) THEN a[j] ELSE b[j - Len(a)]
    <3>1. a \in Seq(Id) /\ b \in Seq(Id) /\ c = a \o b
      BY <2>2
    <3> HIDE DEF a, b, c
    <3> QED BY <3>1, ConcatProperties
  <2>7. \A j \in 1 .. Len(a) : \E i \in 1 .. n : Allots(s[i], a[j])
    BY <1>8
  <2> HIDE DEF a, b, c
  <2>8. ASSUME NEW j \in 1 .. Len(c)
        PROVE  \E i \in 1 .. n : Allots(s[i], c[j])
    <3>1. CASE j <= Len(a)
      <4>1. j \in 1 .. Len(a) /\ c[j] = a[j]
        BY <2>5, <2>6, <3>1
      <4> QED BY <2>7, <4>1
    <3>2. CASE ~(j <= Len(a))
      <4>1. j - Len(a) \in 1 .. Len(b) /\ c[j] = b[j - Len(a)]
        BY <2>5, <2>6, <3>2
      <4> QED BY <2>1, <2>4, <4>1 DEF b
    <3> QED BY <3>1, <3>2
  <2> QED BY <2>1, <2>2, <2>3, <2>6, <2>8 DEF a, b, c
<1>9. n \in G
  <2> HIDE DEF G, n
  <2>1. \A k \in 0 .. n : k \in G
    BY <1>1, <1>7, <1>8, UpTo
  <2> QED BY <1>1, <2>1
<1>10. iter_seeded(s) = g[n] /\ g[n] \in Seq(Id) /\ Len(g[n]) = total_count(s) /\ Allotted(g[n])
  BY <1>1, <1>4, <1>5, <1>6, <1>9
<1> HIDE DEF n, G
<1> QED BY <1>1, <1>10

----------------------------------------------------------------------------
(* The invariant.                                                          *)

(* Types, and what a curator that is at work knows of its manifest.        *)
CuratorsOK ==
  /\ root \in [Curators -> Roots]
  /\ curating \in [Curators -> {"idle", "generating", "writing", "done", "raised"}]
  /\ tasks \in [Curators -> Seq(Task)]
  /\ file \in [Roots -> [Ids -> Snapshot]]
  /\ \A m \in Curators :
       /\ spec[m] \in Manifests[m]
       /\ curating[m] = "idle" => Len(tasks[m]) = 0
       /\ curating[m] \in {"generating", "writing"} =>
            valid_split(spec[m]) /\ Len(tasks[m]) + 1 \in DOMAIN iter_seeded(spec[m])

(* A snapshot file is below the root of the curator that wrote it, and     *)
(* every task that has been produced has one.                              *)
FilesAtHome ==
  /\ \A r \in Roots, i \in Ids : file[r][i].state # "none" => root[file[r][i].by] = r
  /\ \A m \in Curators : \A k \in 1 .. Len(tasks[m]) :
       file[root[m]][tasks[m][k].id].state # "none"

(* A curator's tasks are the first of its split's allocations, in order,   *)
(* and all of them when it is done.                                        *)
Allocated ==
  \A m \in Curators :
    /\ curating[m] \in {"generating", "writing", "done"} => valid_split(spec[m])
    /\ \A k \in 1 .. Len(tasks[m]) :
         k \in DOMAIN iter_seeded(spec[m]) /\ tasks[m][k].id = iter_seeded(spec[m])[k]
    /\ curating[m] = "done" => Len(tasks[m]) + 1 \notin DOMAIN iter_seeded(spec[m])

(* A file is torn by a curator that is writing it or has failed.           *)
TornByWriter ==
  \A r \in Roots, i \in Ids : file[r][i].state = "torn" =>
    LET n == file[r][i].by
    IN  curating[n] = "raised" \/ (curating[n] = "writing" /\ i = Due(n))

Draft == [path: {"k", "knowledge/k"}, knowledge: Texts \cup {Missing},
          tools: Texts \cup {Missing}, declared: SUBSET Capabilities,
          root: Dirs \cup {Missing}]

AuthorOK ==
  /\ disk \in [Dirs -> [Files -> Texts \cup {Missing}]]
  /\ manifest \in [Dirs -> Package \cup {Torn}]
  /\ saving \in [at: {"idle", "knowledge", "tools", "opening", "writing"},
                 dir: Dirs \cup {Missing}, package: Draft \cup {Missing}]
  /\ saving.at # "idle" => saving.dir \in Dirs /\ saving.package \in Draft
  /\ saving.at = "tools" => saving.package.knowledge \in Texts
  /\ saving.at \in {"opening", "writing"} => saving.package \in Package
  /\ edited \subseteq Files /\ edits \in 0 .. MaxEdits /\ saves \in 0 .. MaxSaves

(* The loader's digests are the files', unless these were edited later.    *)
LoaderOK ==
  /\ loading \in [at: {"idle", "knowledge", "tools", "loaded", "raised"},
                  dir: Dirs \cup {Missing}, package: Package \cup {Missing},
                  knowledge: Texts \cup {Missing}]
  /\ loading.at \in {"knowledge", "tools", "loaded"} =>
       loading.dir \in Dirs /\ loading.package \in Package
  /\ (loading.at \in {"tools", "loaded"} /\ "knowledge/k" \notin edited) =>
       disk[loading.dir]["knowledge/k"] = loading.knowledge
  /\ loading.at = "loaded" => loading.knowledge = loading.package.knowledge
  /\ (loading.at = "loaded" /\ "mcp/server" \notin edited) =>
       disk[loading.dir]["mcp/server"] = loading.package.tools

Stages == {"none", "resolving", "reading", "starting", "packaging", "building",
           "prompting", "running", "environment_error"}
Packaged == {"building", "prompting", "running"}
Started == {"starting", "packaging"} \cup Packaged

RunOK ==
  /\ run \in [at: Stages, task: Task \cup {None}, snapshot_root: Roots \cup {None},
              package_root: Dirs \cup {None}, path: Roots \cup {None},
              snapshot: Snapshot \cup {None}, package_dir: Dirs \cup {None},
              server: Texts \cup {None}, tools: SUBSET Tools, prompt: Texts \cup {None}]
  /\ run.at = "none" => run = NoRun
  /\ run.at # "none" => /\ loading.at = "loaded"
                        /\ run.task \in Task
                        /\ file[root[Driver]][run.task.id].state # "none"
  /\ run.at \in {"reading", "starting"} => run.path \in Roots
  /\ (run.at = "reading" /\ run.snapshot_root = root[Driver]) =>
       /\ run.path = root[Driver]
  /\ run.at = "reading" => file[run.path][run.task.id].state # "none"
  /\ run.at \in {"resolving", "reading", "starting", "packaging"} =>
       run.server = None /\ run.prompt = None
  /\ run.at \in Started => run.snapshot \in Snapshot
  /\ run.at \in Packaged => run.package_dir \in Dirs
  /\ run.at \in {"prompting", "running"} => run.server \in Texts
  /\ run.at = "running" => run.prompt \in Texts

IInv ==
  /\ CuratorsOK /\ FilesAtHome /\ Allocated /\ TornByWriter
  /\ AuthorOK /\ LoaderOK /\ RunOK
  /\ StartsFromOwnSplit /\ RunsWhatItVouchesFor

----------------------------------------------------------------------------
(* Curators.                                                               *)

(* What is due is a task of a valid split.                                 *)
LEMMA DueIsId ==
  ASSUME CuratorsOK, NEW m \in Curators, curating[m] \in {"generating", "writing"}
  PROVE  Due(m) \in Ids
<1>1. spec[m] \in {t \in Manifests[m] : valid_split(t)}
  BY DEF CuratorsOK
<1>2. Due(m) \in Range(iter_seeded(spec[m]))
  BY DEF CuratorsOK, Due, Range
<1> QED BY <1>1, <1>2 DEF Ids

(* A step that writes no file.                                             *)
LEMMA MovesKeep ==
  ASSUME CuratorsOK, NEW m \in Curators, Begin(m) \/ NoGenerator(m) \/ WriteFails(m)
  PROVE  CuratorsOK'
<1> DEFINE allotted(n) == valid_split(spec[n]) /\ Len(tasks[n]) + 1 \in DOMAIN iter_seeded(spec[n])
<1>1. UNCHANGED <<spec, root, tasks, file>>
  BY DEF Begin, NoGenerator, WriteFails
<1>2. PICK to \in {"generating", "done", "raised"} :
        /\ curating' = [curating EXCEPT ![m] = to]
        /\ to = "generating" => allotted(m)
  <2>1. CASE Begin(m)
    <3>1. Loop(m, 0) \in {"generating", "done"} /\ (Loop(m, 0) = "generating" => 1 \in DOMAIN iter_seeded(spec[m]))
      BY DEF Loop
    <3>2. Len(tasks[m]) + 1 = 1
      BY <2>1 DEF Begin, CuratorsOK
    <3> QED BY <2>1, <3>1, <3>2 DEF Begin
  <2>2. CASE NoGenerator(m) \/ WriteFails(m)
    BY <2>2 DEF NoGenerator, WriteFails
  <2> QED BY <2>1, <2>2
<1>3. curating' \in [Curators -> {"idle", "generating", "writing", "done", "raised"}]
  BY <1>2 DEF CuratorsOK
<1>4. ASSUME NEW n \in Curators
      PROVE  /\ curating'[n] = "idle" => Len(tasks[n]) = 0
             /\ curating'[n] \in {"generating", "writing"} => allotted(n)
  <2>1. CASE n = m
    BY <1>2, <2>1 DEF CuratorsOK
  <2>2. CASE n # m
    BY <1>2, <2>2 DEF CuratorsOK
  <2> QED BY <2>1, <2>2
<1> HIDE DEF allotted
<1>5. \A n \in Curators :
        /\ spec'[n] \in Manifests[n]
        /\ curating'[n] = "idle" => Len(tasks'[n]) = 0
        /\ curating'[n] \in {"generating", "writing"} =>
             valid_split(spec'[n]) /\ Len(tasks'[n]) + 1 \in DOMAIN iter_seeded(spec'[n])
  BY <1>1, <1>4 DEF CuratorsOK, allotted
<1> QED BY <1>1, <1>3, <1>5 DEF CuratorsOK

(* A step that opens or writes a file of its own root.                     *)
LEMMA WritesKeep ==
  ASSUME CurriculumAssumption, CuratorsOK, FilesAtHome, NEW m \in Curators,
         OpenSnapshot(m) \/ WriteSnapshot(m)
  PROVE  /\ CuratorsOK' /\ FilesAtHome' /\ UNCHANGED root
         /\ \A r \in Roots, i \in Ids : file[r][i].state # "none" => file'[r][i].state # "none"
<1>1. Due(m) \in Ids
  BY DueIsId DEF OpenSnapshot, WriteSnapshot
<1>2. UNCHANGED <<spec, root>> /\ root[m] \in Roots
  BY DEF OpenSnapshot, WriteSnapshot, CuratorsOK
<1>3. PICK how \in {"torn", "whole"} :
        file' = [file EXCEPT ![root[m]][Due(m)] = [state |-> how, by |-> m]]
  BY DEF OpenSnapshot, WriteSnapshot
<1>4. /\ file' \in [Roots -> [Ids -> Snapshot]]
      /\ \A r \in Roots, i \in Ids :
           file'[r][i] = IF r = root[m] /\ i = Due(m) THEN [state |-> how, by |-> m] ELSE file[r][i]
  <2>1. [state |-> how, by |-> m] \in Snapshot
    BY DEF Snapshot
  <2> QED BY <1>1, <1>2, <1>3, <2>1 DEF CuratorsOK
<1>5. \A r \in Roots, i \in Ids : file'[r][i].state # "none" => root'[file'[r][i].by] = r
  BY <1>2, <1>4 DEF FilesAtHome
<1>6. \A r \in Roots, i \in Ids : file[r][i].state # "none" => file'[r][i].state # "none"
  BY <1>4
<1>7. \A n \in Curators : \A k \in 1 .. Len(tasks[n]) :
        tasks[n][k].id \in Ids /\ file'[root[n]][tasks[n][k].id].state # "none"
  <2> SUFFICES ASSUME NEW n \in Curators, NEW k \in 1 .. Len(tasks[n])
               PROVE  tasks[n][k].id \in Ids /\ file'[root[n]][tasks[n][k].id].state # "none"
    OBVIOUS
  <2>1. tasks[n] \in Seq(Task) /\ root[n] \in Roots
    BY DEF CuratorsOK
  <2>2. tasks[n][k] \in Task
    BY <2>1
  <2>3. tasks[n][k].id \in Ids
    BY <2>2 DEF Task
  <2> QED BY <1>6, <2>1, <2>3 DEF FilesAtHome
<1>8. CASE OpenSnapshot(m)
  <2>1. tasks' = tasks /\ curating[m] = "generating"
        /\ curating' = [curating EXCEPT ![m] = "writing"]
    BY <1>8 DEF OpenSnapshot
  <2>2. \A n \in Curators : /\ curating'[n] = "idle" => curating[n] = "idle"
                           /\ curating'[n] \in {"generating", "writing"} =>
                                curating[n] \in {"generating", "writing"}
    BY <2>1 DEF CuratorsOK
  <2>3. CuratorsOK'
    BY <1>2, <1>4, <2>1, <2>2 DEF CuratorsOK
  <2> QED BY <1>2, <1>5, <1>6, <1>7, <2>1, <2>3 DEF FilesAtHome
<1>9. CASE WriteSnapshot(m)
  <2> DEFINE t == [id |-> Due(m), split |-> m]
             to == Loop(m, Len(tasks[m]) + 1)
  <2>1. t \in Task
    BY <1>1 DEF Task
  <2>2. /\ to \in {"generating", "done"}
        /\ to = "generating" => Len(tasks[m]) + 1 + 1 \in DOMAIN iter_seeded(spec[m])
    BY DEF Loop
  <2> HIDE DEF t, to
  <2>3. /\ curating[m] = "writing" /\ curating' = [curating EXCEPT ![m] = to]
        /\ tasks' = [tasks EXCEPT ![m] = Append(tasks[m], t)]
    BY <1>9 DEF WriteSnapshot, t, to
  <2>4. /\ tasks[m] \in Seq(Task) /\ tasks' \in [Curators -> Seq(Task)]
        /\ tasks'[m] = Append(tasks[m], t)
        /\ \A n \in Curators \ {m} : tasks'[n] = tasks[n]
    BY <2>1, <2>3 DEF CuratorsOK
  <2>5. /\ Len(tasks'[m]) = Len(tasks[m]) + 1 /\ tasks'[m][Len(tasks[m]) + 1] = t
        /\ \A k \in 1 .. Len(tasks[m]) : tasks'[m][k] = tasks[m][k]
    BY <2>1, <2>4
  <2>6. curating' \in [Curators -> {"idle", "generating", "writing", "done", "raised"}]
    BY <2>2, <2>3 DEF CuratorsOK
  <2>7. valid_split(spec[m])
    BY <2>3 DEF CuratorsOK
  <2>8. ASSUME NEW n \in Curators
        PROVE  /\ curating'[n] = "idle" => Len(tasks'[n]) = 0
               /\ curating'[n] \in {"generating", "writing"} =>
                    valid_split(spec[n]) /\ Len(tasks'[n]) + 1 \in DOMAIN iter_seeded(spec[n])
    <3>1. CASE n = m
      BY <2>2, <2>3, <2>5, <2>7, <3>1 DEF CuratorsOK
    <3>2. CASE n # m
      BY <2>3, <2>4, <3>2 DEF CuratorsOK
    <3> QED BY <3>1, <3>2
  <2>9. CuratorsOK'
    BY <1>2, <1>4, <2>4, <2>6, <2>8 DEF CuratorsOK
  <2>10. \A n \in Curators : \A k \in 1 .. Len(tasks'[n]) :
           file'[root[n]][tasks'[n][k].id].state # "none"
    <3> SUFFICES ASSUME NEW n \in Curators, NEW k \in 1 .. Len(tasks'[n])
                 PROVE  file'[root[n]][tasks'[n][k].id].state # "none"
      OBVIOUS
    <3>1. CASE n = m /\ k = Len(tasks[m]) + 1
      <4>1. tasks'[n][k].id = Due(m)
        BY <2>5, <3>1 DEF t
      <4> QED BY <1>1, <1>2, <1>4, <3>1, <4>1
    <3>2. CASE ~(n = m /\ k = Len(tasks[m]) + 1)
      <4>1. k \in 1 .. Len(tasks[n]) /\ tasks'[n][k] = tasks[n][k]
        BY <2>4, <2>5, <3>2
      <4> QED BY <1>7, <4>1
    <3> QED BY <3>1, <3>2
  <2> QED BY <1>2, <1>5, <1>6, <2>9, <2>10 DEF FilesAtHome
<1> QED BY <1>2, <1>6, <1>8, <1>9

(* A step goes on with the allocations, and tears no file but its own.     *)
LEMMA AllocationsKeep ==
  ASSUME CuratorsOK, CuratorsOK', FilesAtHome, Allocated, TornByWriter,
         NEW m \in Curators, materialize(m)
  PROVE  Allocated' /\ TornByWriter'
<1>1. UNCHANGED <<spec, root>>
  BY DEF materialize, Begin, NoGenerator, OpenSnapshot, WriteSnapshot, WriteFails
<1>2. \A n \in Curators \ {m} : curating'[n] = curating[n] /\ tasks'[n] = tasks[n]
  BY DEF CuratorsOK, materialize, Begin, NoGenerator, OpenSnapshot, WriteSnapshot, WriteFails
<1>3. Allocated'
  <2>1. /\ curating'[m] \in {"generating", "writing", "done"} => valid_split(spec[m])
        /\ \A k \in 1 .. Len(tasks'[m]) :
             k \in DOMAIN iter_seeded(spec[m]) /\ tasks'[m][k].id = iter_seeded(spec[m])[k]
        /\ curating'[m] = "done" => Len(tasks'[m]) + 1 \notin DOMAIN iter_seeded(spec[m])
    <3>1. CASE Begin(m)
      <4>1. tasks' = tasks /\ Len(tasks[m]) = 0
        BY <3>1 DEF Begin, CuratorsOK
      <4>2. /\ curating'[m] \in {"generating", "done"} => valid_split(spec[m])
            /\ curating'[m] = "done" => 1 \notin DOMAIN iter_seeded(spec[m])
            /\ curating'[m] # "writing"
        BY <3>1 DEF Begin, CuratorsOK, Loop
      <4> QED BY <4>1, <4>2
    <3>2. CASE NoGenerator(m) \/ OpenSnapshot(m) \/ WriteFails(m)
      BY <3>2 DEF NoGenerator, OpenSnapshot, WriteFails, CuratorsOK, Allocated
    <3>3. CASE WriteSnapshot(m)
      <4> DEFINE t == [id |-> Due(m), split |-> m]
      <4>1. /\ tasks[m] \in Seq(Task) /\ Len(tasks[m]) + 1 \in DOMAIN iter_seeded(spec[m])
            /\ curating[m] = "writing" /\ valid_split(spec[m])
            /\ tasks'[m] = Append(tasks[m], t)
            /\ curating'[m] = Loop(m, Len(tasks[m]) + 1)
        BY <3>3 DEF WriteSnapshot, CuratorsOK
      <4>2. t.id = iter_seeded(spec[m])[Len(tasks[m]) + 1]
        BY DEF Due
      <4> HIDE DEF t
      <4>3. /\ Len(tasks[m]) \in Nat /\ Len(tasks'[m]) = Len(tasks[m]) + 1
            /\ tasks'[m][Len(tasks[m]) + 1] = t
            /\ \A k \in 1 .. Len(tasks[m]) : tasks'[m][k] = tasks[m][k]
        <5>1. tasks'[m] \in Seq(Task)
          BY DEF CuratorsOK
        <5> QED BY <4>1, <5>1
      <4>4. ASSUME NEW k \in 1 .. Len(tasks'[m])
            PROVE  k \in DOMAIN iter_seeded(spec[m]) /\ tasks'[m][k].id = iter_seeded(spec[m])[k]
        <5>1. CASE k = Len(tasks[m]) + 1
          BY <4>1, <4>2, <4>3, <5>1
        <5>2. CASE k \in 1 .. Len(tasks[m])
          BY <4>3, <5>2 DEF Allocated
        <5> QED BY <4>3, <5>1, <5>2
      <4>5. curating'[m] = "done" => Len(tasks'[m]) + 1 \notin DOMAIN iter_seeded(spec[m])
        BY <4>1, <4>3 DEF Loop
      <4> QED BY <4>1, <4>4, <4>5
    <3> QED BY <3>1, <3>2, <3>3 DEF materialize
  <2> QED BY <1>1, <1>2, <2>1, SMTT(20) DEF Allocated
<1>4. TornByWriter'
  <2> DEFINE due(n) == iter_seeded(spec[n])[Len(tasks'[n]) + 1]
  <2> SUFFICES ASSUME NEW r \in Roots, NEW i \in Ids, file'[r][i].state = "torn"
               PROVE  \/ curating'[file'[r][i].by] = "raised"
                      \/ curating'[file'[r][i].by] = "writing" /\ i = due(file'[r][i].by)
    BY <1>1 DEF TornByWriter, Due
  <2> DEFINE n == file[r][i].by
  <2>1. file[r][i] \in Snapshot /\ (file[r][i].state = "torn" => n \in Curators)
    BY DEF CuratorsOK, Snapshot, NoFile
  <2>2. CASE file'[r][i] = file[r][i] /\ n # m
    <3>1. curating'[n] = curating[n] /\ due(n) = Due(n)
      BY <1>2, <2>1, <2>2 DEF Due
    <3>2. curating[n] = "raised" \/ (curating[n] = "writing" /\ i = Due(n))
      BY <2>2 DEF TornByWriter
    <3> QED BY <2>2, <3>1, <3>2
  <2>3. CASE file'[r][i] = file[r][i] /\ n = m
    <3>1. root[m] = r
      BY <2>3 DEF FilesAtHome
    <3>2. curating[m] = "raised" \/ (curating[m] = "writing" /\ i = Due(m))
      BY <2>3 DEF TornByWriter
    <3>3. WriteFails(m)
      <4>1. ~ WriteSnapshot(m)
        <5> SUFFICES ASSUME WriteSnapshot(m) PROVE FALSE
          OBVIOUS
        <5>1. file'[r][i] = [state |-> "whole", by |-> m]
          BY <3>1, <3>2 DEF WriteSnapshot, CuratorsOK
        <5> QED BY <5>1
      <4> QED BY <3>2, <4>1 DEF materialize, Begin, NoGenerator, OpenSnapshot
    <3> QED BY <2>3, <3>3 DEF WriteFails, CuratorsOK
  <2>4. CASE file'[r][i] # file[r][i]
    <3>1. OpenSnapshot(m) \/ WriteSnapshot(m)
      BY <2>4 DEF materialize, Begin, NoGenerator, WriteFails
    <3>2. r = root[m] /\ i = Due(m)
      BY <2>4, <3>1 DEF OpenSnapshot, WriteSnapshot, CuratorsOK
    <3>3. OpenSnapshot(m) /\ file'[r][i].by = m
      BY <3>1, <3>2 DEF OpenSnapshot, WriteSnapshot, CuratorsOK
    <3>4. curating'[m] = "writing" /\ due(m) = Due(m)
      BY <3>3 DEF OpenSnapshot, CuratorsOK, Due
    <3> QED BY <3>2, <3>3, <3>4
  <2> QED BY <2>2, <2>3, <2>4
<1> QED BY <1>3, <1>4

(* A curator's step disturbs no run: no file goes away.                    *)
LEMMA CurationKeeps ==
  ASSUME CurriculumAssumption, InputsAssumption, IInv,
         NEW m \in Curators, materialize(m), UNCHANGED <<packages, run>>
  PROVE  IInv'
<1>1. /\ CuratorsOK' /\ FilesAtHome' /\ UNCHANGED root
      /\ \A r \in Roots, i \in Ids : file[r][i].state # "none" => file'[r][i].state # "none"
  <2>1. CASE OpenSnapshot(m) \/ WriteSnapshot(m)
    BY <2>1, WritesKeep DEF IInv
  <2>2. CASE Begin(m) \/ NoGenerator(m) \/ WriteFails(m)
    <3>1. UNCHANGED <<root, tasks, file>>
      BY <2>2 DEF Begin, NoGenerator, WriteFails
    <3>2. CuratorsOK'
      BY <2>2, MovesKeep DEF IInv
    <3> QED BY <3>1, <3>2 DEF IInv, FilesAtHome
  <2> QED BY <2>1, <2>2 DEF materialize
<1>2. UNCHANGED <<disk, manifest, saving, loading, edited, edits, saves, run>>
  BY DEF packages
<1>3. AuthorOK' /\ LoaderOK' /\ StartsFromOwnSplit' /\ RunsWhatItVouchesFor'
  BY <1>1, <1>2 DEF IInv, AuthorOK, LoaderOK, StartsFromOwnSplit, RunsWhatItVouchesFor
<1>4. RunOK'
  <2>1. root[Driver] \in Roots
    BY DEF InputsAssumption, IInv, CuratorsOK
  <2>2. run.at # "none" => run.task.id \in Ids
    BY DEF IInv, RunOK, Task
  <2> QED BY <1>1, <1>2, <2>1, <2>2 DEF IInv, RunOK
<1>5. Allocated' /\ TornByWriter'
  BY <1>1, AllocationsKeep DEF IInv
<1> QED BY <1>1, <1>3, <1>4, <1>5 DEF IInv

(* Nobody else stages anything.                                            *)
LEMMA CurationUntouched ==
  ASSUME IInv, UNCHANGED <<spec, root, curating, tasks, file>>
  PROVE  CuratorsOK' /\ FilesAtHome' /\ Allocated' /\ TornByWriter'
<1>1. Allocated' /\ TornByWriter'
  BY DEF IInv, Allocated, TornByWriter, Due
<1> QED BY <1>1 DEF IInv, CuratorsOK, FilesAtHome

----------------------------------------------------------------------------
(* The author.                                                             *)

LEMMA EditKeeps ==
  ASSUME PackagesAssumption, IInv, NEW d \in Dirs, NEW f \in Files,
         NEW text \in Drafts \cup {Missing}, Edit(d, f, text), UNCHANGED <<curriculum, run>>
  PROVE  IInv'
<1>1. UNCHANGED <<spec, root, curating, tasks, file, manifest, saving, loading, saves, run>>
  BY DEF Edit, curriculum
<1>2. text \in Texts \cup {Missing}
  BY DEF PackagesAssumption
<1>3. /\ disk' \in [Dirs -> [Files -> Texts \cup {Missing}]]
      /\ \A e \in Dirs, g \in Files :
           disk'[e][g] = IF e = d /\ g = f THEN text ELSE disk[e][g]
  BY <1>2 DEF Edit, IInv, AuthorOK
<1>4. edited \subseteq edited' /\ edited' \subseteq Files
  BY DEF Edit, IInv, AuthorOK
<1>5. edits' \in 0 .. MaxEdits
  BY DEF Edit, IInv, AuthorOK, PackagesAssumption
<1>6. AuthorOK'
  BY <1>1, <1>3, <1>4, <1>5 DEF IInv, AuthorOK
<1>7. LoaderOK'
  <2>1. (d = loading.dir /\ f = "knowledge/k" /\ loading.at \in {"tools", "loaded"}) =>
           "knowledge/k" \in edited'
    BY DEF Edit
  <2>2. (d = loading.dir /\ f = "mcp/server" /\ loading.at = "loaded") => "mcp/server" \in edited'
    BY DEF Edit
  <2>3. "knowledge/k" \in Files /\ "mcp/server" \in Files
    BY DEF Files
  <2> QED BY <1>1, <1>3, <1>4, <2>1, <2>2, <2>3 DEF IInv, LoaderOK
<1>8. CuratorsOK' /\ FilesAtHome' /\ Allocated' /\ TornByWriter' /\ StartsFromOwnSplit'
  BY <1>1, CurationUntouched DEF IInv, StartsFromOwnSplit
<1>9. RunOK' /\ RunsWhatItVouchesFor'
  BY <1>1, <1>4 DEF IInv, RunOK, RunsWhatItVouchesFor
<1> QED BY <1>6, <1>7, <1>8, <1>9 DEF IInv

(* Saving touches no artifact.                                             *)
LEMMA SavingKeeps ==
  ASSUME PackagesAssumption, IInv, UNCHANGED <<curriculum, run>>,
         \/ \E d \in Dirs, kind \in Kinds : Save(d, kind)
         \/ SaveHashesKnowledge \/ SaveHashesTools
         \/ OpenManifest \/ WriteManifest \/ SaveFails
  PROVE  IInv'
<1>1. UNCHANGED <<spec, root, curating, tasks, file, disk, loading, edited, edits, run>>
  BY DEF Save, SaveHashesKnowledge, SaveHashesTools, OpenManifest, WriteManifest, SaveFails,
         curriculum
<1>2. AuthorOK'
  <2> USE DEF IInv, AuthorOK
  <2>1. ASSUME NEW d \in Dirs, NEW kind \in Kinds, Save(d, kind)
        PROVE  AuthorOK'
    <3>1. [path |-> kind.path, knowledge |-> Missing, tools |-> Missing,
           declared |-> kind.declared, root |-> kind.root] \in Draft
      BY DEF Draft, PackagesAssumption
    <3>2. saves' \in 0 .. MaxSaves
      BY <2>1 DEF Save, PackagesAssumption
    <3> QED BY <1>1, <2>1, <3>1, <3>2 DEF Save
  <2>2. CASE SaveHashesKnowledge
    <3> DEFINE digest == disk[saving.dir]["knowledge/k"]
    <3>1. /\ digest \in Texts \cup {Missing}
          /\ saving \in [at: {"knowledge"}, dir: Dirs, package: Draft]
          /\ saving' = IF digest = Missing THEN NotSaving
                       ELSE [saving EXCEPT !.at = "tools", !.package.knowledge = digest]
      BY <2>2 DEF SaveHashesKnowledge, sha256, layer_path, Files
    <3> HIDE DEF digest
    <3> HIDE DEF IInv, AuthorOK
    <3>2. CASE digest = Missing
      <4>1. saving' = NotSaving /\ UNCHANGED <<manifest, saves>>
        BY <2>2, <3>1, <3>2 DEF SaveHashesKnowledge
      <4> QED BY <1>1, <4>1 DEF IInv, AuthorOK, NotSaving
    <3>3. CASE digest # Missing
      <4> DEFINE with == [saving.package EXCEPT !.knowledge = digest]
      <4>1. with \in Draft /\ with.knowledge \in Texts
        BY <3>1, <3>3 DEF Draft
      <4>2. /\ saving' \in [at: {"tools"}, dir: Dirs, package: Draft]
            /\ saving'.package = with
        BY <3>1, <3>3, <4>1
      <4> HIDE DEF with
      <4>3. UNCHANGED <<manifest, saves>>
        BY <2>2 DEF SaveHashesKnowledge
      <4> QED BY <1>1, <4>1, <4>2, <4>3 DEF IInv, AuthorOK
    <3> QED BY <3>2, <3>3
  <2>3. CASE SaveHashesTools
    <3> DEFINE digest == disk[saving.dir]["mcp/server"]
    <3>1. /\ digest \in Texts \cup {Missing}
          /\ saving \in [at: {"tools"}, dir: Dirs, package: Draft]
          /\ saving.package.knowledge \in Texts
          /\ saving' = IF digest = Missing THEN NotSaving
                       ELSE [saving EXCEPT !.at = "opening", !.package.tools = digest]
      BY <2>3 DEF SaveHashesTools, sha256, Files
    <3> HIDE DEF digest
    <3> HIDE DEF IInv, AuthorOK
    <3>2. CASE digest = Missing
      <4>1. saving' = NotSaving /\ UNCHANGED <<manifest, saves>>
        BY <2>3, <3>1, <3>2 DEF SaveHashesTools
      <4> QED BY <1>1, <4>1 DEF IInv, AuthorOK, NotSaving
    <3>3. CASE digest # Missing
      <4> DEFINE with == [saving.package EXCEPT !.tools = digest]
      <4>1. with \in Draft /\ with \in Package
        BY <3>1, <3>3 DEF Draft, Package
      <4>2. /\ saving' \in [at: {"opening"}, dir: Dirs, package: Draft]
            /\ saving'.package = with
        BY <3>1, <3>3, <4>1
      <4> HIDE DEF with
      <4>3. UNCHANGED <<manifest, saves>>
        BY <2>3 DEF SaveHashesTools
      <4> QED BY <1>1, <4>1, <4>2, <4>3 DEF IInv, AuthorOK
    <3> QED BY <3>2, <3>3
  <2>4. CASE OpenManifest
    BY <1>1, <2>4 DEF OpenManifest
  <2>5. CASE WriteManifest
    BY <1>1, <2>5 DEF WriteManifest, NotSaving
  <2>6. CASE SaveFails
    BY <1>1, <2>6 DEF SaveFails, NotSaving
  <2> QED BY <2>1, <2>2, <2>3, <2>4, <2>5, <2>6
<1>3. CuratorsOK' /\ FilesAtHome' /\ Allocated' /\ TornByWriter' /\ LoaderOK' /\ StartsFromOwnSplit'
  BY <1>1, CurationUntouched DEF IInv, LoaderOK, StartsFromOwnSplit
<1>4. RunOK' /\ RunsWhatItVouchesFor'
  BY <1>1 DEF IInv, RunOK, RunsWhatItVouchesFor
<1> QED BY <1>2, <1>3, <1>4 DEF IInv

----------------------------------------------------------------------------
(* The driver.                                                             *)

LEMMA LoadKeeps ==
  ASSUME PackagesAssumption, IInv, LoadPackage
  PROVE  IInv'
<1>1. UNCHANGED <<spec, root, curating, tasks, file, disk, manifest, saving, edited, edits,
                  saves, run>>
  BY DEF LoadPackage, curriculum, ReadManifest, VerifyKnowledge, VerifyTools
<1>2. loading.at # "loaded" /\ run.at = "none"
  BY DEF LoadPackage, ReadManifest, VerifyKnowledge, VerifyTools, IInv, RunOK
<1>3. LoaderOK'
  <2> USE DEF IInv, LoaderOK, AuthorOK
  <2>1. ASSUME NEW d \in Dirs, ReadManifest(d)
        PROVE  LoaderOK'
    <3>1. manifest[d] = Torn \/ manifest[d] \in Package
      OBVIOUS
    <3> QED BY <1>1, <2>1, <3>1 DEF ReadManifest, NotLoading
  <2>2. CASE VerifyKnowledge
    <3> DEFINE digest == disk[loading.dir]["knowledge/k"]
    <3>1. /\ digest \in Texts \cup {Missing}
          /\ loading' = IF digest = Missing THEN [loading EXCEPT !.at = "raised"]
                        ELSE [loading EXCEPT !.at = "tools", !.knowledge = digest]
      BY <2>2 DEF VerifyKnowledge, Raised, sha256, layer_path, Files
    <3>2. loading.at = "knowledge"
      BY <2>2 DEF VerifyKnowledge
    <3>3. CASE digest = Missing
      BY <1>1, <3>1, <3>3
    <3>4. CASE digest # Missing
      BY <1>1, <3>1, <3>2, <3>4
    <3> QED BY <3>3, <3>4
  <2>3. ASSUME NEW with_domain \in BOOLEAN, VerifyTools(with_domain)
        PROVE  LoaderOK'
    BY <1>1, <2>3 DEF VerifyTools, Raised, hashes_match, sha256, Files
  <2> QED BY <2>1, <2>2, <2>3 DEF LoadPackage
<1>4. CuratorsOK' /\ FilesAtHome' /\ Allocated' /\ TornByWriter' /\ AuthorOK' /\ StartsFromOwnSplit'
  BY <1>1, CurationUntouched DEF IInv, AuthorOK, StartsFromOwnSplit
<1>5. RunOK'
  BY <1>1, <1>2 DEF IInv, RunOK
<1>6. RunsWhatItVouchesFor'
  <2>1. run' = NoRun
    BY <1>1, <1>2 DEF IInv, RunOK
  <2> QED BY <2>1 DEF RunsWhatItVouchesFor, NoRun
<1> QED BY <1>3, <1>4, <1>5, <1>6 DEF IInv

(* A run that ends in an error is left as it is.                           *)
LEMMA ErrorKeeps ==
  ASSUME IInv, UNCHANGED <<root, file, loading, edited>>,
         run.at # "none", run' = EnvironmentError
  PROVE  RunOK' /\ StartsFromOwnSplit' /\ RunsWhatItVouchesFor'
<1>1. RunOK /\ StartsFromOwnSplit /\ RunsWhatItVouchesFor
  BY DEF IInv
<1>2. RunOK'
  BY <1>1 DEF EnvironmentError, RunOK, Stages, Started, Packaged
<1>3. /\ run'.snapshot = run.snapshot /\ run'.snapshot_root = run.snapshot_root
      /\ run'.server = run.server /\ run'.prompt = run.prompt /\ run'.tools = run.tools
      /\ run'.package_dir = run.package_dir
  BY <1>1 DEF EnvironmentError, RunOK
<1> QED BY <1>1, <1>2, <1>3 DEF StartsFromOwnSplit, RunsWhatItVouchesFor

LEMMA RunKeeps ==
  ASSUME CurriculumAssumption, PackagesAssumption, InputsAssumption, IInv, RunProceeds
  PROVE  IInv'
<1>1. UNCHANGED <<spec, root, curating, tasks, file, disk, manifest, saving, loading, edited,
                  edits, saves>>
  BY DEF RunProceeds, StartRun, ResolveSnapshotPath, ReadSnapshot, StartWorld,
         ResolvePackageRoot, BuildExecutor, BuildSystemPrompt, curriculum, packages
<1>2. CuratorsOK' /\ FilesAtHome' /\ Allocated' /\ TornByWriter' /\ AuthorOK' /\ LoaderOK'
  BY <1>1, CurationUntouched DEF IInv, AuthorOK, LoaderOK
<1>3. root[Driver] \in Roots /\ root[Driver] # None
  BY DEF CurriculumAssumption, InputsAssumption, IInv, CuratorsOK
<1>4. RunOK' /\ StartsFromOwnSplit' /\ RunsWhatItVouchesFor'
  <2>1. CASE StartRun
    <3>1. PICK t \in Range(tasks[Driver]), s \in {root[Driver], None}, p \in {loading.dir, None} :
            run' = [NoRun EXCEPT !.at = "resolving", !.task = t, !.snapshot_root = s,
                                 !.package_root = p]
      BY <2>1 DEF StartRun
    <3>2. loading.at = "loaded" /\ loading.dir \in Dirs
      BY <2>1 DEF StartRun, IInv, LoaderOK
    <3>3. t \in Task /\ file[root[Driver]][t.id].state # "none"
      <4>1. tasks[Driver] \in Seq(Task)
        BY DEF InputsAssumption, IInv, CuratorsOK
      <4>2. PICK k \in 1 .. Len(tasks[Driver]) : t = tasks[Driver][k]
        BY <4>1 DEF Range
      <4> QED BY <4>1, <4>2 DEF InputsAssumption, IInv, FilesAtHome
    <3> QED BY <1>1, <1>3, <3>1, <3>2, <3>3
          DEF NoRun, RunOK, Stages, Started, Packaged, StartsFromOwnSplit, RunsWhatItVouchesFor
  <2>2. CASE ResolveSnapshotPath
    <3> DEFINE s == run.snapshot_root
               found == {i \in DOMAIN roots(s) : file[roots(s)[i]][run.task.id].state # "none"}
    <3>1. run.at = "resolving" /\ s \in Roots \cup {None}
      BY <2>2 DEF ResolveSnapshotPath, IInv, RunOK
    <3>2. roots(s) \in Seq(Roots)
      BY <3>1 DEF roots, InputsAssumption
    <3>3. CASE run' = EnvironmentError
      BY <1>1, <3>1, <3>3, ErrorKeeps
    <3>4. ASSUME NEW i \in found, \A j \in found : i <= j,
                 run' = [run EXCEPT !.at = "reading", !.path = roots(s)[i]]
          PROVE  RunOK' /\ StartsFromOwnSplit' /\ RunsWhatItVouchesFor'
      <4>1. i \in DOMAIN roots(s) /\ roots(s)[i] \in Roots
            /\ file[roots(s)[i]][run.task.id].state # "none"
        BY <3>2
      <4>2. s = root[Driver] => roots(s)[i] = root[Driver]
        <5> SUFFICES ASSUME s = root[Driver] PROVE roots(s)[i] = s
          OBVIOUS
        <5>1. roots(s) = <<s>> \o RunDirRoots
          BY <1>3 DEF roots
        <5>2. 1 \in DOMAIN roots(s) /\ roots(s)[1] = s
          BY <1>3, <5>1 DEF InputsAssumption
        <5>3. 1 \in found
          BY <3>1, <5>2 DEF IInv, RunOK
        <5>4. i = 1
          BY <3>2, <3>4, <4>1, <5>3
        <5> QED BY <5>2, <5>4
      <4> DEFINE path == roots(s)[i]
      <4>3. /\ run' = [run EXCEPT !.at = "reading", !.path = path]
            /\ path \in Roots /\ file[path][run.task.id].state # "none"
            /\ run.snapshot_root = root[Driver] => path = root[Driver]
        BY <3>4, <4>1, <4>2
      <4> HIDE DEF path, s, found
      <4> QED BY <1>1, <3>1, <4>3
            DEF IInv, RunOK, Stages, Started, Packaged, StartsFromOwnSplit, RunsWhatItVouchesFor
    <3> QED BY <2>2, <3>3, <3>4 DEF ResolveSnapshotPath
  <2>3. CASE ReadSnapshot
    <3> DEFINE f == file[run.path][run.task.id]
    <3>1. /\ run.at = "reading"
          /\ run' = IF f.state = "torn" THEN EnvironmentError
                    ELSE [run EXCEPT !.at = "starting", !.snapshot = f]
      BY <2>3 DEF ReadSnapshot
    <3>2. f \in Snapshot /\ f.state # "none" /\ root[f.by] = run.path
      BY <3>1 DEF IInv, RunOK, CuratorsOK, FilesAtHome, Task
    <3>3. f.state # "torn" => f.state = "whole"
      BY <3>2 DEF Snapshot, NoFile
    <3> HIDE DEF f
    <3>4. CASE f.state = "torn"
      BY <1>1, <3>1, <3>4, ErrorKeeps
    <3>5. CASE f.state # "torn"
      <4>1. run' = [run EXCEPT !.at = "starting", !.snapshot = f]
        BY <3>1, <3>5
      <4>2. RunOK' /\ RunsWhatItVouchesFor'
        BY <1>1, <3>1, <3>2, <4>1
           DEF IInv, RunOK, Stages, Started, Packaged, RunsWhatItVouchesFor
      <4>3. StartsFromOwnSplit'
        BY <1>1, <3>1, <3>2, <3>3, <3>5, <4>1 DEF IInv, RunOK, StartsFromOwnSplit
      <4> QED BY <4>2, <4>3
    <3> QED BY <3>4, <3>5
  <2>4. CASE StartWorld
    <3>1. run.at = "starting"
      BY <2>4 DEF StartWorld
    <3>2. CASE run' = EnvironmentError
      BY <1>1, <3>1, <3>2, ErrorKeeps
    <3>3. CASE run' = [run EXCEPT !.at = "packaging"]
      <4>1. RunOK'
        BY <1>1, <3>1, <3>3 DEF IInv, RunOK, Stages, Started, Packaged
      <4>2. StartsFromOwnSplit' /\ RunsWhatItVouchesFor'
        BY <1>1, <3>1, <3>3 DEF IInv, RunOK, StartsFromOwnSplit, RunsWhatItVouchesFor
      <4> QED BY <4>1, <4>2
    <3> QED BY <2>4, <3>2, <3>3 DEF StartWorld
  <2>5. CASE ResolvePackageRoot
    <3>1. run.at = "packaging"
      BY <2>5 DEF ResolvePackageRoot
    <3>2. CASE run' = EnvironmentError
      BY <1>1, <3>1, <3>2, ErrorKeeps
    <3>3. ASSUME NEW d \in Dirs, run' = [run EXCEPT !.at = "building", !.package_dir = d]
          PROVE  RunOK' /\ StartsFromOwnSplit' /\ RunsWhatItVouchesFor'
      <4>1. RunOK'
        BY <1>1, <3>1, <3>3 DEF IInv, RunOK, Stages, Started, Packaged
      <4>2. StartsFromOwnSplit' /\ RunsWhatItVouchesFor'
        BY <1>1, <3>1, <3>3 DEF IInv, RunOK, StartsFromOwnSplit, RunsWhatItVouchesFor
      <4> QED BY <4>1, <4>2
    <3>4. LET candidates == package_dirs(loading.package.root)
          IN  candidates # << >> => candidates[1] \in Dirs
      <4>1. PackageDirs \in Seq(Dirs)
        BY DEF InputsAssumption
      <4>2. loading.package.root \in Dirs \cup {Missing}
        BY <3>1 DEF IInv, RunOK, LoaderOK, Package
      <4> QED BY <4>1, <4>2 DEF package_dirs
    <3>5. run.package_root # None => run.package_root \in Dirs
      BY DEF IInv, RunOK
    <3> QED BY <2>5, <3>2, <3>3, <3>4, <3>5 DEF ResolvePackageRoot
  <2>6. CASE BuildExecutor
    <3> DEFINE server == Server
               exposed == Exposed(Server, loading.package.declared)
    <3>1. /\ run.at = "building" /\ run.package_dir \in Dirs
          /\ run' = IF server = Missing THEN EnvironmentError
                    ELSE [run EXCEPT !.at = "prompting", !.server = server, !.tools = exposed]
      BY <2>6 DEF BuildExecutor, IInv, RunOK, Packaged
    <3>2. server \in Texts \cup {Missing}
      BY <3>1 DEF Server, InputsAssumption, IInv, AuthorOK, Files
    <3>3. (run.package_dir = loading.dir /\ "mcp/server" \notin edited) =>
            server = loading.package.tools
      <4>1. loading.package \in Package /\ loading.at = "loaded"
        BY <3>1 DEF IInv, RunOK, LoaderOK
      <4>2. loading.package.tools # Missing
        BY <4>1 DEF Package, PackagesAssumption
      <4> QED BY <4>1, <4>2 DEF Server, IInv, LoaderOK
    <3>4. server # Missing =>
            exposed \subseteq Tools /\ \A t \in exposed : Required[t] \in Granted \cup {None}
      BY <3>2 DEF Exposed, effective, InputsAssumption
    <3> HIDE DEF exposed, server
    <3>5. CASE server = Missing
      BY <1>1, <3>1, <3>5, ErrorKeeps
    <3>6. CASE server # Missing
      <4>1. run' = [run EXCEPT !.at = "prompting", !.server = server, !.tools = exposed]
        BY <3>1, <3>6
      <4>2. RunOK'
        BY <1>1, <3>1, <3>2, <3>4, <3>6, <4>1, ZenonT(30) DEF IInv, RunOK, Stages, Started, Packaged
      <4>3. StartsFromOwnSplit' /\ RunsWhatItVouchesFor'
        BY <1>1, <3>1, <3>3, <3>4, <3>6, <4>1
           DEF IInv, RunOK, StartsFromOwnSplit, RunsWhatItVouchesFor
      <4> QED BY <4>2, <4>3
    <3> QED BY <3>5, <3>6
  <2>7. CASE BuildSystemPrompt
    <3> DEFINE text == disk[run.package_dir][read_path(loading.package.path)]
    <3>1. /\ run.at = "prompting"
          /\ run' = IF text = Missing THEN EnvironmentError
                    ELSE [run EXCEPT !.at = "running", !.prompt = text]
      BY <2>7 DEF BuildSystemPrompt
    <3>2. loading.at = "loaded" /\ run.package_dir \in Dirs /\ run.server \in Texts
      BY <3>1 DEF IInv, RunOK, Packaged
    <3>3. text \in Texts \cup {Missing}
      BY <3>2 DEF read_path, IInv, AuthorOK, Files
    <3>4. (run.package_dir = loading.dir /\ loading.package.path = "k"
           /\ "knowledge/k" \notin edited) => text = loading.package.knowledge
      BY <3>2 DEF read_path, IInv, LoaderOK
    <3> HIDE DEF text
    <3>5. CASE text = Missing
      BY <1>1, <3>1, <3>5, ErrorKeeps
    <3>6. CASE text # Missing
      <4>1. run' = [run EXCEPT !.at = "running", !.prompt = text]
        BY <3>1, <3>6
      <4>2. RunOK'
        BY <1>1, <3>1, <3>2, <3>3, <3>6, <4>1 DEF IInv, RunOK, Stages, Started, Packaged
      <4>3. StartsFromOwnSplit' /\ RunsWhatItVouchesFor'
        BY <1>1, <3>1, <3>4, <4>1 DEF IInv, RunOK, StartsFromOwnSplit, RunsWhatItVouchesFor
      <4> QED BY <4>2, <4>3
    <3> QED BY <3>5, <3>6
  <2> QED BY <2>1, <2>2, <2>3, <2>4, <2>5, <2>6, <2>7 DEF RunProceeds
<1> QED BY <1>2, <1>4 DEF IInv

----------------------------------------------------------------------------
(* The theorems.                                                           *)

LEMMA InitKeeps ==
  ASSUME CurriculumAssumption, PackagesAssumption, InputsAssumption, Init
  PROVE  IInv
<1>1. CuratorsOK
  <2>1. root \in [Curators -> Roots]
    BY DEF Init, CurriculumInit, CurriculumAssumption
  <2>2. \A m \in Curators : spec[m] \in Manifests[m] /\ curating[m] = "idle" /\ tasks[m] = << >>
    BY DEF Init, CurriculumInit
  <2>3. curating \in [Curators -> {"idle", "generating", "writing", "done", "raised"}]
    BY DEF Init, CurriculumInit
  <2>4. tasks \in [Curators -> Seq(Task)]
    BY DEF Init, CurriculumInit
  <2>5. file \in [Roots -> [Ids -> Snapshot]]
    BY DEF Init, CurriculumInit, Snapshot
  <2> QED BY <2>1, <2>2, <2>3, <2>4, <2>5 DEF CuratorsOK
<1>2. FilesAtHome
  <2>1. \A r \in Roots, i \in Ids : file[r][i].state = "none"
    BY DEF Init, CurriculumInit, NoFile
  <2>2. \A m \in Curators : Len(tasks[m]) = 0
    BY DEF Init, CurriculumInit
  <2> QED BY <2>1, <2>2 DEF FilesAtHome
<1>6. Allocated /\ TornByWriter
  <2>1. \A r \in Roots, i \in Ids : file[r][i].state = "none"
    BY DEF Init, CurriculumInit, NoFile
  <2>2. \A m \in Curators : Len(tasks[m]) = 0 /\ curating[m] = "idle"
    BY DEF Init, CurriculumInit
  <2> QED BY <2>1, <2>2 DEF Allocated, TornByWriter
<1>3. AuthorOK
  <2>1. disk = Contents /\ saving = NotSaving /\ edited = {} /\ edits = 0 /\ saves = 0
    BY DEF Init, PackagesInit
  <2>2. PICK p \in Published :
          manifest = [d \in Dirs |->
            [path |-> p.path, declared |-> p.declared, root |-> p.root,
             knowledge |-> Contents[d]["knowledge/k"], tools |-> Contents[d]["mcp/server"]]]
    BY DEF Init, PackagesInit
  <2>3. \A d \in Dirs :
          [path |-> p.path, declared |-> p.declared, root |-> p.root,
           knowledge |-> Contents[d]["knowledge/k"], tools |-> Contents[d]["mcp/server"]] \in Package
    BY DEF PackagesAssumption, Package
  <2>4. manifest \in [Dirs -> Package \cup {Torn}]
    BY <2>2, <2>3
  <2> QED BY <2>1, <2>4 DEF AuthorOK, NotSaving, PackagesAssumption
<1>4. LoaderOK
  BY DEF Init, PackagesInit, LoaderOK, NotLoading
<1>5. RunOK /\ StartsFromOwnSplit /\ RunsWhatItVouchesFor
  BY DEF Init, NoRun, RunOK, StartsFromOwnSplit, RunsWhatItVouchesFor, Stages, Started, Packaged
<1> QED BY <1>1, <1>2, <1>3, <1>4, <1>5, <1>6 DEF IInv

LEMMA NextKeeps ==
  ASSUME CurriculumAssumption, PackagesAssumption, InputsAssumption, IInv, [Next]_vars
  PROVE  IInv'
<1>1. ASSUME NEW m \in Curators, materialize(m), UNCHANGED <<packages, run>>
      PROVE  IInv'
  BY <1>1, CurationKeeps
<1>2. CASE AuthorWorks
  BY <1>2, EditKeeps, SavingKeeps DEF AuthorWorks, Author
<1>3. CASE LoadPackage
  BY <1>3, LoadKeeps
<1>4. CASE RunProceeds
  BY <1>4, RunKeeps
<1>5. CASE UNCHANGED vars
  <2>1. UNCHANGED <<spec, root, curating, tasks, file, disk, manifest, saving, loading, edited,
                    edits, saves, run>>
    BY <1>5 DEF vars, curriculum, packages
  <2>2. CuratorsOK' /\ FilesAtHome' /\ Allocated' /\ TornByWriter' /\ AuthorOK' /\ LoaderOK'
    BY <2>1, CurationUntouched DEF IInv, AuthorOK, LoaderOK
  <2>3. RunOK' /\ StartsFromOwnSplit' /\ RunsWhatItVouchesFor'
    BY <2>1 DEF IInv, RunOK, StartsFromOwnSplit, RunsWhatItVouchesFor
  <2> QED BY <2>2, <2>3 DEF IInv
<1> QED BY <1>1, <1>2, <1>3, <1>4, <1>5 DEF Next

LEMMA Invariance == Spec => []IInv
<1>1. Init => IInv
  BY InitKeeps, CurriculumAssumption, PackagesAssumption, InputsAssumption
<1>2. IInv /\ [Next]_vars => IInv'
  BY NextKeeps, CurriculumAssumption, PackagesAssumption, InputsAssumption
<1> QED BY <1>1, <1>2, PTL DEF Spec

(* Every variable has its type, whoever stages, edits or loads: a run that *)
(* is under way has a task of the split, and one that calls the model has  *)
(* a snapshot that was there, a package directory, a server and a prompt.  *)
THEOREM TypeCorrect == Spec => []InputsTypeOK
<1>1. IInv => InputsTypeOK
  <2> SUFFICES ASSUME IInv PROVE InputsTypeOK
    OBVIOUS
  <2>1. CurriculumTypeOK
    BY DEF IInv, CuratorsOK, CurriculumTypeOK
  <2>2. PackagesTypeOK
    BY DEF IInv, AuthorOK, LoaderOK, PackagesTypeOK
  <2> QED BY <2>1, <2>2 DEF IInv, RunOK, Stages, Started, Packaged, InputsTypeOK
<1> QED BY <1>1, Invariance, PTL

(* A run that is given the root its split was materialized under starts    *)
(* from a whole snapshot that was staged under that root, with any number  *)
(* of other curators and whatever files are below the other roots.         *)
THEOREM StartsFromOwnSplitCorrect == Spec => []StartsFromOwnSplit
<1>1. IInv => StartsFromOwnSplit
  BY DEF IInv
<1> QED BY <1>1, Invariance, PTL

(* The tools and the text of a run are the ones its manifest's hashes are  *)
(* of, and within what the world grants, for any number of edits and saves *)
(* in any directory at any time.                                           *)
THEOREM RunsWhatItVouchesForCorrect == Spec => []RunsWhatItVouchesFor
<1>1. IInv => RunsWhatItVouchesFor
  BY DEF IInv
<1> QED BY <1>1, Invariance, PTL

(* A split is materialized whole or not at all: as many tasks as its       *)
(* manifest counts, no two alike, each from a seed its manifest allots and *)
(* with a snapshot nobody but another curator of the same root can spoil,  *)
(* for any manifests, of any length, and any number of curators.           *)
THEOREM MaterializedCorrect == Spec => []MaterializedAsAllocated
<1>1. IInv => MaterializedAsAllocated
  <2> SUFFICES ASSUME IInv, NEW m \in Curators, curating[m] = "done"
               PROVE  /\ Len(tasks[m]) = total_count(spec[m])
                      /\ IsInjective(tasks[m])
                      /\ \A t \in Range(tasks[m]) :
                           /\ \E i \in DOMAIN spec[m] : Allots(spec[m][i], t.id)
                           /\ file[root[m]][t.id].state = "whole" \/ Spoilt(m, t.id)
    BY DEF MaterializedAsAllocated
  <2> DEFINE s == spec[m]
             ids == iter_seeded(s)
  <2>1. s \in Seq(SplitEntry) /\ valid_split(s)
    BY CurriculumAssumption DEF CurriculumAssumption, IInv, CuratorsOK, Allocated
  <2>2. /\ ids \in Seq(STRING \X Int) /\ Len(ids) = total_count(s)
        /\ \A k \in 1 .. Len(ids) : \E i \in DOMAIN s : Allots(s[i], ids[k])
    BY <2>1, SplitAllots DEF valid_split
  <2>3. /\ tasks[m] \in Seq(Task) /\ Len(tasks[m]) + 1 \notin DOMAIN ids
        /\ \A k \in 1 .. Len(tasks[m]) : k \in DOMAIN ids /\ tasks[m][k].id = ids[k]
    BY DEF IInv, CuratorsOK, Allocated
  <2>4. IsInjective(ids)
    BY <2>1 DEF valid_split
  <2> HIDE DEF ids
  <2>5. Len(ids) \in Nat /\ DOMAIN ids = 1 .. Len(ids)
    BY <2>2
  <2>6. Len(tasks[m]) \in Nat /\ DOMAIN tasks[m] = 1 .. Len(tasks[m])
    BY <2>3
  <2>7. Len(tasks[m]) = Len(ids)
    <3>1. Len(tasks[m]) <= Len(ids)
      BY <2>3, <2>5, <2>6
    <3> QED BY <2>3, <2>5, <2>6, <3>1
  <2>8. IsInjective(tasks[m])
    BY <2>3, <2>4, <2>5, <2>6 DEF IsInjective
  <2>9. ASSUME NEW t \in Range(tasks[m])
        PROVE  /\ \E i \in DOMAIN s : Allots(s[i], t.id)
               /\ file[root[m]][t.id].state = "whole" \/ Spoilt(m, t.id)
    <3>1. PICK k \in 1 .. Len(tasks[m]) : t = tasks[m][k]
      BY <2>6 DEF Range
    <3>2. \E i \in DOMAIN s : Allots(s[i], t.id)
      BY <2>2, <2>3, <2>7, <3>1
    <3>3. t.id \in Ids /\ root[m] \in Roots
      <4>1. t \in Task
        BY <2>3, <3>1
      <4> QED BY <4>1 DEF Task, IInv, CuratorsOK
    <3> DEFINE f == file[root[m]][t.id]
    <3>4. f \in Snapshot /\ f.state # "none" /\ root[f.by] = root[m]
      BY <3>1, <3>3 DEF IInv, CuratorsOK, FilesAtHome
    <3>5. CASE f.state = "torn"
      <4>1. curating[f.by] \in {"writing", "raised"}
        BY <3>3, <3>5 DEF IInv, TornByWriter
      <4>2. f.by \in Curators \ {m} /\ f = [state |-> "torn", by |-> f.by]
        BY <3>4, <3>5, <4>1 DEF Snapshot, NoFile
      <4>3. root[f.by] \in Roots /\ file[root[f.by]][t.id] = f
        BY <3>3, <3>4
      <4>4. file[root[f.by]][t.id] = [state |-> "torn", by |-> f.by]
        BY <4>2, <4>3
      <4>5. Spoilt(m, t.id)
        <5> HIDE DEF f
        <5> QED BY <3>4, <4>1, <4>2, <4>4 DEF Spoilt
      <4> QED BY <3>2, <4>5
    <3>6. f.state # "torn" => f.state = "whole"
      BY <3>4 DEF Snapshot, NoFile
    <3> QED BY <3>2, <3>5, <3>6
  <2> QED BY <2>2, <2>7, <2>8, <2>9
<1> QED BY <1>1, Invariance, PTL
=============================================================================
