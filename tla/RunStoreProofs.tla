--------------------------- MODULE RunStoreProofs ---------------------------
(***************************************************************************)
(* Proofs about the run store, for any runs, directories and loaders.      *)
(***************************************************************************)
EXTENDS RunStore, TLAPS

----------------------------------------------------------------------------
(* The invariant.                                                          *)

(* Every artifact is of its kind, and a run's own is one of a run that was *)
(* given the directory and has begun to store.                             *)
Kind(d, f) ==
  IF f \in {"initial-state", "final-state"} THEN States \cup {NoFile} ELSE Users(d) \cup {NoFile}

KindsOK == \A d \in Dirs, f \in Artifacts : disk[d][f] \in Kind(d, f)

(* What a run has done, by its stage.                                      *)
StagesOK ==
  \A r \in Runs :
    /\ stage[r] = "running" => final[r] = NoState
    /\ stage[r] = "storing" => written[r] \in 0 .. 4
    /\ stage[r] \in {"stored", "indexed"} => written[r] = 5
    /\ stage[r] \in {"storing", "stored", "indexed"} => final[r] \in States
    /\ final[r] = NoState => written[r] = 0
    /\ r \in rows.runs => stage[r] = "indexed"

(* One at a time in a directory.                                           *)
Exclusive ==
  \A q, r \in Runs : (stage[q] = "storing" /\ stage[r] = "storing" /\ dir_of[q] = dir_of[r]) => q = r

(* What a run has written is there, as long as it is the last to write.    *)
Stands(r) == \A i \in 1 .. written[r] : disk[dir_of[r]][WriteOrder[i]] = Content(r, WriteOrder[i])
Held ==
  \A r \in Runs :
    \/ Stands(r)
    \/ stage[r] # "storing" /\ \E q \in Runs \ {r} : dir_of[q] = dir_of[r] /\ final[q] # NoState

(* A manifest is the last artifact of its run.                             *)
ManifestsLast ==
  \A d \in Dirs, r \in Runs : disk[d]["manifest"] = r => dir_of[r] = d /\ written[r] = 5

(* Who stored before a run does so no more, and nothing of theirs is left  *)
(* where the run has written.                                              *)
RunFiles == {"trajectory", "verification"}
Predecessors ==
  \A r \in Runs :
    /\ r \notin before[r]
    /\ \A q \in before[r] : dir_of[q] = dir_of[r] /\ stage[q] \notin {"running", "storing"}
    /\ \A i \in 1 .. written[r] :
         WriteOrder[i] \in RunFiles => disk[dir_of[r]][WriteOrder[i]] \notin before[r]

(* What a load has read: nothing, or a manifest of the directory and, in a *)
(* directory of one run, what goes with it.                                *)
Manifest(l) == load[l].got["manifest"]
LoadOK(l) ==
  /\ load[l].read \in 0 .. 5
  /\ load[l].state = "reading" => load[l].read \in 0 .. 4
  /\ load[l].state = "returned" => load[l].read = 5
  /\ load[l].read = 0 => load[l].got = NothingRead
  /\ Manifest(l) # NoFile =>
       /\ Manifest(l) \in Runs
       /\ dir_of[Manifest(l)] = load[l].dir /\ written[Manifest(l)] = 5
       /\ \A f \in RunFiles : load[l].got[f] # NoFile =>
            /\ load[l].got[f] \in Runs \ before[Manifest(l)]
            /\ dir_of[load[l].got[f]] = load[l].dir
  /\ (load[l].read > 0 /\ load[l].state # "integrity_error") => Manifest(l) # NoFile
  /\ load[l].state # "integrity_error" =>
       \A i \in 1 .. load[l].read : load[l].got[ReadOrder[i]] # NoFile
  /\ (load[l].read > 2 /\ load[l].state # "integrity_error") => HashesMatch(load[l].got)
  /\ Fresh(load[l].dir) =>
       /\ Manifest(l) # NoFile => load[l].state # "integrity_error"
       /\ load[l].state # "integrity_error" =>
            \A i \in 1 .. load[l].read :
              load[l].got[ReadOrder[i]] = Content(Manifest(l), ReadOrder[i])
LoadsOK == \A l \in Loaders : LoadOK(l)

DiskOK == KindsOK /\ StagesOK /\ Exclusive /\ Held /\ ManifestsLast /\ Predecessors
IInv == TypeOK /\ DiskOK /\ LoadsOK

----------------------------------------------------------------------------
(* Facts of the data.                                                      *)

(* Both orders go through all artifacts; the manifest is written last and  *)
(* read first.                                                             *)
LEMMA Orders ==
  /\ Len(WriteOrder) = 5 /\ Len(ReadOrder) = 5
  /\ \A i \in 1 .. 5 : WriteOrder[i] \in Artifacts /\ ReadOrder[i] \in Artifacts
  /\ \A f \in Artifacts : \E i \in 1 .. 5 : WriteOrder[i] = f
  /\ \A f \in Artifacts : \E i \in 1 .. 5 : ReadOrder[i] = f
  /\ \A i \in 1 .. 5 : WriteOrder[i] = "manifest" => i = 5
  /\ WriteOrder[5] = "manifest"
  /\ \A i, j \in 1 .. 5 : WriteOrder[i] = WriteOrder[j] => i = j
  /\ \A i, j \in 1 .. 5 : ReadOrder[i] = ReadOrder[j] => i = j
  /\ ReadOrder[1] = "manifest" /\ ReadOrder[2] = "initial-state" /\ ReadOrder[3] = "final-state"
<1> DEFINE W == WriteOrder
           R == ReadOrder
<1>1. /\ W[1] = "initial-state" /\ W[2] = "final-state" /\ W[3] = "trajectory"
      /\ W[4] = "verification" /\ W[5] = "manifest" /\ Len(W) = 5
  BY DEF WriteOrder
<1>2. /\ R[1] = "manifest" /\ R[2] = "initial-state" /\ R[3] = "final-state"
      /\ R[4] = "verification" /\ R[5] = "trajectory" /\ Len(R) = 5
  BY DEF ReadOrder
<1> HIDE DEF W, R
<1>3. \A i \in 1 .. 5 : i = 1 \/ i = 2 \/ i = 3 \/ i = 4 \/ i = 5
  OBVIOUS
<1>4. \A f \in Artifacts : \E i \in 1 .. 5 : W[i] = f
  BY <1>1 DEF Artifacts
<1>5. \A f \in Artifacts : \E i \in 1 .. 5 : R[i] = f
  BY <1>2 DEF Artifacts
<1>6. \A i \in 1 .. 5 : W[i] \in Artifacts /\ R[i] \in Artifacts
  BY <1>1, <1>2, <1>3 DEF Artifacts
<1>7. \A i, j \in 1 .. 5 : W[i] = W[j] => i = j
  BY <1>1, <1>3
<1>8. \A i, j \in 1 .. 5 : R[i] = R[j] => i = j
  BY <1>2, <1>3
<1> QED BY <1>1, <1>2, <1>4, <1>5, <1>6, <1>7, <1>8 DEF W, R

LEMMA ContentIs ==
  ASSUME NEW r, NEW f \in Artifacts
  PROVE  Content(r, f) = IF f = "initial-state" THEN initial_of[r]
                         ELSE IF f = "final-state" THEN final[r] ELSE r
BY DEF Content, Record

(* A run that stands with all it has written is whole.                     *)
LEMMA StandsWhole ==
  ASSUME NEW r \in Runs, written[r] = 5, Stands(r)
  PROVE  Whole(r)
BY Orders DEF Stands, Whole

(* In a directory of one run that run stands.                              *)
LEMMA FreshStands ==
  ASSUME DiskOK, NEW r \in Runs, Fresh(dir_of[r])
  PROVE  Stands(r)
BY DEF DiskOK, Held, Fresh

----------------------------------------------------------------------------
(* Steps of runs.                                                          *)

(* A load looks at a run whose manifest is there, which changes no more.   *)
LEMMA LoadStays ==
  ASSUME NEW l \in Loaders, LoadOK(l), load'[l] = load[l],
         \A r \in Runs : written[r] = 5 => written'[r] = 5 /\ final'[r] = final[r] /\ before'[r] = before[r]
  PROVE  LoadOK(l)'
<1>1. Manifest(l)' = Manifest(l)
  BY DEF Manifest
<1>2. Manifest(l) # NoFile =>
        /\ written'[Manifest(l)] = 5 /\ final'[Manifest(l)] = final[Manifest(l)]
        /\ before'[Manifest(l)] = before[Manifest(l)]
  BY DEF LoadOK
<1>3. CASE Manifest(l) # NoFile
  <2>1. HashesMatch(load[l].got)' <=> HashesMatch(load[l].got)
    BY <1>1, <1>2, <1>3 DEF HashesMatch, Manifest
  <2>2. \A f : Content(Manifest(l), f)' = Content(Manifest(l), f)
    BY <1>1, <1>2, <1>3 DEF Content, Record
  <2> QED BY <1>1, <1>2, <1>3, <2>1, <2>2 DEF LoadOK, Fresh
<1>4. CASE Manifest(l) = NoFile
  <2>1. load[l].read = 0 \/ load[l].state = "integrity_error"
    BY <1>4 DEF LoadOK
  <2>2. CASE load[l].read = 0
    <3>1. 1 .. load[l].read = {}
      BY <2>2
    <3> QED BY <1>1, <1>4, <2>2, <3>1 DEF LoadOK, Fresh
  <2>3. CASE load[l].state = "integrity_error"
    BY <1>1, <1>4, <2>3 DEF LoadOK, Fresh
  <2> QED BY <2>1, <2>2, <2>3
<1> QED BY <1>3, <1>4

LEMMA LoadsStay ==
  ASSUME LoadsOK, UNCHANGED load,
         \A r \in Runs : written[r] = 5 => written'[r] = 5 /\ final'[r] = final[r] /\ before'[r] = before[r]
  PROVE  LoadsOK'
BY LoadStays DEF LoadsOK

(* A step that touches neither the disk nor a run.                         *)
LEMMA DiskStays ==
  ASSUME DiskOK, UNCHANGED <<stage, written, final, before, disk, rows>>
  PROVE  DiskOK'
<1>1. \A d \in Dirs : Users(d)' = Users(d)
  BY DEF Users
<1>2. KindsOK' /\ ManifestsLast'
  BY <1>1 DEF DiskOK, KindsOK, Kind, ManifestsLast
<1>3. StagesOK' /\ Exclusive'
  BY DEF DiskOK, StagesOK, Exclusive
<1>4. \A r \in Runs : Stands(r)' = Stands(r)
  BY DEF Stands, Content, Record
<1>5. Held'
  BY <1>4 DEF DiskOK, Held
<1>6. Predecessors'
  BY DEF DiskOK, Predecessors
<1> QED BY <1>2, <1>3, <1>5, <1>6 DEF DiskOK

LEMMA FinishKeeps ==
  ASSUME RunStoreAssumption, IInv, NEW r \in Runs, NEW s \in States, Finish(r, s)
  PROVE  IInv'
<1> USE DEF IInv, DiskOK
<1>1. /\ stage[r] = "running" /\ stage' = [stage EXCEPT ![r] = "storing"]
      /\ final' = [final EXCEPT ![r] = s] /\ UNCHANGED <<written, disk, rows, load>>
      /\ ~Storing(dir_of[r]) /\ before' = [before EXCEPT ![r] = Users(dir_of[r])]
  BY DEF Finish
<1>2. TypeOK'
  BY <1>1 DEF TypeOK, Users
<1>3. /\ \A q \in Runs : stage'[q] = IF q = r THEN "storing" ELSE stage[q]
      /\ \A q \in Runs : final'[q] = IF q = r THEN s ELSE final[q]
      /\ \A q \in Runs : before'[q] = IF q = r THEN Users(dir_of[r]) ELSE before[q]
      /\ s # NoState /\ final[r] = NoState /\ written[r] = 0
  BY <1>1 DEF TypeOK, StagesOK, RunStoreAssumption
<1>4. KindsOK'
  <2>1. \A d \in Dirs : Users(d) \subseteq Users(d)'
    BY <1>3 DEF Users
  <2> QED BY <1>1, <2>1 DEF KindsOK, Kind
<1>5. StagesOK'
  BY <1>1, <1>3 DEF StagesOK
<1>6. Exclusive'
  BY <1>1, <1>3 DEF Exclusive, Storing
<1>7. Held'
  <2>1. Stands(r)'
    BY <1>1, <1>3 DEF Stands
  <2>2. ASSUME NEW q \in Runs \ {r}
        PROVE  Stands(q) => Stands(q)'
    BY <1>1, <1>3 DEF Stands, Content, Record
  <2> QED BY <1>3, <2>1, <2>2 DEF Held
<1>8. ManifestsLast'
  BY <1>1 DEF ManifestsLast
<1>9. Predecessors'
  <2> SUFFICES ASSUME NEW q \in Runs
               PROVE  /\ q \notin before'[q]
                      /\ \A p \in before'[q] : dir_of[p] = dir_of[q] /\ stage'[p] \notin {"running", "storing"}
                      /\ \A i \in 1 .. written'[q] :
                           WriteOrder[i] \in RunFiles => disk'[dir_of[q]][WriteOrder[i]] \notin before'[q]
    BY DEF Predecessors
  <2>1. CASE q = r
    <3>1. before'[q] = Users(dir_of[r]) /\ 1 .. written'[q] = {}
      BY <1>1, <1>3, <2>1
    <3>2. ASSUME NEW p \in Users(dir_of[r])
          PROVE  p \in Runs /\ p # r /\ dir_of[p] = dir_of[r] /\ stage[p] \notin {"running", "storing"}
      BY <1>1, <1>3 DEF Users, StagesOK, Storing
    <3> QED BY <1>3, <2>1, <3>1, <3>2
  <2>2. CASE q # r
    <3>1. before'[q] = before[q] /\ before[q] \subseteq Runs /\ r \notin before[q]
      BY <1>1, <1>3, <2>2 DEF TypeOK, Predecessors
    <3> QED BY <1>1, <1>3, <3>1 DEF Predecessors
  <2> QED BY <2>1, <2>2
<1>10. LoadsOK'
  <2>1. \A q \in Runs : written[q] = 5 => written'[q] = 5 /\ final'[q] = final[q] /\ before'[q] = before[q]
    BY <1>1, <1>3
  <2> QED BY <1>1, <2>1, LoadsStay
<1> QED BY <1>2, <1>4, <1>5, <1>6, <1>7, <1>8, <1>9, <1>10

LEMMA WriteKeeps ==
  ASSUME RunStoreAssumption, IInv, NEW r \in Runs, WriteArtifact(r)
  PROVE  IInv' /\ Stands(r)'
<1> USE DEF IInv, DiskOK
<1> DEFINE n == written[r] + 1
           f == WriteOrder[n]
           c == Content(r, f)
           d == dir_of[r]
<1>1. /\ stage[r] = "storing" /\ written[r] \in 0 .. 4 /\ n \in 1 .. 5 /\ f \in Artifacts
      /\ disk' = [disk EXCEPT ![d][f] = c]
      /\ written' = [written EXCEPT ![r] = n]
      /\ stage' = [stage EXCEPT ![r] = IF n = 5 THEN "stored" ELSE @]
      /\ UNCHANGED <<final, before, rows, load>>
  BY Orders DEF WriteArtifact, StagesOK
<1>2. final[r] \in States /\ final[r] # NoState /\ d \in Dirs
  BY <1>1 DEF StagesOK, RunStoreAssumption
<1>3. c \in Kind(d, f) /\ (c = r \/ c \in States)
  BY <1>1, <1>2, ContentIs DEF Kind, Users, RunStoreAssumption
<1> HIDE DEF f, c, n
<1>4. /\ \A e \in Dirs, g \in Artifacts : disk'[e][g] = IF e = d /\ g = f THEN c ELSE disk[e][g]
      /\ \A q \in Runs : written'[q] = IF q = r THEN n ELSE written[q]
      /\ \A q \in Runs : stage'[q] = IF q = r /\ n = 5 THEN "stored" ELSE stage[q]
  BY <1>1, <1>2 DEF TypeOK
<1>5. TypeOK'
  <2>1. c \in Runs \cup States \cup {NoFile}
    BY <1>3
  <2>2. disk' \in [Dirs -> [Artifacts -> Runs \cup States \cup {NoFile}]]
    BY <1>1, <2>1 DEF TypeOK
  <2>3. written' \in [Runs -> 0 .. Len(WriteOrder)]
    BY <1>1, Orders DEF TypeOK
  <2> QED BY <1>1, <2>2, <2>3 DEF TypeOK
<1>6. KindsOK'
  <2>1. \A e \in Dirs : Users(e)' = Users(e)
    BY <1>1 DEF Users
  <2>2. \A e \in Dirs, g \in Artifacts : Kind(e, g)' = Kind(e, g)
    BY <2>1 DEF Kind
  <2> QED BY <1>3, <1>4, <2>2 DEF KindsOK
<1>7. StagesOK'
  BY <1>1, <1>2, <1>4 DEF StagesOK, n
<1>8. Exclusive'
  BY <1>1, <1>4 DEF Exclusive
<1>9. Stands(r)'
  <2>1. Stands(r)
    BY <1>1 DEF Held
  <2>2. \A i \in 1 .. n - 1 : WriteOrder[i] \in Artifacts /\ WriteOrder[i] # f
    BY <1>1, Orders DEF f
  <2>3. \A i \in 1 .. n - 1 : disk'[d][WriteOrder[i]] = Content(r, WriteOrder[i])
    <3> SUFFICES ASSUME NEW i \in 1 .. n - 1
                 PROVE  disk'[d][WriteOrder[i]] = Content(r, WriteOrder[i])
      OBVIOUS
    <3>1. i \in 1 .. written[r]
      BY <1>1 DEF n
    <3> QED BY <1>2, <1>4, <2>1, <2>2, <3>1 DEF Stands
  <2>4. disk'[d][f] = c
    BY <1>1, <1>2, <1>4
  <2>5. \A g : Content(r, g)' = Content(r, g)
    BY <1>1 DEF Content, Record
  <2> QED BY <1>1, <1>4, <2>3, <2>4, <2>5 DEF Stands, f, c
<1>10. Held'
  <2> SUFFICES ASSUME NEW q \in Runs, q # r
               PROVE  \/ Stands(q)'
                      \/ stage'[q] # "storing"
                         /\ \E p \in Runs \ {q} : dir_of[p] = dir_of[q] /\ final'[p] # NoState
    BY <1>9 DEF Held
  <2>1. CASE dir_of[q] = d
    <3>1. stage'[q] # "storing"
      BY <1>1, <1>4, <2>1 DEF Exclusive
    <3> QED BY <1>1, <1>2, <2>1, <3>1
  <2>2. CASE dir_of[q] # d
    <3>1. written[q] \in 0 .. 5 /\ dir_of[q] \in Dirs
      BY Orders DEF TypeOK, RunStoreAssumption
    <3>2. Stands(q) => Stands(q)'
      BY <1>1, <1>4, <2>2, <3>1, Orders DEF Stands, Content, Record
    <3> QED BY <1>1, <1>4, <3>2 DEF Held
  <2> QED BY <2>1, <2>2
<1>11. ManifestsLast'
  <2> SUFFICES ASSUME NEW e \in Dirs, NEW q \in Runs, disk'[e]["manifest"] = q
               PROVE  dir_of[q] = e /\ written'[q] = 5
    BY DEF ManifestsLast
  <2>1. "manifest" \in Artifacts
    BY DEF Artifacts
  <2>2. CASE e = d /\ f = "manifest"
    <3>1. n = 5
      BY <1>1, <2>2, Orders DEF f
    <3>2. q = r
      BY <1>4, <2>1, <2>2 DEF c, Content, Record
    <3> QED BY <1>4, <2>2, <3>1, <3>2
  <2>3. CASE ~(e = d /\ f = "manifest")
    <3>1. disk[e]["manifest"] = q
      BY <1>4, <2>1, <2>3
    <3>2. dir_of[q] = e /\ written[q] = 5
      BY <3>1 DEF ManifestsLast
    <3>3. q # r
      BY <1>1, <3>2 DEF StagesOK, n
    <3> QED BY <1>4, <3>2, <3>3
  <2> QED BY <2>2, <2>3
<1>12. Predecessors'
  <2> SUFFICES ASSUME NEW q \in Runs
               PROVE  /\ \A p \in before[q] : stage'[p] \notin {"running", "storing"}
                      /\ \A i \in 1 .. written'[q] :
                           WriteOrder[i] \in RunFiles => disk'[dir_of[q]][WriteOrder[i]] \notin before[q]
    BY <1>1 DEF Predecessors
  <2>1. r \notin before[q] /\ before[q] \subseteq Runs
    BY <1>1 DEF Predecessors, TypeOK
  <2>2. \A p \in before[q] : stage'[p] \notin {"running", "storing"}
    BY <1>4, <2>1 DEF Predecessors
  <2>3. f \in RunFiles => c = r
    BY <1>1, ContentIs DEF RunFiles, c
  <2>4. ASSUME NEW i \in 1 .. written'[q], WriteOrder[i] \in RunFiles
        PROVE  disk'[dir_of[q]][WriteOrder[i]] \notin before[q]
    <3>1. dir_of[q] \in Dirs /\ WriteOrder[i] \in Artifacts
      BY <2>4 DEF RunStoreAssumption, RunFiles, Artifacts
    <3>2. CASE dir_of[q] = d /\ WriteOrder[i] = f
      BY <1>4, <2>1, <2>3, <2>4, <3>1, <3>2
    <3>3. CASE ~(dir_of[q] = d /\ WriteOrder[i] = f)
      <4>1. i \in 1 .. written[q]
        <5>1. q = r => i # n
          BY <3>3 DEF f
        <5> QED BY <1>1, <1>4, <2>4, <5>1 DEF n
      <4>2. disk'[dir_of[q]][WriteOrder[i]] = disk[dir_of[q]][WriteOrder[i]]
        BY <1>4, <3>1, <3>3
      <4> QED BY <2>4, <4>1, <4>2 DEF Predecessors
    <3> QED BY <3>2, <3>3
  <2> QED BY <2>2, <2>4
<1>13. LoadsOK'
  <2>1. \A q \in Runs : written[q] = 5 => written'[q] = 5 /\ final'[q] = final[q] /\ before'[q] = before[q]
    BY <1>1, <1>4 DEF StagesOK, n
  <2> QED BY <1>1, <2>1, LoadsStay
<1> QED BY <1>5, <1>6, <1>7, <1>8, <1>9, <1>10, <1>11, <1>12, <1>13

(* The run is indexed, or fails.                                           *)
LEMMA EndKeeps ==
  ASSUME RunStoreAssumption, IInv, NEW r \in Runs, InsertRun(r) \/ Fail(r)
  PROVE  IInv'
<1> USE DEF IInv, DiskOK
<1>1. UNCHANGED <<written, final, before, disk, load>>
  BY DEF InsertRun, Fail
<1>2. PICK to \in {"indexed", "failed"} :
        /\ stage' = [stage EXCEPT ![r] = to]
        /\ to = "indexed" => stage[r] = "stored" /\ rows'.runs = rows.runs \cup {r}
        /\ to = "failed" => stage[r] # "indexed" /\ rows' = rows
  BY DEF InsertRun, Fail
<1>3. rows' \in [runs: SUBSET Runs, tasks: [Tasks -> Runs \cup {NoRun}]]
  <2>1. rows \in [runs: SUBSET Runs, tasks: [Tasks -> Runs \cup {NoRun}]]
    BY DEF TypeOK
  <2>2. CASE InsertRun(r)
    <3>1. rows' = [runs |-> rows.runs \cup {r}, tasks |-> [rows.tasks EXCEPT ![task_of[r]] = r]]
      BY <2>2 DEF InsertRun
    <3>2. [rows.tasks EXCEPT ![task_of[r]] = r] \in [Tasks -> Runs \cup {NoRun}]
      BY <2>1
    <3> QED BY <2>1, <3>1, <3>2
  <2>3. CASE Fail(r)
    BY <2>1, <2>3 DEF Fail
  <2> QED BY <2>2, <2>3
<1>4. TypeOK'
  BY <1>1, <1>2, <1>3 DEF TypeOK
<1>5. \A q \in Runs : stage'[q] = IF q = r THEN to ELSE stage[q]
  BY <1>2 DEF TypeOK
<1>6. StagesOK'
  BY <1>1, <1>2, <1>5 DEF StagesOK
<1>7. KindsOK' /\ ManifestsLast'
  BY <1>1 DEF KindsOK, Kind, Users, ManifestsLast
<1>8. Exclusive'
  BY <1>5 DEF Exclusive
<1>9. Held'
  BY <1>1, <1>5 DEF Held, Stands, Content, Record
<1>10. Predecessors'
  <2>1. \A q \in Runs : before[q] \subseteq Runs
    BY DEF TypeOK
  <2>2. \A q \in Runs : stage[q] \notin {"running", "storing"} => stage'[q] \notin {"running", "storing"}
    BY <1>5
  <2> QED BY <1>1, <2>1, <2>2 DEF Predecessors
<1>11. LoadsOK'
  BY <1>1, LoadsStay
<1> QED BY <1>4, <1>6, <1>7, <1>8, <1>9, <1>10, <1>11

----------------------------------------------------------------------------
(* Steps of loaders.                                                       *)

LEMMA BeginLoadKeeps ==
  ASSUME RunStoreAssumption, IInv, NEW l \in Loaders, NEW d \in Dirs, BeginLoad(l, d)
  PROVE  IInv'
<1>1. /\ UNCHANGED <<stage, written, final, before, disk, rows>>
      /\ load' = [load EXCEPT ![l] = [state |-> "reading", dir |-> d, read |-> 0, got |-> NothingRead]]
  BY DEF BeginLoad
<1>2. TypeOK'
  <2>1. NothingRead \in [Artifacts -> Runs \cup States \cup {NoFile}]
    BY DEF NothingRead
  <2>2. load' \in [Loaders -> [state: {"idle", "reading", "returned", "integrity_error"},
                               dir: Dirs, read: 0 .. Len(ReadOrder),
                               got: [Artifacts -> Runs \cup States \cup {NoFile}]]]
    BY <1>1, <2>1, Orders DEF IInv, TypeOK
  <2> QED BY <1>1, <2>2 DEF IInv, TypeOK
<1>3. DiskOK'
  BY <1>1, DiskStays DEF IInv
<1>4. ASSUME NEW k \in Loaders PROVE LoadOK(k)'
  <2>1. CASE k = l
    <3>1. load'[k] = [state |-> "reading", dir |-> d, read |-> 0, got |-> NothingRead]
      BY <1>1, <2>1 DEF IInv, TypeOK
    <3>2. NothingRead["manifest"] = NoFile
      BY DEF NothingRead, Artifacts
    <3>3. 1 .. 0 = {}
      OBVIOUS
    <3> QED BY <3>1, <3>2, <3>3 DEF LoadOK, Manifest
  <2>2. CASE k # l
    <3>1. load'[k] = load[k]
      BY <1>1, <2>2
    <3> QED BY <1>1, <3>1, LoadStays DEF IInv, LoadsOK
  <2> QED BY <2>1, <2>2
<1> QED BY <1>2, <1>3, <1>4 DEF IInv, LoadsOK

LEMMA ReadKeeps ==
  ASSUME RunStoreAssumption, IInv, NEW l \in Loaders, ReadArtifact(l)
  PROVE  IInv'
<1> DEFINE n == load[l].read + 1
           f == ReadOrder[n]
           d == load[l].dir
           bytes == disk[d][f]
           got == [load[l].got EXCEPT ![f] = bytes]
           broken == bytes = NoFile \/ (f = "final-state" /\ ~HashesMatch(got))
           to == IF broken THEN "integrity_error" ELSE IF n = 5 THEN "returned" ELSE "reading"
<1>1. /\ UNCHANGED <<stage, written, final, before, disk, rows>> /\ load[l].state = "reading"
      /\ load' = [load EXCEPT ![l] = [state |-> to, dir |-> d, read |-> n, got |-> got]]
  <2>1. Len(ReadOrder) = 5
    BY Orders
  <2> QED BY <2>1 DEF ReadArtifact
<1>2. /\ load[l] \in [state: {"reading"}, dir: Dirs, read: 0 .. 4,
                      got: [Artifacts -> Runs \cup States \cup {NoFile}]]
      /\ LoadOK(l)
  <2>1. LoadOK(l) /\ load[l].read \in 0 .. 4
    BY <1>1 DEF IInv, LoadsOK, LoadOK
  <2> QED BY <1>1, <2>1 DEF IInv, TypeOK
<1>3. n \in 1 .. 5 /\ f \in Artifacts /\ d \in Dirs
      /\ bytes \in Kind(d, f) /\ bytes \in Runs \cup States \cup {NoFile}
  BY <1>2, Orders DEF IInv, TypeOK, DiskOK, KindsOK
<1>4. got \in [Artifacts -> Runs \cup States \cup {NoFile}]
      /\ \A g \in Artifacts : got[g] = IF g = f THEN bytes ELSE load[l].got[g]
  BY <1>2, <1>3
<1>5. load'[l] = [state |-> to, dir |-> d, read |-> n, got |-> got]
  BY <1>1, <1>2 DEF IInv, TypeOK
<1>6. to \in {"reading", "returned", "integrity_error"}
      /\ (to = "integrity_error" <=> broken) /\ (to = "returned" => n = 5)
      /\ (to = "reading" => n \in 0 .. 4)
  BY <1>3
<1>7. TypeOK'
  <2>1. load' \in [Loaders -> [state: {"idle", "reading", "returned", "integrity_error"},
                               dir: Dirs, read: 0 .. Len(ReadOrder),
                               got: [Artifacts -> Runs \cup States \cup {NoFile}]]]
    <3> HIDE DEF n, got, to, broken, f, d
    <3>1. [state |-> to, dir |-> d, read |-> n, got |-> got] \in
            [state: {"idle", "reading", "returned", "integrity_error"}, dir: Dirs,
             read: 0 .. 5, got: [Artifacts -> Runs \cup States \cup {NoFile}]]
      BY <1>2, <1>3, <1>4, <1>6
    <3> QED BY <1>1, <3>1, Orders DEF IInv, TypeOK
  <2> QED BY <1>1, <2>1 DEF IInv, TypeOK
<1>8. DiskOK'
  BY <1>1, DiskStays DEF IInv
<1>9. LoadOK(l)'
  <2> DEFINE m == got["manifest"]
  <2>1. "manifest" \in Artifacts /\ "initial-state" \in Artifacts /\ "final-state" \in Artifacts
    BY DEF Artifacts
  <2>9. n # 1 => m = load[l].got["manifest"] /\ load[l].read > 0
    <3>1. n # 1 => f # "manifest"
      BY <1>3, Orders
    <3> QED BY <1>2, <1>4, <2>1, <3>1
  <2>2. m # NoFile => m \in Runs /\ dir_of[m] = d /\ written[m] = 5
    <3>1. CASE n = 1
      <4>1. m = disk[d]["manifest"]
        BY <1>4, <2>1, <3>1, Orders
      <4>2. m \in Users(d) \cup {NoFile}
        BY <1>3, <3>1, <4>1, Orders DEF Kind
      <4>3. m # NoFile => m \in Runs
        BY <4>2 DEF Users
      <4>4. d \in Dirs /\ ManifestsLast
        BY <1>3 DEF IInv, DiskOK
      <4> HIDE DEF d, got
      <4> QED BY <4>1, <4>3, <4>4 DEF ManifestsLast
    <3>2. CASE n # 1
      BY <1>2, <2>9, <3>2 DEF LoadOK, Manifest
    <3> QED BY <3>1, <3>2
  <2>3. ~broken => m # NoFile
    <3>1. CASE n = 1
      BY <1>4, <2>1, <3>1, Orders
    <3>2. CASE n # 1
      BY <1>2, <2>9, <3>2 DEF LoadOK, Manifest
    <3> QED BY <3>1, <3>2
  <2>4. (n > 2 /\ ~broken) => HashesMatch(got)
    <3>1. CASE n = 3
      BY <3>1, Orders
    <3>2. CASE n > 3
      <4>1. got["manifest"] = load[l].got["manifest"]
            /\ got["initial-state"] = load[l].got["initial-state"]
            /\ got["final-state"] = load[l].got["final-state"]
        <5>1. f # "manifest" /\ f # "initial-state" /\ f # "final-state"
          <6>1. \A i, j \in 1 .. 5 : ReadOrder[i] = ReadOrder[j] => i = j
            BY Orders
          <6>2. ReadOrder[1] = "manifest" /\ ReadOrder[2] = "initial-state" /\ ReadOrder[3] = "final-state"
            BY Orders
          <6>3. n \in 1 .. 5 /\ n # 1 /\ n # 2 /\ n # 3
            BY <1>3, <3>2
          <6> HIDE DEF n
          <6> QED BY <6>1, <6>2, <6>3
        <5> HIDE DEF f, got, bytes
        <5> QED BY <1>4, <2>1, <5>1
      <4>2. HashesMatch(load[l].got)
        BY <1>2, <3>2 DEF LoadOK
      <4> QED BY <4>1, <4>2 DEF HashesMatch
    <3> QED BY <1>3, <3>1, <3>2
  <2>5. ASSUME Fresh(d), m # NoFile
        PROVE  /\ ~broken
               /\ \A i \in 1 .. n : got[ReadOrder[i]] = Content(m, ReadOrder[i])
    <3>1. Whole(m)
      BY <2>2, <2>5, FreshStands, StandsWhole DEF IInv
    <3>2. bytes = Content(m, f)
      BY <1>3, <2>2, <2>5, <3>1 DEF Whole
    <3>3. final[m] \in States /\ initial_of[m] \in States
      <4>1. m \in Runs /\ written[m] = 5
        BY <2>2, <2>5
      <4>2. final[m] # NoState
        BY <4>1 DEF IInv, DiskOK, StagesOK
      <4> QED BY <4>1, <4>2 DEF IInv, TypeOK, RunStoreAssumption
    <3>4. Content(m, f) \in Runs \cup States
      <4>1. m \in Runs
        BY <2>2, <2>5
      <4>2. Content(m, f) = IF f = "initial-state" THEN initial_of[m]
                            ELSE IF f = "final-state" THEN final[m] ELSE m
        BY <1>3, ContentIs, Zenon
      <4> HIDE DEF m, f
      <4> QED BY <3>3, <4>1, <4>2
    <3>5. bytes # NoFile
      BY <1>3, <2>2, <2>5, <3>2, <3>3, <3>4, Zenon DEF RunStoreAssumption
    <3>6. \A i \in 1 .. n - 1 : got[ReadOrder[i]] = Content(m, ReadOrder[i])
      <4> SUFFICES ASSUME NEW i \in 1 .. n - 1 PROVE got[ReadOrder[i]] = Content(m, ReadOrder[i])
        OBVIOUS
      <4>1. ReadOrder[i] \in Artifacts /\ ReadOrder[i] # f /\ ReadOrder[1] # f /\ n > 1
            /\ i \in 1 .. load[l].read /\ ReadOrder[1] = "manifest"
        BY <1>2, <1>3, Orders
      <4>2. load[l].got[ReadOrder[i]] = Content(load[l].got["manifest"], ReadOrder[i])
        BY <1>2, <2>5, <4>1 DEF LoadOK, Manifest
      <4> QED BY <1>4, <2>1, <4>1, <4>2
    <3>7. \A i \in 1 .. n : got[ReadOrder[i]] = Content(m, ReadOrder[i])
      <4> SUFFICES ASSUME NEW i \in 1 .. n PROVE got[ReadOrder[i]] = Content(m, ReadOrder[i])
        OBVIOUS
      <4>1. CASE i = n
        BY <1>3, <1>4, <3>2, <4>1
      <4>2. CASE i # n
        <5>1. i \in 1 .. n - 1
          BY <1>3, <4>2
        <5> QED BY <3>6, <5>1
      <4> QED BY <4>1, <4>2
    <3>8. f = "final-state" => HashesMatch(got)
      <4> SUFFICES ASSUME f = "final-state" PROVE HashesMatch(got)
        OBVIOUS
      <4>1. n = 3
        BY <1>3, Orders
      <4>2. got["initial-state"] = Content(m, "initial-state")
            /\ got["final-state"] = Content(m, "final-state")
        BY <3>7, <4>1, Orders
      <4>3. "initial-state" \in Artifacts /\ "final-state" \in Artifacts
        BY DEF Artifacts
      <4> QED BY <4>2, <4>3, ContentIs DEF HashesMatch
    <3> QED BY <3>5, <3>7, <3>8
  <2>6. ~broken => \A i \in 1 .. n : got[ReadOrder[i]] # NoFile
    <3> SUFFICES ASSUME ~broken, NEW i \in 1 .. n PROVE got[ReadOrder[i]] # NoFile
      OBVIOUS
    <3>1. CASE i = n
      <4>1. ReadOrder[i] = f /\ f \in Artifacts
        BY <1>3, <3>1
      <4>2. got[f] # NoFile
        BY <1>4, <4>1
      <4> QED BY <4>1, <4>2
    <3>2. CASE i # n
      <4>1. i \in 1 .. load[l].read
        BY <1>2, <3>2
      <4>2. ReadOrder[i] \in Artifacts /\ ReadOrder[i] # f
        <5>1. n \in 1 .. 5 /\ i \in 1 .. 5 /\ i # n /\ f = ReadOrder[n]
          BY <1>3, <3>2
        <5> HIDE DEF n, f
        <5> QED BY <5>1, Orders
      <4>3. load[l].got[ReadOrder[i]] # NoFile
        BY <1>1, <1>2, <4>1 DEF LoadOK
      <4> HIDE DEF f, got, bytes
      <4> QED BY <1>4, <4>2, <4>3
    <3> QED BY <3>1, <3>2
  <2>7. ASSUME m # NoFile, NEW g \in RunFiles, got[g] # NoFile
        PROVE  got[g] \in Runs \ before[m] /\ dir_of[got[g]] = d
    <3>1. g \in Artifacts /\ g \notin {"initial-state", "final-state"}
      BY DEF RunFiles, Artifacts
    <3>2. CASE g = f
      <4>1. got[g] = disk[d][g] /\ disk[d][g] \in Users(d)
        BY <1>3, <1>4, <2>7, <3>1, <3>2 DEF Kind
      <4>2. PICK i \in 1 .. 5 : WriteOrder[i] = g
        BY <3>1, Orders
      <4>3. m \in Runs /\ dir_of[m] = d /\ written[m] = 5
        BY <2>2, <2>7
      <4> HIDE DEF m, got, f, bytes
      <4> QED BY <4>1, <4>2, <4>3 DEF Users, IInv, DiskOK, Predecessors
    <3>3. CASE g # f
      <4>1. got[g] = load[l].got[g]
        BY <1>4, <3>1, <3>3
      <4>2. n # 1 => m = load[l].got["manifest"]
        BY <2>9
      <4>3. n = 1 => load[l].got[g] = NoFile
        BY <1>2, <3>1 DEF LoadOK, NothingRead
      <4> HIDE DEF m, got, f, bytes, n
      <4> QED BY <1>2, <2>7, <4>1, <4>2, <4>3 DEF LoadOK, Manifest
    <3> QED BY <3>2, <3>3
  <2> HIDE DEF broken, to, got, bytes, f
  <2>8. LoadOK(l)' <=>
          /\ n \in 0 .. 5
          /\ to = "reading" => n \in 0 .. 4
          /\ to = "returned" => n = 5
          /\ n = 0 => got = NothingRead
          /\ m # NoFile =>
               /\ m \in Runs /\ dir_of[m] = d /\ written[m] = 5
               /\ \A g \in RunFiles : got[g] # NoFile =>
                    got[g] \in Runs \ before[m] /\ dir_of[got[g]] = d
          /\ to # "integrity_error" => \A i \in 1 .. n : got[ReadOrder[i]] # NoFile
          /\ (n > 0 /\ to # "integrity_error") => m # NoFile
          /\ (n > 2 /\ to # "integrity_error") => HashesMatch(got)
          /\ Fresh(d) =>
               /\ m # NoFile => to # "integrity_error"
               /\ to # "integrity_error" =>
                    \A i \in 1 .. n : got[ReadOrder[i]] = Content(m, ReadOrder[i])
    BY <1>1, <1>5 DEF LoadOK, Manifest, Fresh, HashesMatch, Content, Record
  <2> QED BY <1>3, <1>6, <2>2, <2>3, <2>4, <2>5, <2>6, <2>7, <2>8
<1>10. ASSUME NEW k \in Loaders, k # l PROVE LoadOK(k)'
  <2>1. load'[k] = load[k]
    BY <1>1, <1>10
  <2> QED BY <1>1, <2>1, LoadStays DEF IInv, LoadsOK
<1> QED BY <1>7, <1>8, <1>9, <1>10 DEF IInv, LoadsOK

----------------------------------------------------------------------------
(* The theorems.                                                           *)

LEMMA InitKeeps ==
  ASSUME RunStoreAssumption, Init
  PROVE  IInv
<1>1. /\ \A r \in Runs : stage[r] = "running" /\ written[r] = 0 /\ final[r] = NoState
      /\ rows.runs = {}
      /\ \A d \in Dirs, f \in Artifacts : disk[d][f] = NoFile
      /\ \A l \in Loaders : load[l] = Unread
  BY DEF Init, NothingRead
<1>2. Unread \in [state: {"idle"}, dir: Dirs, read: {0}, got: {NothingRead}]
  <2>1. (CHOOSE d \in Dirs : TRUE) \in Dirs
    BY DEF RunStoreAssumption
  <2> QED BY <2>1 DEF Unread
<1>3. TypeOK
  <2>1. NothingRead \in [Artifacts -> Runs \cup States \cup {NoFile}]
    BY DEF NothingRead
  <2>2. load \in [Loaders -> [state: {"idle", "reading", "returned", "integrity_error"},
                              dir: Dirs, read: 0 .. Len(ReadOrder),
                              got: [Artifacts -> Runs \cup States \cup {NoFile}]]]
    BY <1>2, <2>1, Orders DEF Init
  <2>3. written \in [Runs -> 0 .. Len(WriteOrder)]
    BY Orders DEF Init
  <2> QED BY <2>1, <2>2, <2>3 DEF Init, TypeOK
<1>4. DiskOK
  <2>1. KindsOK
    BY <1>1 DEF KindsOK, Kind
  <2>2. StagesOK /\ Exclusive
    BY <1>1 DEF StagesOK, Exclusive
  <2>3. Held
    <3> SUFFICES ASSUME NEW r \in Runs PROVE Stands(r)
      BY DEF Held
    <3>1. written[r] = 0
      BY <1>1
    <3> QED BY <3>1 DEF Stands
  <2>4. ManifestsLast
    BY <1>1 DEF ManifestsLast, Artifacts, RunStoreAssumption
  <2>5. Predecessors
    <3>1. \A r \in Runs : before[r] = {}
      BY DEF Init
    <3>2. \A r \in Runs : written[r] = 0
      BY <1>1
    <3> QED BY <3>1, <3>2 DEF Predecessors
  <2> QED BY <2>1, <2>2, <2>3, <2>4, <2>5 DEF DiskOK
<1>5. LoadsOK
  <2> SUFFICES ASSUME NEW l \in Loaders PROVE LoadOK(l)
    BY DEF LoadsOK
  <2>1. load[l].state = "idle" /\ load[l].read = 0 /\ load[l].got = NothingRead
    BY <1>1, <1>2
  <2>2. Manifest(l) = NoFile /\ 1 .. load[l].read = {}
    BY <2>1 DEF Manifest, NothingRead, Artifacts
  <2> QED BY <2>1, <2>2 DEF LoadOK
<1> QED BY <1>3, <1>4, <1>5 DEF IInv

LEMMA NextKeeps ==
  ASSUME RunStoreAssumption, IInv, [Next]_vars
  PROVE  IInv'
<1>1. CASE UNCHANGED vars
  <2>1. UNCHANGED <<stage, written, final, before, disk, rows, load>>
    BY <1>1 DEF vars
  <2>2. TypeOK' /\ DiskOK'
    BY <2>1, DiskStays DEF IInv, TypeOK
  <2>3. LoadsOK'
    BY <2>1, LoadsStay DEF IInv
  <2> QED BY <2>2, <2>3 DEF IInv
<1>2. CASE Next
  BY <1>2, FinishKeeps, WriteKeeps, EndKeeps, BeginLoadKeeps, ReadKeeps DEF Next
<1> QED BY <1>1, <1>2

LEMMA Invariance == Spec => []IInv
<1>1. Init => IInv
  BY InitKeeps, RunStoreAssumption
<1>2. IInv /\ [Next]_vars => IInv'
  BY NextKeeps, RunStoreAssumption
<1> QED BY <1>1, <1>2, PTL DEF Spec

(* Every variable has its type, for any runs, directories and loaders.     *)
THEOREM TypeCorrect == Spec => []TypeOK
<1>1. IInv => TypeOK
  BY DEF IInv
<1> QED BY <1>1, Invariance, PTL

(* What the index lists is whole on disk, unless the directory was given   *)
(* to a second run, which has begun to store.                              *)
THEOREM IndexCorrect == Spec => []IndexedRunsStored
<1>1. IInv => IndexedRunsStored
  <2> SUFFICES ASSUME IInv, NEW r \in rows.runs
               PROVE  Whole(r) \/ \E q \in Runs \ {r} : dir_of[q] = dir_of[r] /\ final[q] # NoState
    BY DEF IndexedRunsStored
  <2>1. r \in Runs /\ written[r] = 5
    BY DEF IInv, TypeOK, DiskOK, StagesOK
  <2> QED BY <2>1, StandsWhole DEF IInv, DiskOK, Held
<1> QED BY <1>1, Invariance, PTL

(* Whatever runs share a directory and die in it, a load that meets the    *)
(* manifest of one gets nothing that an earlier one has left there.        *)
THEOREM LoadsNotStaleCorrect == Spec => []LoadsNotStale
<1>1. ASSUME IInv, NEW l \in Loaders, load[l].state = "returned", NEW f \in Artifacts
      PROVE  \E r \in Runs \ before[Manifest(l)] :
               dir_of[r] = load[l].dir /\ load[l].got[f] = Content(r, f)
  <2>1. LoadOK(l) /\ load[l].read = 5
    BY <1>1 DEF IInv, LoadsOK, LoadOK
  <2>2. Manifest(l) # NoFile /\ load[l].got[f] # NoFile /\ HashesMatch(load[l].got)
    <3>1. PICK i \in 1 .. 5 : ReadOrder[i] = f
      BY Orders
    <3>2. load[l].got[ReadOrder[i]] # NoFile
      BY <1>1, <2>1 DEF LoadOK
    <3> QED BY <1>1, <2>1, <3>1, <3>2 DEF LoadOK
  <2>3. /\ Manifest(l) \in Runs \ before[Manifest(l)]
        /\ dir_of[Manifest(l)] = load[l].dir
    BY <1>1, <2>1, <2>2 DEF LoadOK, IInv, DiskOK, Predecessors
  <2>4. CASE f \in RunFiles
    <3>1. load[l].got[f] \in Runs \ before[Manifest(l)] /\ dir_of[load[l].got[f]] = load[l].dir
      BY <2>1, <2>2, <2>4 DEF LoadOK
    <3>2. Content(load[l].got[f], f) = load[l].got[f]
      BY <2>4, ContentIs DEF RunFiles
    <3> QED BY <3>1, <3>2
  <2>5. CASE f \notin RunFiles
    <3>1. load[l].got[f] = Content(Manifest(l), f)
      <4>1. f \in {"initial-state", "final-state", "manifest"}
        BY <2>5 DEF Artifacts, RunFiles
      <4> QED BY <2>2, <4>1, ContentIs DEF HashesMatch, Manifest
    <3> QED BY <2>3, <3>1
  <2> QED BY <2>4, <2>5
<1>2. IInv => LoadsNotStale
  BY <1>1 DEF LoadsNotStale, Manifest
<1> QED BY <1>2, Invariance, PTL

(* A store that comes to its end has left nothing of another run in its    *)
(* directory, whatever that run had written before.                        *)
THEOREM StoreCorrect == Spec => StoreLeavesOneRun
<1>1. IInv /\ [Next]_vars =>
        [\A r \in Runs : (stage[r] # "stored" /\ stage'[r] = "stored") => Whole(r)']_vars
  <2> SUFFICES ASSUME IInv, Next, NEW r \in Runs, stage[r] # "stored", stage'[r] = "stored"
               PROVE  Whole(r)'
    OBVIOUS
  <2>1. WriteArtifact(r)
    BY DEF Next, Finish, WriteArtifact, InsertRun, Fail, BeginLoad, ReadArtifact, IInv, TypeOK
  <2>2. IInv' /\ Stands(r)'
    BY <2>1, WriteKeeps, RunStoreAssumption
  <2>3. written'[r] = 5
    BY <2>2 DEF IInv, DiskOK, StagesOK
  <2> QED BY <2>2, <2>3, Orders DEF Stands, Whole
<1> QED BY <1>1, Invariance, PTL DEF Spec, StoreLeavesOneRun

----------------------------------------------------------------------------
(* The store as an archive of the directories that are one run's alone.    *)

Seen == <<Kept, Listed, Asked, Told>>

(* A manifest in a run's own directory says that the record is complete.   *)
LEMMA KeptIsWhole ==
  ASSUME RunStoreAssumption, IInv, NEW d \in OwnDirs, disk[d]["manifest"] # NoFile
  PROVE  \E r \in Runs : /\ dir_of[r] = d /\ written[r] = 5 /\ final[r] \in States
                         /\ disk[d]["manifest"] = r /\ disk[d] = Record(r, final[r])
<1> DEFINE r == disk[d]["manifest"]
<1>1. d \in Dirs /\ Fresh(d) /\ "manifest" \in Artifacts
  BY DEF OwnDirs, Artifacts
<1>2. r \in Runs
  BY <1>1 DEF IInv, DiskOK, KindsOK, Kind, Users
<1>3. dir_of[r] = d /\ written[r] = 5
  BY <1>1, <1>2 DEF IInv, DiskOK, ManifestsLast
<1>4. final[r] \in States
  BY <1>2, <1>3 DEF IInv, TypeOK, DiskOK, StagesOK
<1>5. Whole(r)
  BY <1>1, <1>2, <1>3, FreshStands, StandsWhole DEF IInv
<1>6. disk[d] = [f \in Artifacts |-> disk[d][f]]
  BY <1>1 DEF IInv, TypeOK
<1>7. Record(r, final[r]) = [f \in Artifacts |-> Record(r, final[r])[f]]
  BY DEF Record
<1> HIDE DEF r
<1>8. disk[d] = Record(r, final[r])
  BY <1>3, <1>5, <1>6, <1>7 DEF Whole, Content
<1> QED BY <1>2, <1>3, <1>4, <1>8 DEF r

(* The last of the five files is the store.                                *)
LEMMA WriteIsPromised ==
  ASSUME RunStoreAssumption, IInv, IInv', NEW r \in Runs, WriteArtifact(r)
  PROVE  [Archive!Next]_Seen
<1> DEFINE n == written[r] + 1
           f == WriteOrder[n]
           d == dir_of[r]
<1>1. /\ stage[r] = "storing" /\ n \in 1 .. 5 /\ f \in Artifacts /\ d \in Dirs
      /\ disk' = [disk EXCEPT ![d][f] = Content(r, f)]
      /\ UNCHANGED <<final, before, rows, load>>
  BY Orders DEF WriteArtifact, IInv, DiskOK, StagesOK, RunStoreAssumption
<1>2. f = "manifest" <=> n = 5
  BY <1>1, Orders
<1>3. \A e \in Dirs, g \in Artifacts :
        disk'[e][g] = IF e = d /\ g = f THEN Content(r, f) ELSE disk[e][g]
  BY <1>1 DEF IInv, TypeOK
<1>4. \A e \in Dirs : e # d => disk'[e] = disk[e]
  BY <1>1 DEF IInv, TypeOK
<1>5. UNCHANGED <<Listed, Asked, Told>>
  BY <1>1 DEF Listed, Asked, Told
<1>6. CASE d \notin OwnDirs
  <2>1. Kept' = Kept
    BY <1>4, <1>6 DEF Kept, OwnDirs
  <2> QED BY <1>5, <2>1 DEF Seen
<1>7. CASE d \in OwnDirs
  <2>1. disk[d]["manifest"] = NoFile
    <3> SUFFICES ASSUME disk[d]["manifest"] # NoFile PROVE FALSE
      OBVIOUS
    <3>1. PICK q \in Runs : dir_of[q] = d /\ written[q] = 5
      BY <1>7, KeptIsWhole
    <3>2. q = r
      BY <1>7, <3>1 DEF OwnDirs, Fresh
    <3> QED BY <1>1, <3>1, <3>2
  <2>2. "manifest" \in Artifacts
    BY DEF Artifacts
  <2>3. CASE n # 5
    <3>1. disk'[d]["manifest"] = NoFile
      BY <1>1, <1>2, <1>3, <2>1, <2>2, <2>3
    <3>2. Kept' = Kept
      BY <1>4, <2>1, <3>1 DEF Kept, OwnDirs
    <3> QED BY <1>5, <3>2 DEF Seen
  <2>4. CASE n = 5
    <3>1. disk'[d]["manifest"] = r /\ r # NoFile
      <4>1. Content(r, "manifest") = r
        BY <2>2, ContentIs
      <4> QED BY <1>1, <1>2, <1>3, <2>2, <2>4, <4>1 DEF RunStoreAssumption
    <3>2. \E q \in Runs : dir_of[q] = d /\ final[q] \in States /\ disk'[d] = Record(q, final[q])
      <4>1. /\ stage'[r] = "stored" /\ written'[r] = 5
        BY <1>1, <2>4, Orders DEF WriteArtifact, IInv, TypeOK
      <4>2. Stands(r)'
        BY WriteKeeps
      <4>3. \A g \in Artifacts : disk'[d][g] = Record(r, final[r])[g]
        BY <1>1, <4>1, <4>2, Orders DEF Stands, Content
      <4>4. disk'[d] = [g \in Artifacts |-> disk'[d][g]]
        BY <1>1 DEF IInv, TypeOK
      <4>5. Record(r, final[r]) = [g \in Artifacts |-> Record(r, final[r])[g]]
        BY DEF Record
      <4>6. final[r] \in States
        BY <1>1 DEF IInv, DiskOK, StagesOK
      <4> QED BY <4>3, <4>4, <4>5, <4>6
    <3>3. PICK record : /\ record = disk'[d]
                        /\ record \in {Record(q, s) : q \in {q \in Runs : dir_of[q] = d}, s \in States}
      BY <3>2
    <3>4. Kept[d] = {} /\ Kept' = [Kept EXCEPT ![d] = {record}]
      <4>1. \A e \in OwnDirs : e # d => disk'[e] = disk[e]
        BY <1>4 DEF OwnDirs
      <4> QED BY <1>7, <2>1, <3>1, <3>3, <4>1 DEF Kept
    <3>5. record \in OwnRecords[d]
      BY <1>7, <3>3 DEF OwnRecords
    <3>6. Archive!Store(d)
      BY <1>5, <3>4, <3>5 DEF Archive!Store
    <3> QED BY <1>7, <3>6 DEF Archive!Next
  <2> QED BY <2>3, <2>4
<1> QED BY <1>6, <1>7

(* The answer is given by the last of the reads, and what it says has been *)
(* there since the first found a manifest; or by the first, that found     *)
(* none.                                                                   *)
LEMMA ReadIsPromised ==
  ASSUME RunStoreAssumption, IInv, IInv', NEW l \in Loaders, ReadArtifact(l)
  PROVE  [Archive!Next]_Seen
<1> DEFINE n == load[l].read + 1
           f == ReadOrder[n]
           d == load[l].dir
           to == load'[l].state
           got == load'[l].got
<1>1. /\ UNCHANGED <<final, disk, rows, written>> /\ load[l].state = "reading"
      /\ load[l].read \in 0 .. 4 /\ n \in 1 .. 5 /\ f \in Artifacts /\ d \in Dirs
      /\ LoadOK(l) /\ LoadOK(l)'
  <2>1. UNCHANGED <<final, disk, rows, written>> /\ load[l].state = "reading" /\ d \in Dirs
    BY DEF ReadArtifact, IInv, TypeOK
  <2>2. LoadOK(l) /\ LoadOK(l)'
    BY DEF IInv, LoadsOK
  <2>3. load[l].read \in 0 .. 4
    BY <2>1, <2>2 DEF LoadOK
  <2>4. n \in 1 .. 5 /\ f \in Artifacts
    BY <2>3, Orders
  <2> QED BY <2>1, <2>2, <2>3, <2>4
<1>2. /\ load'[l].dir = d /\ load'[l].read = n
      /\ got = [load[l].got EXCEPT ![f] = disk[d][f]]
      /\ to \in {"reading", "returned", "integrity_error"}
      /\ \A k \in Loaders : k # l => load'[k] = load[k]
  BY <1>1 DEF ReadArtifact, IInv, TypeOK
<1>3. got \in [Artifacts -> Runs \cup States \cup {NoFile}]
      /\ \A g \in Artifacts : got[g] = IF g = f THEN disk[d][f] ELSE load[l].got[g]
  <2>1. load[l].got \in [Artifacts -> Runs \cup States \cup {NoFile}]
    BY DEF IInv, TypeOK
  <2>2. disk[d][f] \in Runs \cup States \cup {NoFile}
    BY <1>1 DEF IInv, TypeOK
  <2> HIDE DEF n, f, d, to, got
  <2> QED BY <1>1, <1>2, <2>1, <2>2
<1>4. UNCHANGED <<Kept, Listed>>
  BY <1>1 DEF Kept, Listed
<1> HIDE DEF n, f, d, to, got
<1>5. load[l].dir = d /\ load'[l].dir = d /\ load'[l].state = to /\ load'[l].got = got
  BY <1>2 DEF d, to, got
<1>6. CASE d \notin OwnDirs \/ to = "reading"
  <2>1. Asked' = Asked
    <3>1. OwnDirs \cap {d} = IF to = "reading" THEN OwnDirs \cap {d} ELSE {}
      BY <1>6
    <3> QED BY <1>1, <1>2, <1>5, <3>1 DEF Asked
  <2>2. Told' = Told
    BY <1>1, <1>2, <1>5, <1>6 DEF Told
  <2> QED BY <1>4, <2>1, <2>2 DEF Seen
<1>7. CASE d \in OwnDirs /\ to \in {"returned", "integrity_error"}
  <2>1. Fresh(d) /\ "manifest" \in Artifacts
    BY <1>7 DEF OwnDirs, Artifacts
  <2>2. ASSUME to = "integrity_error"
        PROVE  Kept[d] = {}
    <3>1. got["manifest"] = NoFile
      BY <1>1, <1>5, <2>1, <2>2 DEF LoadOK, Manifest, Fresh
    <3>2. n = 1
      <4> SUFFICES ASSUME n # 1 PROVE FALSE
        OBVIOUS
      <4>1. f # "manifest" /\ load[l].read > 0
        BY <1>1, Orders DEF f, n
      <4>2. load[l].got["manifest"] # NoFile
        BY <1>1, <4>1 DEF LoadOK, Manifest
      <4> QED BY <1>3, <2>1, <3>1, <4>1, <4>2
    <3>3. disk[d]["manifest"] = NoFile
      BY <1>3, <2>1, <3>1, <3>2, Orders DEF f
    <3> QED BY <1>7, <2>2, <3>3 DEF Kept
  <2>3. ASSUME to = "returned"
        PROVE  Kept[d] = {got}
    <3> DEFINE m == got["manifest"]
    <3>1. n = 5 /\ m # NoFile
      BY <1>1, <1>2, <1>5, <2>3, Orders DEF LoadOK, Manifest
    <3>2. m \in Runs /\ dir_of[m] = d /\ written[m] = 5
      BY <1>1, <1>5, <3>1 DEF LoadOK, Manifest
    <3>3. Whole(m)
      BY <2>1, <3>2, FreshStands, StandsWhole DEF IInv
    <3>4. \A i \in 1 .. 5 : got[ReadOrder[i]] = Content(m, ReadOrder[i])
      <4>1. load'[l].read = 5 /\ load'[l].dir = d /\ load'[l].state = "returned" /\ load'[l].got = got
        BY <1>2, <1>5, <2>3, <3>1
      <4>2. Fresh(load[l].dir)'
        BY <2>1, <4>1 DEF Fresh
      <4>3. (\A i \in 1 .. load[l].read : load[l].got[ReadOrder[i]] = Content(Manifest(l), ReadOrder[i]))'
        BY <1>1, <4>1, <4>2 DEF LoadOK
      <4>4. Manifest(l)' = m /\ final' = final
        BY <1>1, <4>1 DEF Manifest
      <4> QED BY <4>1, <4>3, <4>4 DEF Content, Record
    <3>5. \A g \in Artifacts : got[g] = disk[d][g]
      BY <3>2, <3>3, <3>4, Orders DEF Whole
    <3>6. got = disk[d]
      <4>1. disk[d] = [g \in Artifacts |-> disk[d][g]]
        BY <1>1 DEF IInv, TypeOK, d
      <4>2. got = [g \in Artifacts |-> got[g]]
        BY <1>3
      <4> QED BY <3>5, <4>1, <4>2
    <3> QED BY <1>7, <2>1, <3>1, <3>6 DEF Kept
  <2>4. Asked[l] = {d} /\ Asked' = [Asked EXCEPT ![l] = {}]
    BY <1>1, <1>2, <1>5, <1>7 DEF Asked
  <2>5. Told' = [Told EXCEPT ![l] = Kept[d]]
    <3>1. Told'[l] = Kept[d]
      BY <1>5, <1>7, <2>2, <2>3 DEF Told
    <3> QED BY <1>2, <3>1 DEF Told
  <2>6. Archive!Tell(l)
    BY <1>4, <1>7, <2>4, <2>5 DEF Archive!Tell
  <2> QED BY <2>6 DEF Archive!Next
<1> QED BY <1>2, <1>5, <1>6, <1>7

LEMMA AskIsPromised ==
  ASSUME RunStoreAssumption, IInv, NEW l \in Loaders, NEW d \in Dirs, BeginLoad(l, d)
  PROVE  [Archive!Next]_Seen
<1>1. /\ UNCHANGED <<disk, rows>> /\ load[l].state # "reading"
      /\ load'[l].state = "reading" /\ load'[l].dir = d
      /\ \A k \in Loaders : k # l => load'[k] = load[k]
  BY DEF BeginLoad, IInv, TypeOK
<1>2. UNCHANGED <<Kept, Listed>>
  BY <1>1 DEF Kept, Listed
<1>3. Asked[l] = {} /\ Asked' = [Asked EXCEPT ![l] = OwnDirs \cap {d}]
  BY <1>1 DEF Asked
<1>4. Told' = [Told EXCEPT ![l] = {}]
  BY <1>1 DEF Told
<1>5. CASE d \in OwnDirs
  <2>1. OwnDirs \cap {d} = {d}
    BY <1>5
  <2>2. Archive!Ask(l, d)
    BY <1>2, <1>3, <1>4, <2>1 DEF Archive!Ask
  <2> QED BY <1>5, <2>2 DEF Archive!Next
<1>6. CASE d \notin OwnDirs
  <2>1. Asked' = Asked
    BY <1>1, <1>6 DEF Asked
  <2>2. Archive!Leave(l)
    BY <1>2, <1>3, <1>4, <2>1 DEF Archive!Leave
  <2> QED BY <2>2 DEF Archive!Next
<1> QED BY <1>5, <1>6

LEMMA InsertIsPromised ==
  ASSUME RunStoreAssumption, IInv, NEW r \in Runs, InsertRun(r)
  PROVE  [Archive!Next]_Seen
<1> DEFINE d == dir_of[r]
<1>1. /\ stage[r] = "stored" /\ rows'.runs = rows.runs \cup {r}
      /\ UNCHANGED <<disk, load>>
  BY DEF InsertRun
<1>2. UNCHANGED <<Kept, Asked, Told>>
  BY <1>1 DEF Kept, Asked, Told
<1>3. CASE d \in OwnDirs
  <2>1. written[r] = 5
    BY <1>1 DEF IInv, DiskOK, StagesOK
  <2>2. Whole(r)
    BY <1>3, <2>1, FreshStands, StandsWhole DEF IInv, OwnDirs
  <2>3. disk[d]["manifest"] = r
    <3>1. "manifest" \in Artifacts
      BY DEF Artifacts
    <3> QED BY <2>2, <3>1, ContentIs DEF Whole
  <2>4. Kept[d] # {}
    BY <1>3, <2>3 DEF Kept, RunStoreAssumption
  <2>5. Listed' = Listed \cup {d}
    BY <1>1, <1>3 DEF Listed
  <2>6. Archive!List(d)
    BY <1>2, <2>4, <2>5 DEF Archive!List
  <2> QED BY <1>3, <2>6 DEF Archive!Next
<1>4. CASE d \notin OwnDirs
  <2>1. Listed' = Listed
    BY <1>1, <1>4 DEF Listed
  <2> QED BY <1>2, <2>1 DEF Seen
<1> QED BY <1>3, <1>4

LEMMA StepIsPromised ==
  ASSUME RunStoreAssumption, IInv, IInv', [Next]_vars
  PROVE  [Archive!Next]_Seen
<1>1. ASSUME UNCHANGED <<disk, rows, load>>
      PROVE  UNCHANGED Seen
  BY <1>1 DEF Seen, Kept, Listed, Asked, Told
<1>2. ASSUME NEW r \in Runs, Fail(r) \/ \E s \in States : Finish(r, s)
      PROVE  UNCHANGED Seen
  BY <1>1, <1>2 DEF Fail, Finish
<1>3. CASE UNCHANGED vars
  BY <1>1, <1>3 DEF vars
<1> QED BY <1>2, <1>3, WriteIsPromised, InsertIsPromised, AskIsPromised, ReadIsPromised DEF Next

(* For any number of runs, loaders and directories, shared or not: a       *)
(* directory that one run is given takes that run's record in one step,    *)
(* with the manifest, and keeps it; the index names it only then; and each *)
(* load of it is answered with what is there when it is answered.          *)
THEOREM StoreImplementsArchive == Spec => ImplementsArchive
<1>1. Init => Archive!Init
  <2> SUFFICES ASSUME Init PROVE Archive!Init
    OBVIOUS
  <2>1. "manifest" \in Artifacts
    BY DEF Artifacts
  <2>2. Kept = [d \in OwnDirs |-> {}]
    BY <2>1 DEF Init, NothingRead, Kept, OwnDirs
  <2>3. Listed = {}
    BY DEF Init, Listed
  <2>4. Asked = [l \in Loaders |-> {}] /\ Told = [l \in Loaders |-> {}]
    BY DEF Init, Unread, Asked, Told
  <2> QED BY <2>2, <2>3, <2>4 DEF Archive!Init
<1>2. IInv /\ IInv' /\ [Next]_vars => [Archive!Next]_(Archive!promised)
  <2>1. Seen = Archive!promised /\ Seen' = Archive!promised'
    BY DEF Seen, Archive!promised
  <2> SUFFICES ASSUME IInv, IInv', [Next]_vars
               PROVE  Archive!Next \/ UNCHANGED Archive!promised
    OBVIOUS
  <2> QED BY <2>1, StepIsPromised, RunStoreAssumption
<1> QED BY <1>1, <1>2, Invariance, PTL DEF Spec, Archive!Spec, ImplementsArchive
=============================================================================
