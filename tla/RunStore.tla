------------------------------ MODULE RunStore ------------------------------
(***************************************************************************)
(* The artifacts of finished runs: storage/filesystem.py, the index of     *)
(* storage/sqlite.py, and the end of Runner.run, which fills both.         *)
(*                                                                         *)
(* A run writes its five artifacts one after the other, each of them       *)
(* atomically, and then its row of the index. The process may die, or the  *)
(* disk fail, between any two of these steps. Loaders, in processes of     *)
(* their own, read the artifacts one after the other. Nothing keeps a run  *)
(* from using the directory of an earlier one; runs that share one follow  *)
(* each other, as the callers of Runner.run await it.                      *)
(***************************************************************************)
EXTENDS Naturals, Sequences

CONSTANTS
  Runs, Tasks, Dirs,
  States,         (* world states; a hash stands for the state it is of     *)
  Loaders,
  NoFile, NoRun, NoState,
  dir_of,         (* the run_dir a run is given                             *)
  task_of,
  initial_of      (* the initial state of the run's task                    *)

ASSUME RunStoreAssumption ==
  /\ Dirs # {} /\ dir_of \in [Runs -> Dirs]
  /\ task_of \in [Runs -> Tasks]
  /\ initial_of \in [Runs -> States]
  /\ NoFile \notin Runs \cup States /\ NoRun \notin Runs /\ NoState \notin States

VARIABLES
  stage,      (* where the end of Runner.run is                             *)
  written,    (* how many artifacts of the run have been written            *)
  final,      (* the run's final state                                      *)
  before,     (* the runs that began to store in its directory before it    *)
  disk,       (* the artifacts on disk                                      *)
  rows,       (* the index: run rows, and who wrote each task's row last    *)
  load        (* the calls of load_run                                      *)

vars == <<stage, written, final, before, disk, rows, load>>

Artifacts == {"initial-state", "final-state", "trajectory", "verification", "manifest"}

(* Mutant: the manifest announces what is about to be written.             *)
ManifestFirst == <<"manifest", "initial-state", "final-state", "trajectory", "verification">>

(* Mutant: the longest file is left for the end.                           *)
TrajectoryLast == <<"initial-state", "final-state", "verification", "manifest", "trajectory">>

(* The order in which store_run writes ...                                 *)
WriteOrder == <<"initial-state", "final-state", "trajectory", "verification", "manifest">>

(* ... and that in which load_run reads.                                   *)
ReadOrder == <<"manifest", "initial-state", "final-state", "verification", "trajectory">>

(* What a run writes: two states; a trajectory, a verification and a       *)
(* manifest that are like no other run's.                                  *)
Record(r, s) ==
  [f \in Artifacts |-> CASE f = "initial-state" -> initial_of[r]
                         [] f = "final-state" -> s
                         [] OTHER -> r]
Content(r, f) == Record(r, final[r])[f]

Whole(r) == \A f \in Artifacts : disk[dir_of[r]][f] = Content(r, f)

Fresh(d) == \A q, r \in Runs : dir_of[q] = d /\ dir_of[r] = d => q = r

Storing(d) == \E r \in Runs : dir_of[r] = d /\ stage[r] = "storing"

(* The runs that have begun to store in a directory.                       *)
Users(d) == {r \in Runs : dir_of[r] = d /\ final[r] # NoState}

----------------------------------------------------------------------------
(* The end of Runner.run.                                                  *)

(* Mutant: what is there already is kept.                                  *)
WriteOnce(r) ==
  /\ stage[r] = "storing"
  /\ LET f == WriteOrder[written[r] + 1]
     IN disk' = [disk EXCEPT ![dir_of[r]][f] = IF @ = NoFile THEN Content(r, f) ELSE @]
  /\ written' = [written EXCEPT ![r] = @ + 1]
  /\ stage' = [stage EXCEPT ![r] = IF written[r] + 1 = Len(WriteOrder) THEN "stored" ELSE @]
  /\ UNCHANGED <<final, before, rows, load>>

(* Mutant: the row is written as soon as the store has begun.              *)
IndexAtOnce(r) ==
  /\ stage[r] \in {"storing", "stored"}
  /\ rows' = [runs |-> rows.runs \cup {r}, tasks |-> [rows.tasks EXCEPT ![task_of[r]] = r]]
  /\ stage' = [stage EXCEPT ![r] = "indexed"]
  /\ UNCHANGED <<written, final, before, disk, load>>

(* Mutant: the final state of a run without a final snapshot is forgotten. *)
FinishUnset(r, s) ==
  /\ stage[r] = "running"
  /\ ~Storing(dir_of[r])
  /\ before' = [before EXCEPT ![r] = Users(dir_of[r])]
  /\ stage' = [stage EXCEPT ![r] = "storing"]
  /\ UNCHANGED <<written, final, disk, rows, load>>

(* RUN_COMPLETED has been recorded, and store_run is called. A run that    *)
(* never reached a final snapshot stores its initial state as its final.   *)
Finish(r, s) ==
  /\ stage[r] = "running"
  /\ ~Storing(dir_of[r])
  /\ final' = [final EXCEPT ![r] = s]
  /\ before' = [before EXCEPT ![r] = Users(dir_of[r])]
  /\ stage' = [stage EXCEPT ![r] = "storing"]
  /\ UNCHANGED <<written, disk, rows, load>>

(* _atomic_write, for the next artifact: a temporary file and a replace.   *)
WriteArtifact(r) ==
  /\ stage[r] = "storing"
  /\ LET f == WriteOrder[written[r] + 1]
     IN disk' = [disk EXCEPT ![dir_of[r]][f] = Content(r, f)]
  /\ written' = [written EXCEPT ![r] = @ + 1]
  /\ stage' = [stage EXCEPT ![r] = IF written[r] + 1 = Len(WriteOrder) THEN "stored" ELSE @]
  /\ UNCHANGED <<final, before, rows, load>>

(* insert_run: one transaction replaces the run's row and its task's.      *)
InsertRun(r) ==
  /\ stage[r] = "stored"
  /\ rows' = [runs |-> rows.runs \cup {r}, tasks |-> [rows.tasks EXCEPT ![task_of[r]] = r]]
  /\ stage' = [stage EXCEPT ![r] = "indexed"]
  /\ UNCHANGED <<written, final, before, disk, load>>

(* A write or the insert raises, or the process dies: Runner.run does not  *)
(* catch it, and nothing is undone.                                        *)
Fail(r) ==
  /\ stage[r] \in {"running", "storing", "stored"}
  /\ stage' = [stage EXCEPT ![r] = "failed"]
  /\ UNCHANGED <<written, final, before, disk, rows, load>>

----------------------------------------------------------------------------
(* load_run.                                                               *)

NothingRead == [f \in Artifacts |-> NoFile]
Unread == [state |-> "idle", dir |-> CHOOSE d \in Dirs : TRUE, read |-> 0, got |-> NothingRead]

BeginLoad(l, d) ==
  /\ load[l].state # "reading"
  /\ load' = [load EXCEPT ![l] = [state |-> "reading", dir |-> d, read |-> 0, got |-> NothingRead]]
  /\ UNCHANGED <<stage, written, final, before, disk, rows>>

(* The hashes in the manifest are of these two states.                     *)
HashesMatch(got) ==
  /\ got["initial-state"] = initial_of[got["manifest"]]
  /\ got["final-state"] = final[got["manifest"]]

(* The next artifact is read; a missing one is a StorageIntegrityError,    *)
(* and so is, once both states are read, a hash that does not match.       *)
ReadArtifact(l) ==
  /\ load[l].state = "reading"
  /\ LET f == ReadOrder[load[l].read + 1]
         bytes == disk[load[l].dir][f]
         got == [load[l].got EXCEPT ![f] = bytes]
         broken == bytes = NoFile \/ (f = "final-state" /\ ~HashesMatch(got))
     IN load' = [load EXCEPT ![l] =
          [dir |-> @.dir, read |-> @.read + 1, got |-> got,
           state |-> IF broken THEN "integrity_error"
                     ELSE IF load[l].read + 1 = Len(ReadOrder) THEN "returned"
                     ELSE "reading"]]
  /\ UNCHANGED <<stage, written, final, before, disk, rows>>

----------------------------------------------------------------------------
Init ==
  /\ stage = [r \in Runs |-> "running"]
  /\ written = [r \in Runs |-> 0]
  /\ final = [r \in Runs |-> NoState]
  /\ before = [r \in Runs |-> {}]
  /\ disk = [d \in Dirs |-> NothingRead]
  /\ rows = [runs |-> {}, tasks |-> [t \in Tasks |-> NoRun]]
  /\ load = [l \in Loaders |-> Unread]

Next ==
  \/ \E r \in Runs :
       \/ \E s \in States : Finish(r, s)
       \/ WriteArtifact(r)
       \/ InsertRun(r)
       \/ Fail(r)
  \/ \E l \in Loaders :
       \/ \E d \in Dirs : BeginLoad(l, d)
       \/ ReadArtifact(l)

Spec == Init /\ [][Next]_vars

----------------------------------------------------------------------------
(* Properties.                                                             *)

TypeOK ==
  /\ stage \in [Runs -> {"running", "storing", "stored", "indexed", "failed"}]
  /\ written \in [Runs -> 0 .. Len(WriteOrder)]
  /\ final \in [Runs -> States \cup {NoState}]
  /\ before \in [Runs -> SUBSET Runs]
  /\ disk \in [Dirs -> [Artifacts -> Runs \cup States \cup {NoFile}]]
  /\ rows \in [runs: SUBSET Runs, tasks: [Tasks -> Runs \cup {NoRun}]]
  /\ load \in [Loaders -> [state: {"idle", "reading", "returned", "integrity_error"},
                           dir: Dirs, read: 0 .. Len(ReadOrder),
                           got: [Artifacts -> Runs \cup States \cup {NoFile}]]]

(* In a directory that several runs use, after whatever partial failures,  *)
(* a store that comes to its end leaves nothing of another run behind.     *)
StoreLeavesOneRun ==
  [][\A r \in Runs : (stage[r] # "stored" /\ stage'[r] = "stored") => Whole(r)']_vars

(* The index never promises a run that was not stored: what it lists is    *)
(* whole in its directory, unless a later run was told to use that too.    *)
IndexedRunsStored ==
  \A r \in rows.runs :
    \/ Whole(r)
    \/ \E q \in Runs \ {r} : dir_of[q] = dir_of[r] /\ final[q] # NoState

(* A run that is stored in a used directory is never loaded with what was  *)
(* left there: a load that meets its manifest, whenever it began and       *)
(* however slowly it reads, gets the rest from the run itself or from one  *)
(* that came after it, though the runs before may have died half way       *)
(* through their store.                                                    *)
LoadsNotStale ==
  \A l \in Loaders : load[l].state = "returned" =>
    \A f \in Artifacts : \E r \in Runs \ before[load[l].got["manifest"]] :
      dir_of[r] = load[l].dir /\ load[l].got[f] = Content(r, f)

(* The directories that are one run's alone.                               *)
OwnDirs == {d \in Dirs : Fresh(d)}

OwnRecords == [d \in OwnDirs |-> {Record(r, s) : r \in {q \in Runs : dir_of[q] = d}, s \in States}]

(* What they hold, which of them the index names, and what loaders are     *)
(* told of them.                                                           *)
Kept == [d \in OwnDirs |-> IF disk[d]["manifest"] = NoFile THEN {} ELSE {disk[d]}]
Listed == OwnDirs \cap {dir_of[r] : r \in rows.runs}
Asked == [l \in Loaders |-> IF load[l].state = "reading" THEN OwnDirs \cap {load[l].dir} ELSE {}]
Told == [l \in Loaders |-> IF load[l].state = "returned" /\ load[l].dir \in OwnDirs
                           THEN {load[l].got} ELSE {}]

Archive ==
  INSTANCE RunArchive WITH
    Places <- OwnDirs, records_for <- OwnRecords,
    archive <- Kept, listed <- Listed, question <- Asked, answer <- Told

(* A directory that one run uses is an atomic store, though the process    *)
(* may die half way through it: it holds nothing or that run's record and  *)
(* no longer changes, and a load, however slowly it reads, returns the     *)
(* record that is there when it returns, or fails while there is none.     *)
ImplementsArchive == Archive!Spec

(* filesystem.py: all run artifacts are persisted atomically. What a load  *)
(* returns is the five artifacts of one run.                               *)
LoadIsOneRun ==
  \A l \in Loaders : load[l].state = "returned" =>
    \A f \in Artifacts : load[l].got[f] = Content(load[l].got["manifest"], f)
=============================================================================
