----------------------------- MODULE Curriculum -----------------------------
(***************************************************************************)
(* Splits and their materialization: core/splits.py, runner/curriculum.py  *)
(* and the staging of snapshot files by core/scenario.py and the scenario  *)
(* families' _task.                                                        *)
(*                                                                         *)
(* A curator is a process that materializes one split manifest under one   *)
(* snapshot root. Several may use one root: a snapshot file is named after *)
(* its task only, and is truncated before it is written.                   *)
(***************************************************************************)
EXTENDS Integers, Sequences, FiniteSets, Functions, SequencesExt

CONSTANTS
  Curators,
  Roots, RootsOf,    (* the directories that may be a snapshot_root, and    *)
                     (* which curator may be called with which              *)
  Manifests,         (* the split manifests each curator may be given       *)
  Modules,           (* scenario module |-> the ids of the generators it exports *)
  None

(* A manifest's entry, before it is validated.                             *)
SplitEntry == [scenario_id: STRING, count: Int,
               seed_range: Seq(Int) \cup {None}, seeds: Seq(Int) \cup {None}]

ASSUME CurriculumAssumption ==
  /\ Manifests \in [Curators -> SUBSET Seq(SplitEntry)]
  /\ RootsOf \subseteq [Curators -> Roots]
  /\ None \notin Curators \cup Roots

VARIABLES
  spec,      (* the entries of the curator's manifest                       *)
  root,      (* the snapshot_root it is called with                         *)
  curating,  (* where materialize is                                        *)
  tasks,     (* its local `tasks`, and its result once it is done           *)
  file       (* the snapshot files below every root                         *)

curriculum == <<spec, root, curating, tasks, file>>

----------------------------------------------------------------------------
(* SplitEntry and SplitSpec.                                               *)

(* validate_seed_source                                                    *)
valid_entry(e) ==
  /\ e.count > 0
  /\ (e.seed_range = None) # (e.seeds = None)
  /\ e.seeds # None => Len(e.seeds) = e.count /\ IsInjective(e.seeds)
  /\ e.seed_range # None =>
       /\ Len(e.seed_range) = 2
       /\ e.seed_range[1] <= e.seed_range[2]
       /\ e.count <= e.seed_range[2] - e.seed_range[1] + 1

(* Mutant: the range ends one before its inclusive end, whatever `count`.  *)
seeds_of_whole_range(e) ==
  IF e.seeds # None THEN e.seeds
  ELSE [i \in 1 .. e.seed_range[2] - e.seed_range[1] |-> e.seed_range[1] + i - 1]

resolved_seeds(e) ==
  IF e.seeds # None THEN e.seeds
  ELSE [i \in 1 .. e.count |-> e.seed_range[1] + i - 1]

(* iter_seeded                                                             *)
iter_seeded(s) ==
  FlattenSeq([i \in DOMAIN s |->
    [j \in DOMAIN resolved_seeds(s[i]) |-> <<s[i].scenario_id, resolved_seeds(s[i])[j]>>]])

total_count(s) ==
  LET sum[i \in 0 .. Len(s)] == IF i = 0 THEN 0 ELSE sum[i - 1] + s[i].count
  IN  sum[Len(s)]

(* model_validate: every entry, and then validate_unique_allocations.      *)
valid_split(s) ==
  /\ \A i \in DOMAIN s : valid_entry(s[i])
  /\ IsInjective(iter_seeded(s))

(* A task's id is its scenario and its seed; so is its snapshot's name.    *)
Ids == UNION {UNION {Range(iter_seeded(s)) : s \in {t \in Manifests[m] : valid_split(t)}} : m \in Curators}

Task == [id: Ids, split: Curators]

(* Whose content a snapshot file holds. `torn` is a file that is open for  *)
(* writing, or was when its writer failed.                                 *)
NoFile == [state |-> "none", by |-> None]
Snapshot == {NoFile} \cup [state: {"torn", "whole"}, by: Curators]

----------------------------------------------------------------------------
(* materialize.                                                            *)

(* _load_generators: one module for each scenario named, each imported     *)
(* once, and no generator id exported twice.                               *)
Named(s) == {s[i].scenario_id : i \in DOMAIN s}
Discoverable(s) ==
  /\ Named(s) \subseteq DOMAIN Modules
  /\ \A a, b \in Named(s) : a # b => Modules[a] \cap Modules[b] = {}
Generators(s) == UNION {Modules[a] : a \in Named(s)}

(* The loop over the allocations, with n of them done.                     *)
Loop(m, n) == IF n + 1 \in DOMAIN iter_seeded(spec[m]) THEN "generating" ELSE "done"

Begin(m) ==
  /\ curating[m] = "idle"
  /\ curating' = [curating EXCEPT ![m] =
       IF valid_split(spec[m]) /\ Discoverable(spec[m]) THEN Loop(m, 0) ELSE "raised"]
  /\ UNCHANGED <<spec, root, tasks, file>>

(* The allocation whose turn it is.                                        *)
Due(m) == iter_seeded(spec[m])[Len(tasks[m]) + 1]

(* No generator for the scenario: KeyError.                                *)
NoGenerator(m) ==
  /\ curating[m] = "generating"
  /\ Due(m)[1] \notin Generators(spec[m])
  /\ curating' = [curating EXCEPT ![m] = "raised"]
  /\ UNCHANGED <<spec, root, tasks, file>>

(* generate, up to write_snapshot: write_text has opened the file.         *)
OpenSnapshot(m) ==
  /\ curating[m] = "generating"
  /\ Due(m)[1] \in Generators(spec[m])
  /\ file' = [file EXCEPT ![root[m]][Due(m)] = [state |-> "torn", by |-> m]]
  /\ curating' = [curating EXCEPT ![m] = "writing"]
  /\ UNCHANGED <<spec, root, tasks>>

(* The text is written and the task is there, stamped with its split.      *)
WriteSnapshot(m) ==
  /\ curating[m] = "writing"
  /\ file' = [file EXCEPT ![root[m]][Due(m)] = [state |-> "whole", by |-> m]]
  /\ tasks' = [tasks EXCEPT ![m] = Append(@, [id |-> Due(m), split |-> m])]
  /\ curating' = [curating EXCEPT ![m] = Loop(m, Len(tasks[m]) + 1)]
  /\ UNCHANGED <<spec, root>>

(* The disk is full, or the process dies.                                  *)
WriteFails(m) ==
  /\ curating[m] = "writing"
  /\ curating' = [curating EXCEPT ![m] = "raised"]
  /\ UNCHANGED <<spec, root, tasks, file>>

materialize(m) ==
  \/ Begin(m) \/ NoGenerator(m) \/ OpenSnapshot(m) \/ WriteSnapshot(m) \/ WriteFails(m)

CurriculumInit ==
  /\ spec \in {s \in [Curators -> UNION {Manifests[m] : m \in Curators}] :
                 \A m \in Curators : s[m] \in Manifests[m]}
  /\ root \in RootsOf
  /\ curating = [m \in Curators |-> "idle"]
  /\ tasks = [m \in Curators |-> <<>>]
  /\ file = [r \in Roots |-> [i \in Ids |-> NoFile]]

----------------------------------------------------------------------------
(* Properties.                                                             *)

CurriculumTypeOK ==
  /\ \A m \in Curators : spec[m] \in Manifests[m]
  /\ root \in [Curators -> Roots]
  /\ curating \in [Curators -> {"idle", "generating", "writing", "done", "raised"}]
  /\ tasks \in [Curators -> Seq(Task)]
  /\ file \in [Roots -> [Ids -> Snapshot]]

(* What a manifest's entry says of the seeds of its scenario.              *)
Allots(e, id) ==
  /\ e.scenario_id = id[1]
  /\ IF e.seeds = None THEN id[2] \in e.seed_range[1] .. e.seed_range[2]
                       ELSE id[2] \in Range(e.seeds)

(* The curator, or another of the same root, is writing the task's file,   *)
(* or has failed while it did.                                             *)
Spoilt(m, id) ==
  \E n \in Curators \ {m} :
    /\ root[n] = root[m] /\ curating[n] \in {"writing", "raised"}
    /\ file[root[n]][id] = [state |-> "torn", by |-> n]

(* materialize gives all of a split or nothing: as many tasks as the       *)
(* counts of the manifest say, no two alike, every one from a seed that an *)
(* entry of its scenario allots, and every one with a snapshot that can be *)
(* read, unless another curator of the same root is at work on it.         *)
MaterializedAsAllocated ==
  \A m \in Curators : curating[m] = "done" =>
    /\ Len(tasks[m]) = total_count(spec[m])
    /\ IsInjective(tasks[m])
    /\ \A t \in Range(tasks[m]) :
         /\ \E i \in DOMAIN spec[m] : Allots(spec[m][i], t.id)
         /\ file[root[m]][t.id].state = "whole" \/ Spoilt(m, t.id)
=============================================================================
