----------------------------- MODULE RunInputs -----------------------------
(***************************************************************************)
(* What a run is made of: a driver process materializes a split, loads a   *)
(* package and runs one of the tasks with it (Runner.run up to the first   *)
(* call of the model), while other curators stage snapshots and an author  *)
(* edits and saves packages.                                               *)
(*                                                                         *)
(* The runner holds the task and the package as objects, and finds their   *)
(* files again by name: the snapshot below a list of roots, the package's  *)
(* tools and texts below one of several directories.                       *)
(***************************************************************************)
EXTENDS Curriculum, AgentPackages

CONSTANTS
  Driver,
  RunDirRoots,       (* the roots at or above the run's directory, then the *)
                     (* working directory and the repository                *)
  PackageDirs,       (* packages/<id> of the working directory and of the   *)
                     (* repository, those that exist                        *)
  Baseline,          (* packages/baseline of the working directory, or None *)
  Tools, Required,   (* what each tool requires, or None                    *)
  Offers,            (* the tools of a server's text                        *)
  Granted            (* what the world grants                               *)

ASSUME InputsAssumption ==
  /\ Driver \in Curators
  /\ RunDirRoots \in Seq(Roots) /\ PackageDirs \in Seq(Dirs)
  /\ Baseline \in Dirs \cup {None}
  /\ Required \in [Tools -> Capabilities \cup {None}]
  /\ Offers \in [Texts -> SUBSET Tools]
  /\ Granted \subseteq Capabilities

VARIABLES
  run    (* the driver's run: where it is, the runner's configuration, and  *)
         (* what the run has taken in so far                                *)

vars == <<curriculum, packages, run>>

NoRun == [at |-> "none", task |-> None, snapshot_root |-> None, package_root |-> None,
          path |-> None, snapshot |-> None, package_dir |-> None,
          server |-> None, tools |-> {}, prompt |-> None]

EnvironmentError == [run EXCEPT !.at = "environment_error"]

----------------------------------------------------------------------------
(* The driver, before the run.                                             *)

(* Only the driver has a package to load, and it does so after it has its  *)
(* tasks.                                                                  *)
LoadPackage ==
  /\ curating[Driver] = "done"
  /\ \/ \E d \in Dirs : ReadManifest(d)
     \/ VerifyKnowledge
     \/ \E with_domain \in BOOLEAN : VerifyTools(with_domain)
  /\ UNCHANGED <<curriculum, run>>

(* Runner(...).run(task, package, None, ...): both roots may be left out.  *)
StartRun ==
  /\ run.at = "none" /\ loading.at = "loaded"
  /\ \E t \in Range(tasks[Driver]), s \in {root[Driver], None}, p \in {loading.dir, None} :
       run' = [NoRun EXCEPT !.at = "resolving", !.task = t, !.snapshot_root = s,
                            !.package_root = p]
  /\ UNCHANGED <<curriculum, packages>>

----------------------------------------------------------------------------
(* The snapshot.                                                           *)

(* Mutant: the configured root is looked at after the others.              *)
roots_configured_last(s) == IF s = None THEN RunDirRoots ELSE RunDirRoots \o <<s>>

roots(s) == IF s = None THEN RunDirRoots ELSE <<s>> \o RunDirRoots

(* _resolve_snapshot_path: the first root with a file of that name.        *)
ResolveSnapshotPath ==
  /\ run.at = "resolving"
  /\ LET candidates == roots(run.snapshot_root)
         found == {i \in DOMAIN candidates : file[candidates[i]][run.task.id].state # "none"}
     IN \/ found = {} /\ run' = EnvironmentError
        \/ \E i \in found : /\ \A j \in found : i <= j
                            /\ run' = [run EXCEPT !.at = "reading", !.path = candidates[i]]
  /\ UNCHANGED <<curriculum, packages>>

(* read_snapshot: a truncated file is no JSON.                             *)
ReadSnapshot ==
  /\ run.at = "reading"
  /\ LET f == file[run.path][run.task.id]
     IN run' = IF f.state = "torn" THEN EnvironmentError
               ELSE [run EXCEPT !.at = "starting", !.snapshot = f]
  /\ UNCHANGED <<curriculum, packages>>

(* The world's process reads the file again, and does not come up if it is *)
(* truncated by now; whatever it read, it is restored from what the runner *)
(* has read.                                                               *)
StartWorld ==
  /\ run.at = "starting"
  /\ run' = IF file[run.path][run.task.id].state = "torn" THEN EnvironmentError
            ELSE [run EXCEPT !.at = "packaging"]
  /\ UNCHANGED <<curriculum, packages>>

----------------------------------------------------------------------------
(* The package's files.                                                    *)

(* The directory that the package's metadata names comes first.            *)
package_dirs(named) == IF named = Missing THEN PackageDirs ELSE <<named>> \o PackageDirs

(* _resolve_package_root.                                                  *)
ResolvePackageRoot ==
  /\ run.at = "packaging"
  /\ LET candidates == package_dirs(loading.package.root)
     IN run' = IF run.package_root # None
               THEN [run EXCEPT !.at = "building", !.package_dir = run.package_root]
               ELSE IF candidates = << >> THEN EnvironmentError
               ELSE [run EXCEPT !.at = "building", !.package_dir = candidates[1]]
  /\ UNCHANGED <<curriculum, packages>>

(* The server's text, or that of the baseline package when it is gone.     *)
Server ==
  IF disk[run.package_dir]["mcp/server"] # Missing \/ Baseline = None
  THEN disk[run.package_dir]["mcp/server"]
  ELSE disk[Baseline]["mcp/server"]

(* A package that declares nothing gets all that is granted.               *)
effective(declared) == IF declared = {} THEN Granted ELSE Granted \cap declared

Exposed(server, declared) ==
  {t \in Offers[server] : Required[t] \in effective(declared) \cup {None}}

(* _build_executor.                                                        *)
BuildExecutor ==
  /\ run.at = "building"
  /\ run' = IF Server = Missing THEN EnvironmentError
            ELSE [run EXCEPT !.at = "prompting", !.server = Server,
                             !.tools = Exposed(Server, loading.package.declared)]
  /\ UNCHANGED <<curriculum, packages>>

(* _read_artifact: the layer is put in front of the path whatever it is.   *)
read_path(path) == IF path = "k" THEN "knowledge/k" ELSE "knowledge/knowledge/k"

(* build_system_prompt.                                                    *)
BuildSystemPrompt ==
  /\ run.at = "prompting"
  /\ LET text == disk[run.package_dir][read_path(loading.package.path)]
     IN run' = IF text = Missing THEN EnvironmentError
               ELSE [run EXCEPT !.at = "running", !.prompt = text]
  /\ UNCHANGED <<curriculum, packages>>

----------------------------------------------------------------------------

Init == CurriculumInit /\ PackagesInit /\ run = NoRun

RunProceeds ==
  \/ StartRun \/ ResolveSnapshotPath \/ ReadSnapshot \/ StartWorld
  \/ ResolvePackageRoot \/ BuildExecutor \/ BuildSystemPrompt

(* The author shares nothing with the curators, so that whatever it does   *)
(* while the driver materializes it may as well do afterwards; and nothing *)
(* reads what it does when the load has failed or the run has all it needs.*)
AuthorWorks ==
  /\ curating[Driver] = "done" /\ loading.at # "raised"
  /\ run.at \notin {"running", "environment_error"}
  /\ Author /\ UNCHANGED <<curriculum, run>>

Next ==
  \/ \E m \in Curators : materialize(m) /\ UNCHANGED <<packages, run>>
  \/ AuthorWorks
  \/ LoadPackage
  \/ RunProceeds

Spec == Init /\ [][Next]_vars

----------------------------------------------------------------------------
(* Properties.                                                             *)

InputsTypeOK ==
  /\ CurriculumTypeOK /\ PackagesTypeOK
  /\ run.at \in {"none", "resolving", "reading", "starting", "packaging", "building",
                 "prompting", "running", "environment_error"}
  /\ run.at # "none" => run.task \in Task
  /\ run.at = "running" =>
       /\ run.snapshot \in Snapshot /\ run.package_dir \in Dirs
       /\ {run.server, run.prompt} \subseteq Texts /\ run.tools \subseteq Tools

(* curriculum.py, runner.py: a run that is given the snapshot root its     *)
(* split was materialized under starts from a snapshot that was staged,    *)
(* whole, under that root, even while others stage the same task there or  *)
(* have left a file of the same name nearer to the run's directory.        *)
StartsFromOwnSplit ==
  (run.snapshot # None /\ run.snapshot_root = root[Driver]) =>
    /\ run.snapshot.state = "whole"
    /\ root[run.snapshot.by] = root[Driver]

(* package.py, runner.py, reference_agent.py: the tools a run executes and *)
(* the text it is prompted with are the ones the loaded manifest's hashes  *)
(* are of, if the runner looks where the package was loaded from and       *)
(* nobody has edited the file since it was hashed: an edit that came       *)
(* earlier, even in the middle of the load, has been found out, and the    *)
(* baseline's server is never run in place of another. An artifact listed  *)
(* with its layer in front is the exception: another file is read than was *)
(* hashed. The tools never ask for more than the world grants.             *)
RunsWhatItVouchesFor ==
  /\ (run.server # None /\ run.package_dir = loading.dir /\ "mcp/server" \notin edited) =>
       run.server = loading.package.tools
  /\ (/\ run.prompt # None /\ run.package_dir = loading.dir
      /\ loading.package.path = "k" /\ "knowledge/k" \notin edited) =>
       run.prompt = loading.package.knowledge
  /\ \A t \in run.tools : Required[t] \in Granted \cup {None}
=============================================================================
