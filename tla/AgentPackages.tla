--------------------------- MODULE AgentPackages ---------------------------
(***************************************************************************)
(* Agent packages on disk: save, from_directory and verify_hashes of       *)
(* core/package.py.                                                        *)
(*                                                                         *)
(* An author edits the files of package directories and saves packages     *)
(* into them while a loader, the process that is going to run a package,   *)
(* loads one. A hash is taken file by file, in the manifest's order, and   *)
(* stands in the model for the text it was taken of. One knowledge         *)
(* artifact stands for all artifacts that are text, skills included, and   *)
(* one server file for the tree below the tool root.                       *)
(***************************************************************************)
EXTENDS Naturals

CONSTANTS
  Dirs,              (* the package directories, all of which exist         *)
  Texts,             (* what a file may hold                                *)
  Drafts,            (* what an author may write into it                    *)
  Contents,          (* the files of every directory at the start           *)
  Kinds,             (* what packages there may be, but for their hashes;   *)
                     (* `root` is metadata["root"], Missing when it is not  *)
                     (* given or no directory                               *)
  Published,         (* those there are at the start                        *)
  Capabilities, Domain,  (* what a package may declare, what the domain has *)
  MaxEdits, MaxSaves,  (* bounds on what the author does                    *)
  Missing, Torn

Files == {"knowledge/k", "knowledge/knowledge/k", "mcp/server"}

ASSUME PackagesAssumption ==
  /\ Drafts \subseteq Texts /\ Missing \notin Texts
  /\ Contents \in [Dirs -> [Files -> Texts \cup {Missing}]]
  /\ \A d \in Dirs : {Contents[d]["knowledge/k"], Contents[d]["mcp/server"]} \subseteq Texts
  /\ Kinds \subseteq
       [path: {"k", "knowledge/k"}, declared: SUBSET Capabilities, root: Dirs \cup {Missing}]
  /\ Published \subseteq Kinds
  /\ Domain \subseteq Capabilities
  /\ MaxEdits \in Nat /\ MaxSaves \in Nat

VARIABLES
  disk,      (* the artifact files                                          *)
  manifest,  (* every directory's package.yaml: a package, or Torn while it *)
             (* is being written                                            *)
  saving,    (* the author's save                                           *)
  loading,   (* the loader's from_directory, and then the loaded package    *)
  edited,    (* files of the loader's directory that were edited after it   *)
             (* had hashed them                                             *)
  edits, saves

packages == <<disk, manifest, saving, loading, edited, edits, saves>>

(* An artifact is listed with its path below its layer, with or without    *)
(* the name of the layer in front.                                         *)
Package ==
  [path: {"k", "knowledge/k"}, knowledge: Texts, tools: Texts, declared: SUBSET Capabilities,
   root: Dirs \cup {Missing}]

NotSaving == [at |-> "idle", dir |-> Missing, package |-> Missing]
NotLoading == [at |-> "idle", dir |-> Missing, package |-> Missing, knowledge |-> Missing]

----------------------------------------------------------------------------
(* Paths and hashes.                                                       *)

(* _layer_path: the layer's name is accepted and not repeated.             *)
layer_path(path) == "knowledge/k"

(* _sha256_path, of a file or a tree that exists.                          *)
sha256(d, f) == disk[d][f]

validate_capabilities(declared) == declared \subseteq Domain

----------------------------------------------------------------------------
(* The author.                                                             *)

(* An editor writes a file of the package, or removes it.                  *)
Edit(d, f, text) ==
  /\ edits < MaxEdits /\ edits' = edits + 1
  /\ disk[d][f] # text
  /\ disk' = [disk EXCEPT ![d][f] = text]
  /\ edited' = IF \/ loading.dir # d
                  \/ f = "knowledge/k" /\ loading.at = "knowledge"
                  \/ f = "mcp/server" /\ loading.at \in {"knowledge", "tools"}
               THEN edited ELSE edited \cup {f}
  /\ UNCHANGED <<manifest, saving, loading, saves>>

(* save; a call that is given the domain and refuses the declaration       *)
(* raises before anything is touched.                                      *)
Save(d, kind) ==
  /\ saves < MaxSaves /\ saves' = saves + 1
  /\ saving.at = "idle"
  /\ saving' = [at |-> "knowledge", dir |-> d,
                package |-> [path |-> kind.path, knowledge |-> Missing, tools |-> Missing,
                             declared |-> kind.declared, root |-> kind.root]]
  /\ UNCHANGED <<disk, manifest, loading, edited, edits>>

(* _computed_hashes: a file that is not there raises, before the manifest  *)
(* is opened.                                                              *)
SaveHashesKnowledge ==
  /\ saving.at = "knowledge"
  /\ LET digest == sha256(saving.dir, layer_path(saving.package.path))
     IN saving' = IF digest = Missing THEN NotSaving
                  ELSE [saving EXCEPT !.at = "tools", !.package.knowledge = digest]
  /\ UNCHANGED <<disk, manifest, loading, edited, edits, saves>>

(* Mutant: what is not there has a hash like anything else.                *)
SaveHashesToolsUnchecked ==
  /\ saving.at = "tools"
  /\ saving' = [saving EXCEPT !.at = "opening", !.package.tools = sha256(saving.dir, "mcp/server")]
  /\ UNCHANGED <<disk, manifest, loading, edited, edits, saves>>

SaveHashesTools ==
  /\ saving.at = "tools"
  /\ LET digest == sha256(saving.dir, "mcp/server")
     IN saving' = IF digest = Missing THEN NotSaving
                  ELSE [saving EXCEPT !.at = "opening", !.package.tools = digest]
  /\ UNCHANGED <<disk, manifest, loading, edited, edits, saves>>

(* write_text: truncate, then write.                                       *)
OpenManifest ==
  /\ saving.at = "opening"
  /\ manifest' = [manifest EXCEPT ![saving.dir] = Torn]
  /\ saving' = [saving EXCEPT !.at = "writing"]
  /\ UNCHANGED <<disk, loading, edited, edits, saves>>

WriteManifest ==
  /\ saving.at = "writing"
  /\ manifest' = [manifest EXCEPT ![saving.dir] = saving.package]
  /\ saving' = NotSaving
  /\ UNCHANGED <<disk, loading, edited, edits, saves>>

SaveFails ==
  /\ saving.at = "writing" /\ saving' = NotSaving
  /\ UNCHANGED <<disk, manifest, loading, edited, edits, saves>>

Author ==
  \/ \E d \in Dirs, f \in Files, text \in Drafts \cup {Missing} : Edit(d, f, text)
  \/ \E d \in Dirs, kind \in Kinds : Save(d, kind)
  \/ SaveHashesKnowledge \/ SaveHashesTools \/ OpenManifest \/ WriteManifest \/ SaveFails

----------------------------------------------------------------------------
(* from_directory.                                                         *)

Raised == [loading EXCEPT !.at = "raised"]

(* An empty manifest is no package, as little as one that is not there.    *)
ReadManifest(d) ==
  /\ loading.at = "idle"
  /\ loading' = IF manifest[d] = Torn
                THEN [NotLoading EXCEPT !.at = "raised", !.dir = d]
                ELSE [NotLoading EXCEPT !.at = "knowledge", !.dir = d, !.package = manifest[d]]
  /\ UNCHANGED <<disk, manifest, saving, edited, edits, saves>>

VerifyKnowledge ==
  /\ loading.at = "knowledge"
  /\ LET digest == sha256(loading.dir, layer_path(loading.package.path))
     IN loading' = IF digest = Missing THEN Raised
                   ELSE [loading EXCEPT !.at = "tools", !.knowledge = digest]
  /\ UNCHANGED <<disk, manifest, saving, edited, edits, saves>>

(* Mutant: a digest that cannot be computed is not compared.               *)
hashes_match_if_present(digest) ==
  /\ loading.knowledge = loading.package.knowledge
  /\ digest \in {loading.package.tools, Missing}

(* verify_hashes; a missing file or entrypoint is a PackageIntegrityError. *)
hashes_match(digest) ==
  /\ digest # Missing
  /\ loading.knowledge = loading.package.knowledge
  /\ digest = loading.package.tools

(* The tools' hash, the comparison, and the domain's capabilities, when    *)
(* the caller gives the domain.                                            *)
VerifyTools(with_domain) ==
  /\ loading.at = "tools"
  /\ loading' = IF /\ hashes_match(sha256(loading.dir, "mcp/server"))
                   /\ with_domain => validate_capabilities(loading.package.declared)
                THEN [loading EXCEPT !.at = "loaded"] ELSE Raised
  /\ UNCHANGED <<disk, manifest, saving, edited, edits, saves>>

(* Every directory was saved with the files it has.                        *)
PackagesInit ==
  /\ disk = Contents
  /\ \E p \in Published :
       manifest = [d \in Dirs |->
         [path |-> p.path, declared |-> p.declared, root |-> p.root,
          knowledge |-> Contents[d]["knowledge/k"], tools |-> Contents[d]["mcp/server"]]]
  /\ saving = NotSaving /\ loading = NotLoading
  /\ edited = {} /\ edits = 0 /\ saves = 0

----------------------------------------------------------------------------

PackagesTypeOK ==
  /\ disk \in [Dirs -> [Files -> Texts \cup {Missing}]]
  /\ \A d \in Dirs : manifest[d] = Torn \/ manifest[d] \in Package
  /\ saving.at \in {"idle", "knowledge", "tools", "opening", "writing"}
  /\ saving.at # "idle" => saving.dir \in Dirs
  /\ saving.at \in {"opening", "writing"} => saving.package \in Package
  /\ loading.at \in {"idle", "knowledge", "tools", "loaded", "raised"}
  /\ loading.at \in {"knowledge", "tools", "loaded"} =>
       loading.dir \in Dirs /\ loading.package \in Package
  /\ edited \subseteq Files /\ edits \in 0 .. MaxEdits /\ saves \in 0 .. MaxSaves
=============================================================================
