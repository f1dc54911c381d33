--------------------------- MODULE VersionedPages ---------------------------
(***************************************************************************)
(* What the Confluence world promises about its pages, with no requests,   *)
(* no network and no version headers: every page is a sequence of          *)
(* revisions that only grows, and a writer that says which text it edited  *)
(* edits the text that is there (an atomic read-modify-write). A writer    *)
(* that read nothing may overwrite a text it does not know.                *)
(***************************************************************************)
EXTENDS Naturals, Sequences

CONSTANTS
  Pages,      (* page identifiers                                           *)
  Authors,    (* everybody a revision can be by                             *)
  Contents,   (* what a page can say                                        *)
  Unset,      (* no content: a field left out, a text nobody read           *)
  Initial     (* the revisions each page of the starting snapshot has       *)

VARIABLE revisions

Revision ==
  [version: Nat, content: Contents, by: Authors, seen: Contents \cup {Unset}]

NewRevision(p, content, by, seen) ==
  [version |-> Len(revisions[p]) + 1, content |-> content, by |-> by, seen |-> seen]

Current(p) == revisions[p][Len(revisions[p])].content

(* A page comes into being once, with its first revision.                  *)
Create(p, by, content) ==
  /\ revisions[p] = << >>
  /\ revisions' =
       [revisions EXCEPT ![p] = Append(@, NewRevision(p, content, by, Unset))]

(* The author edits the text that is current at the moment of the edit.    *)
Amend(p, by, content) ==
  /\ revisions[p] # << >>
  /\ revisions' =
       [revisions EXCEPT ![p] = Append(@, NewRevision(p, content, by, Current(p)))]

(* The author made the text without reading the page: a client that named  *)
(* a version unread and was right, or the human, whose text was made from  *)
(* the initial snapshot.                                                   *)
Overwrite(p, by, content) ==
  /\ revisions[p] # << >>
  /\ revisions' =
       [revisions EXCEPT ![p] = Append(@, NewRevision(p, content, by, Unset))]

Init == revisions = Initial

Next ==
  \E p \in Pages, by \in Authors, content \in Contents :
    \/ Create(p, by, content)
    \/ Amend(p, by, content)
    \/ Overwrite(p, by, content)

Spec == Init /\ [][Next]_revisions
=============================================================================
