----------------------------- MODULE RunArchive -----------------------------
(***************************************************************************)
(* What the run store promises to the user of a place that is one run's    *)
(* alone, with no files, no order of writing or reading and no hashes: an  *)
(* archive that takes a run's record in one step and keeps it for good, an *)
(* index of what it has, and answers that are what is there when they are  *)
(* given.                                                                  *)
(***************************************************************************)
CONSTANTS
  Places,
  Loaders,
  records_for   (* the records a place may be given                         *)

VARIABLES
  archive,    (* the record at each place: a set of none or one             *)
  listed,     (* the places the index names                                 *)
  question,   (* the place a loader is waiting to hear of: none or one      *)
  answer      (* what it was told of the last: no record, or one            *)

promised == <<archive, listed, question, answer>>

Init ==
  /\ archive = [p \in Places |-> {}]
  /\ listed = {}
  /\ question = [l \in Loaders |-> {}]
  /\ answer = [l \in Loaders |-> {}]

Store(p) ==
  /\ archive[p] = {}
  /\ \E record \in records_for[p] : archive' = [archive EXCEPT ![p] = {record}]
  /\ UNCHANGED <<listed, question, answer>>

(* What is listed can be loaded.                                           *)
List(p) ==
  /\ archive[p] # {}
  /\ listed' = listed \cup {p}
  /\ UNCHANGED <<archive, question, answer>>

Ask(l, p) ==
  /\ question[l] = {}
  /\ question' = [question EXCEPT ![l] = {p}]
  /\ answer' = [answer EXCEPT ![l] = {}]
  /\ UNCHANGED <<archive, listed>>

Tell(l) ==
  /\ \E p \in Places : question[l] = {p} /\ answer' = [answer EXCEPT ![l] = archive[p]]
  /\ question' = [question EXCEPT ![l] = {}]
  /\ UNCHANGED <<archive, listed>>

(* The loader turns to something else.                                     *)
Leave(l) ==
  /\ question[l] = {}
  /\ answer' = [answer EXCEPT ![l] = {}]
  /\ UNCHANGED <<archive, listed, question>>

Next ==
  \/ \E p \in Places : Store(p) \/ List(p) \/ \E l \in Loaders : Ask(l, p)
  \/ \E l \in Loaders : Tell(l) \/ Leave(l)

Spec == Init /\ [][Next]_promised
=============================================================================
