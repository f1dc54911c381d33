---------------------------- MODULE MCRunInputs ----------------------------
(***************************************************************************)
(* A driver and a second curator, under one root or two, one of which is   *)
(* above the run's directory. The package is in a directory of its own,    *)
(* and a package of the same id is in the baseline's.                      *)
(***************************************************************************)
EXTENDS RunInputs, TLC

MCRootsOf == { ("driver" :> "split") @@ ("peer" :> r) : r \in {"split", "runs"} }
MCModules == ("edit_page" :> {"edit_page"}) @@ ("concurrency" :> {"concurrent_edit"})
               @@ ("concurrent_edit" :> {"concurrent_edit"})

Seeds(id, seeds) == [scenario_id |-> id, count |-> Len(seeds), seed_range |-> None, seeds |-> seeds]
Count(id, n, a, b) == [scenario_id |-> id, count |-> n, seed_range |-> <<a, b>>, seeds |-> None]

(* A valid one; then one seed twice in one entry and in two, a range too    *)
(* short and one the wrong way round, both sources, and names of modules   *)
(* that export another generator or the same one.                          *)
MCManifests ==
  ("driver" :>
     { << Count("edit_page", 1, 1, 2), Count("concurrent_edit", 1, 1, 1) >>,
       << Seeds("edit_page", <<1, 1>>) >>,
       << Count("edit_page", 2, 1, 2), Seeds("edit_page", <<2>>) >>,
       << Count("edit_page", 2, 1, 1) >>, << Count("edit_page", 1, 2, 1) >>,
       << [Count("edit_page", 1, 1, 1) EXCEPT !.seeds = <<1>>] >>,
       << Seeds("edit_page", <<1>>), Seeds("concurrency", <<1>>) >>,
       << Seeds("concurrency", <<1>>), Seeds("concurrent_edit", <<1>>) >> })
  @@ ("peer" :> { << Seeds("edit_page", <<1>>) >> })

MCContents ==
  ("dev" :> ("knowledge/k" :> "first" @@ "knowledge/knowledge/k" :> Missing @@ "mcp/server" :> "first"))
  @@ ("base" :> ("knowledge/k" :> "base" @@ "knowledge/knowledge/k" :> Missing @@ "mcp/server" :> "base"))

MCPublished ==
  { [path |-> "k", declared |-> {"write"}, root |-> Missing],
    [path |-> "knowledge/k", declared |-> {"read"}, root |-> "dev"] }

MCKinds ==
  MCPublished \cup
  { [path |-> "k", declared |-> {}, root |-> "dev"],
    [path |-> "k", declared |-> {"read"}, root |-> Missing] }

MCRequired == ("search_pages" :> "read") @@ ("update_page" :> "write") @@ ("summarize" :> None)
MCOffers == ("base" :> {"search_pages", "update_page"}) @@ ("first" :> {"search_pages", "summarize"})
              @@ ("second" :> {"update_page", "summarize"})
MCRunDirRoots == <<"runs">>
MCPackageDirs == <<"base">>
=============================================================================
