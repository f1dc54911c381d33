------------------------- MODULE MCConfluenceWorld -------------------------
(* One seeded page that two clients may write, and one page that only a     *)
(* creator can bring into being.                                            *)
EXTENDS ConfluenceWorld, TLC

CONSTANTS ann, ben, home, draft, t1, t2, t3

MCSeedContent == [p \in {home} |-> t1]
MCSeedOwner == [p \in {home} |-> ann]
MCReaders == {<<ben, home>>}
MCWriters == {<<ben, home>>}
MCGuesses == {<<ben, 1>>, <<ben, NoIfVersion>>, <<ben, BadIfVersion>>}
MCDrafts == (ann :> {t2}) @@ (ben :> {Unset}) @@ (Trusted :> {t3})
MCTools == (ann :> {"get_page", "create_page", "update_page"})
           @@ (ben :> {"search_pages", "get_page_versions", "update_page"})
MCMaxRequests == (ann :> 3) @@ (ben :> 1)
=============================================================================
