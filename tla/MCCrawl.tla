------------------------------- MODULE MCCrawl -------------------------------
(* Crawl on a small site: five pages, one of them linked in two spellings,    *)
(* and a foreign one no crawl may follow.                                     *)
EXTENDS Crawl, TLC

CONSTANTS home, about, aboutToo, news, blog, team, foreign

MCUrls == {home, about, aboutToo, news, blog, team, foreign}

MCKey == [ u \in MCUrls |-> IF u = aboutToo THEN about ELSE u ]
=============================================================================
