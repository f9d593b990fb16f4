----------------------------- MODULE MCCrawlJobs -----------------------------
(* CrawlJobs on small instances: a crawl and a batch of up to two URLs on one *)
(* permit, or a crawl by itself.                                              *)
EXTENDS CrawlJobs
=============================================================================
