---------------------------- MODULE MCCdpRender ----------------------------
EXTENDS CdpRender, TLC

CONSTANTS k1, k2, q1, q2, here, there, page

(* A frame in a frame; a request of the page and one of a frame. *)
Nested == (k1 :> page) @@ (k2 :> k1)
Senders == (q1 :> page) @@ (q2 :> k1)
Targets == (q1 :> here) @@ (q2 :> there)

=============================================================================
