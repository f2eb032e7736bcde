------------------------ MODULE MCSitemapMaintenance ------------------------
(* Instances of SitemapMaintenance for TLC. *)
EXTENDS SitemapMaintenance

CONSTANTS a, b, w1, w2
=============================================================================
