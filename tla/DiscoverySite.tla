---------------------------- MODULE DiscoverySite ----------------------------
(***************************************************************************)
(* DiscoveryCache with robots.txt among its files: what a row of it says   *)
(* is a rule of RobotsTxt.                                                 *)
(***************************************************************************)
EXTENDS DiscoveryCache, RobotsTxt

CONSTANTS RobotsKeys, Urls

ASSUME SiteAssumption ==
    /\ RobotsKeys \subseteq Keys \ FileKeys
    /\ Bodies \subseteq RobotsRules
    /\ IsFiniteSet(Rows) /\ IsFiniteSet(Bodies)

\* The rules of a cached robots.txt.
RulesIn(content) == {c[2] : c \in content}

\* Every robots.txt a crawler is ever served, cached or about to be, means the
\* same to a crawler that takes the first match and to one that takes the
\* longest, under every spelling of its name: the one the rules together have.
CrawlersAgree ==
    /\ \A k \in RobotsKeys : cache[k] # Nothing => AllAgree(RulesIn(cache[k].content), Urls)
    /\ \A r \in Readers :
          step[r] = "store" /\ file[r] \in RobotsKeys => AllAgree(RulesIn(got[r]), Urls)
=============================================================================
