------------------------------- MODULE MCParts -------------------------------
(***************************************************************************)
(* The parts of the client that are checked one by one: each behaviour     *)
(* chooses a part, which moves while the others stay where they begin.     *)
(***************************************************************************)
EXTENDS DerpHome, ControlPings, EndpointReports, ConfirmCache,
        NetworkMap, AccessRules, MagicDNS

-----------------------------------------------------------------------------
(* Selectors over all addresses of two families of two and three bits: the *)
(* ranges, forwards, backwards and across families; the prefixes; the      *)
(* addresses with and without a length, also one that is too long.         *)

Anyone == [kind |-> "any"]
ARange(a, b) == [kind |-> "range", addr |-> a, last |-> b]
APrefix(a, n) == [kind |-> "prefix", addr |-> a, bits |-> n]
AnAddress(a, n) == [kind |-> "address", addr |-> a, bits |-> n]

ManySelectors ==
  {ARange(a, b) : a, b \in Addresses}
    \cup UNION {{APrefix(a, n) : n \in 0..Width(a[1])} : a \in Addresses}
    \cup {AnAddress(a, n) : a \in Addresses, n \in -1..Bits6}
FewSelectors == {Anyone, ARange(<<4, 3>>, <<4, 0>>), AnAddress(<<6, 5>>, 3)}

MCSourceLists == {<<s>> : s \in ManySelectors} \cup {<<s, t>> : s, t \in FewSelectors}
MCDestinations ==
  {[sel |-> Anyone, first |-> 0, last |-> 1],
   [sel |-> AnAddress(<<6, 1>>, 2), first |-> 1, last |-> 1],
   [sel |-> ARange(<<6, 4>>, <<6, 0>>), first |-> 0, last |-> 0],
   [sel |-> Anyone, first |-> 1, last |-> 0]}

MCCandidates == <<"host", "host.net">>

-----------------------------------------------------------------------------
VARIABLE part

Parts == {"home", "pings", "reports", "cache", "map", "rules", "dns"}

partsVars ==
  <<part, derpHomeVars, pingVars, reportVars, cacheVars, mapVars, ruleVars, dnsVars>>

PartsInit ==
  /\ part \in Parts
  /\ HomeInit /\ PingInit /\ ReportInit /\ CacheInit /\ NetworkMapInit
  /\ IF part = "rules" THEN RuleInit ELSE rules = <<>> /\ policy = NotConverted
  /\ part = "dns" \/ dnsRecords = {}
  /\ DNSInit

PartsNext ==
  /\ UNCHANGED part
  /\ \/ /\ part = "home" /\ HomeNext
        /\ UNCHANGED <<pingVars, reportVars, cacheVars, mapVars, ruleVars, dnsVars>>
     \/ /\ part = "pings" /\ PingNext
        /\ UNCHANGED <<derpHomeVars, reportVars, cacheVars, mapVars, ruleVars, dnsVars>>
     \/ /\ part = "reports" /\ ReportNext
        /\ UNCHANGED <<derpHomeVars, pingVars, cacheVars, mapVars, ruleVars, dnsVars>>
     \/ /\ part = "cache" /\ CacheNext
        /\ UNCHANGED <<derpHomeVars, pingVars, reportVars, mapVars, ruleVars, dnsVars>>
     \/ /\ part = "map" /\ NetworkMapNext
        /\ UNCHANGED <<derpHomeVars, pingVars, reportVars, cacheVars, ruleVars, dnsVars>>
     \/ /\ part = "rules" /\ RuleNext
        /\ UNCHANGED <<derpHomeVars, pingVars, reportVars, cacheVars, mapVars, dnsVars>>
     \/ /\ part = "dns" /\ DNSNext
        /\ UNCHANGED <<derpHomeVars, pingVars, reportVars, cacheVars, mapVars, ruleVars>>

\* The fair actions of a part are disabled where it begins.
PartsSpec ==
  /\ PartsInit /\ [][PartsNext]_partsVars
  /\ PingFairness /\ ReportFairness /\ DNSFairness

\* What a part has begun it finishes: pings leave pingPending, endpoints reach
\* control, and lookups return although aliases form cycles.
Progress == PendingClears /\ EndpointsReachControl /\ LookupReturns
=============================================================================
