------------------------------ MODULE MagicDNS ------------------------------
(***************************************************************************)
(* The in-memory resolver (dns.go: LookupNetIP, resolveDNSName) over the   *)
(* records of a DNS view (views.go: dnsViewLocked), while map responses    *)
(* replace them.  Names are normalised.  A record is an address or an      *)
(* alias; the host asked for is a name without a dot, tried as it is and   *)
(* then in each search domain.  The recursion over aliases is a set of     *)
(* names still to be visited: the addresses are sorted and compacted at    *)
(* the end, so the order of the visits does not show.                      *)
(***************************************************************************)
EXTENDS Integers, Sequences, FiniteSets

CONSTANTS
  Candidates,     \* the names LookupNetIP tries, in order
  Aliases,        \* other names
  V4Addresses, V6Addresses,
  MaxRecords,     \* bound on the records
  MaxUpdates      \* bound on the replacements of the records

DNSAddresses == V4Addresses \cup V6Addresses
DNSNames == {Candidates[i] : i \in DOMAIN Candidates} \cup Aliases
Records == DNSNames \X (DNSAddresses \cup DNSNames)

ASSUME DNSConstants ==
  /\ Candidates \in Seq(DNSNames) /\ Candidates # <<>>
  /\ MaxRecords \in Nat /\ MaxUpdates \in Nat

VARIABLES
  dnsRecords,   \* the client's records, which c.DNS() copies
  updates,
  view,         \* the records the lookup copied
  network,      \* "ip", "ip4" or "ip6"
  tried,        \* index of the candidate being resolved, 0 before the lookup
  pending,      \* names that resolveDNSName was called with and has not visited
  seen,
  answer,
  returned

dnsVars == <<dnsRecords, updates, view, network, tried, pending, seen, answer, returned>>

RecordSets == {s \in SUBSET Records : Cardinality(s) <= MaxRecords}

DNSInit ==
  /\ dnsRecords \in RecordSets /\ updates = 0 /\ view = {}
  /\ network = "ip" /\ tried = 0 /\ pending = {} /\ seen = {} /\ answer = {}
  /\ returned = FALSE

LookupNetIP ==
  /\ tried = 0
  /\ view' = dnsRecords
  /\ network' \in {"ip", "ip4", "ip6"}
  /\ tried' = 1 /\ pending' = {Candidates[1]}
  /\ UNCHANGED <<dnsRecords, updates, seen, answer, returned>>

Wanted(value) ==
  /\ value \in DNSAddresses
  /\ network = "ip4" => value \in V4Addresses
  /\ network = "ip6" => value \in V6Addresses

\* Mutant: the records are read again at each alias.
VisitLive(name) ==
  LET values == {r[2] : r \in {q \in dnsRecords : q[1] = name}} IN
  /\ pending' = (pending \ {name}) \cup (values \cap DNSNames)
  /\ seen' = seen \cup {name}
  /\ answer' = answer \cup {v \in values : Wanted(v)}

\* The body of resolveDNSName for a name not seen before.
Visit(name) ==
  LET values == {r[2] : r \in {q \in view : q[1] = name}} IN
  /\ pending' = (pending \ {name}) \cup (values \cap DNSNames)
  /\ seen' = seen \cup {name}
  /\ answer' = answer \cup {v \in values : Wanted(v)}

\* Mutant: a name that was seen is visited again.
VisitAgain(name) == Visit(name)

ResolveDNSName(name) ==
  IF name \in seen
  THEN pending' = pending \ {name} /\ UNCHANGED <<seen, answer>>
  ELSE Visit(name)

Resolve(name) ==
  /\ name \in pending
  /\ ResolveDNSName(name)
  /\ UNCHANGED <<dnsRecords, updates, view, network, tried, returned>>

\* The call for one candidate returned: the first answer ends the search.
CandidateDone ==
  /\ tried # 0 /\ pending = {} /\ ~returned
  /\ IF answer = {} /\ tried < Len(Candidates)
     THEN tried' = tried + 1 /\ pending' = {Candidates[tried']} /\ seen' = {} /\ UNCHANGED returned
     ELSE returned' = TRUE /\ UNCHANGED <<tried, pending, seen>>
  /\ UNCHANGED <<dnsRecords, updates, view, network, answer>>

\* A map response changes the records.
RecordsReplaced ==
  /\ updates < MaxUpdates /\ updates' = updates + 1
  /\ \E r \in dnsRecords : dnsRecords' = dnsRecords \ {r}
  /\ UNCHANGED <<view, network, tried, pending, seen, answer, returned>>

DNSNext ==
  LookupNetIP \/ (\E name \in DNSNames : Resolve(name)) \/ CandidateDone \/ RecordsReplaced

DNSSpec == DNSInit /\ [][DNSNext]_dnsVars

DNSFairness ==
  /\ WF_dnsVars(\E name \in DNSNames : Resolve(name))
  /\ WF_dnsVars(CandidateDone)

-----------------------------------------------------------------------------
(* Properties.                                                             *)

\* The names a name stands for: the least set with it that the aliases of the
\* view do not lead out of.
StandsFor(name) ==
  LET closed == {s \in SUBSET DNSNames : name \in s /\
                   \A r \in view : r[1] \in s /\ r[2] \in DNSNames => r[2] \in s}
  IN {n \in DNSNames : \A s \in closed : n \in s}

AddressesOf(name) == {r[2] : r \in {q \in view : q[1] \in StandsFor(name) /\ Wanted(q[2])}}

\* A lookup answers with all the addresses of the wanted family that one copy
\* of the records gives the first candidate that has any, through aliases that
\* may branch, join and form cycles, whatever map responses do meanwhile.
AnswerExact ==
  returned =>
    answer = AddressesOf(Candidates[tried])
    /\ \A i \in 1..(tried - 1) : AddressesOf(Candidates[i]) = {}
    /\ (answer = {} => tried = Len(Candidates))

\* A lookup returns, also when aliases form a cycle.
LookupReturns == tried # 0 ~> returned

-----------------------------------------------------------------------------
(* The inductive invariant behind AnswerExact.                             *)

\* Before the lookup.
DNSIdle == pending = {} /\ seen = {} /\ answer = {} /\ ~returned

\* The names met stand for the candidate, it is among them, the aliases of a name
\* seen have been met, and the answer is what the names seen give.
SearchInv ==
  /\ tried \in DOMAIN Candidates
  /\ Candidates[tried] \in seen \cup pending
  /\ seen \cup pending \subseteq StandsFor(Candidates[tried])
  /\ \A r \in view : r[1] \in seen /\ r[2] \in DNSNames => r[2] \in seen \cup pending
  /\ answer = {r[2] : r \in {q \in view : q[1] \in seen /\ Wanted(q[2])}}

\* The candidates before it have no address, and only the last is given up.
EarlierEmpty ==
  /\ \A i \in 1..(tried - 1) : AddressesOf(Candidates[i]) = {}
  /\ returned => pending = {} /\ (answer = {} => tried = Len(Candidates))

DNSInv ==
  /\ tried \in Nat
  /\ IF tried = 0 THEN DNSIdle ELSE SearchInv /\ EarlierEmpty
=============================================================================
