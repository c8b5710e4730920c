----------------------------- MODULE AccessRules -----------------------------
(***************************************************************************)
(* The packet filter as an application reads it (acl.go): ACLAllows asks   *)
(* the rules about one packet, FirewallConfig converts them to a firewall  *)
(* policy.  Addresses are numbers of the width of their family; the IPv6   *)
(* addresses of one block are the mapped IPv4 ones (netip's Is4In6).       *)
(* gonnect, which applies the policy, is external.                         *)
(***************************************************************************)
EXTENDS Integers, Sequences, FiniteSets, Functions

CONSTANTS
  Bits4, Bits6,     \* widths of the two families, Bits4 < Bits6
  MappedBlock,      \* the high bits of a mapped address
  MaxPort,
  SourceLists,      \* the lists of source selectors that are tried
  Destinations,     \* the destinations: selector and ports
  Protocols,        \* the protocol sets, {} for the default
  NotConverted

Pow2[k \in 0..Bits6] == IF k = 0 THEN 1 ELSE 2 * Pow2[k - 1]

Width(family) == IF family = 4 THEN Bits4 ELSE Bits6
Addresses == {<<4, n>> : n \in 0..(Pow2[Bits4] - 1)} \cup {<<6, n>> : n \in 0..(Pow2[Bits6] - 1)}
Is4In6(a) == a[1] = 6 /\ a[2] \div Pow2[Bits4] = MappedBlock
Unmap(a) == IF Is4In6(a) THEN <<4, a[2] % Pow2[Bits4]>> ELSE a
MappedBits == Bits6 - Bits4   \* the 96 of IPv6

\* Selectors: "*", an address with a prefix length of its own (-1 for none), a
\* prefix, or a range.
Selectors ==
  [kind : {"any"}]
    \cup [kind : {"address"}, addr : Addresses, bits : Int]
    \cup {s \in [kind : {"prefix"}, addr : Addresses, bits : Nat] : s.bits <= Width(s.addr[1])}
    \cup [kind : {"range"}, addr : Addresses, last : Addresses]

ASSUME RuleConstants ==
  /\ Bits4 \in Nat \ {0} /\ Bits6 \in Nat /\ Bits4 < Bits6
  /\ MappedBlock \in 0..(Pow2[Bits6 - Bits4] - 1) /\ MaxPort \in Nat
  /\ SourceLists \subseteq Seq(Selectors)
  /\ Destinations \subseteq [sel : Selectors, first : 0..MaxPort, last : 0..MaxPort]

-----------------------------------------------------------------------------
(* Prefixes (netip.Prefix, external) and ranges.                           *)

Size(a, bits) == Pow2[Width(a[1]) - bits]
Masked(a, bits) == [addr |-> <<a[1], a[2] - (a[2] % Size(a, bits))>>, bits |-> bits]

\* prefixLastAddress with setHostBits.
PrefixLastAddress(p) == <<p.addr[1], p.addr[2] + Size(p.addr, p.bits) - 1>>

PrefixContains(p, a) ==
  /\ a[1] = p.addr[1]
  /\ p.addr[2] <= a[2] /\ a[2] <= PrefixLastAddress(p)[2]

\* unmapPrefix.
UnmapPrefix(p) ==
  IF Is4In6(p.addr) /\ p.bits >= MappedBits
  THEN Masked(Unmap(p.addr), p.bits - MappedBits)
  ELSE p

\* The inner loop: the shortest prefix that begins at start and, like every
\* longer one, does not go past end.
Fits(start, end, bits) ==
  /\ Masked(start, bits).addr = start
  /\ PrefixLastAddress(Masked(start, bits))[2] <= end[2]

PrefixAt(start, end) ==
  LET fits == {b \in 0..Width(start[1]) :
                 \A c \in b..(Width(start[1]) - 1) : Fits(start, end, c)}
  IN Masked(start, CHOOSE b \in fits : \A c \in fits : b <= c)

\* addressRangePrefixes, for start <= end of one family.
AddressRangePrefixes(start, end) ==
  LET from[n \in 0..end[2]] ==
        LET p == PrefixAt(<<start[1], n>>, end)
            last == PrefixLastAddress(p)
        IN IF last[2] >= end[2] THEN <<p>> ELSE <<p>> \o from[last[2] + 1]
  IN from[start[2]]

-----------------------------------------------------------------------------
(* What a selector matches, and what it is converted to.                   *)

\* unmapAddressBits.
UnmapAddressBits(a, bits) ==
  IF Is4In6(a) /\ bits >= MappedBits THEN bits - MappedBits ELSE bits

\* matchesIP.
MatchesIP(sel, addr) ==
  LET a == Unmap(addr) IN
  CASE sel.kind = "any" -> TRUE
    [] sel.kind = "prefix" -> PrefixContains(UnmapPrefix(Masked(sel.addr, sel.bits)), a)
    [] sel.kind = "range" ->
         LET start == Unmap(sel.addr)  end == Unmap(sel.last) IN
         start[1] = a[1] /\ end[1] = a[1] /\ start[2] <= a[2] /\ a[2] <= end[2]
    [] sel.kind = "address" ->
         LET base == Unmap(sel.addr)  bits == UnmapAddressBits(sel.addr, sel.bits) IN
         IF sel.bits < 0 THEN base = a
         ELSE bits <= Width(base[1]) /\ PrefixContains(Masked(base, bits), a)

AnyHost == [addr |-> <<0, 0>>, bits |-> 0]   \* the host "*"

\* firewallHostSelectors.
FirewallHostSelectors(sel) ==
  CASE sel.kind = "any" -> <<AnyHost>>
    [] sel.kind = "prefix" -> <<UnmapPrefix(Masked(sel.addr, sel.bits))>>
    [] sel.kind = "range" ->
         LET start == Unmap(sel.addr)  end == Unmap(sel.last) IN
         IF start[1] # end[1] \/ start[2] > end[2] THEN <<>>
         ELSE AddressRangePrefixes(start, end)
    [] sel.kind = "address" ->
         LET base == Unmap(sel.addr)  bits == UnmapAddressBits(sel.addr, sel.bits) IN
         IF bits < 0 THEN <<Masked(base, Width(base[1]))>>
         ELSE IF bits > Width(base[1]) THEN <<>>
         ELSE <<Masked(base, bits)>>

-----------------------------------------------------------------------------
(* A rule has sources, destinations with ports, and protocols.             *)

DefaultProtocols == {1, 6, 17, 58}
RuleProtocols(rule) == IF rule.protocols = {} THEN DefaultProtocols ELSE rule.protocols

\* ACLAllows with matchesSource, matchesProtocol and matchesDestination.
ACLAllows(rules, packet) ==
  \E rule \in Range(rules) :
    /\ \E sel \in Range(rule.sources) : MatchesIP(sel, packet.source)
    /\ packet.protocol \in RuleProtocols(rule)
    /\ \E dst \in Range(rule.destinations) :
         /\ MatchesIP(dst.sel, packet.destination)
         /\ dst.first <= packet.port /\ packet.port <= dst.last

\* firewallSourceHosts; gonnect asks only which hosts there are.
Hosts(sources) == UNION {Range(FirewallHostSelectors(sel)) : sel \in Range(sources)}

\* Mutant: a rule none of whose sources can be converted is kept.
KeepsUnreadable(rule) == TRUE

\* A rule none of whose sources can be converted is skipped, not broadened.
KeepsRule(rule) == Hosts(rule.sources) # {}

\* FirewallConfig: an entry for each destination and network of each rule; no
\* ports stand for all of them.
RuleEntries(rule) ==
  {[network |-> protocol, hosts |-> Hosts(rule.sources),
    local |-> Range(FirewallHostSelectors(dst.sel)),
    ports |-> IF dst.first = 0 /\ dst.last = MaxPort THEN <<>> ELSE <<dst.first, dst.last>>]
   : protocol \in RuleProtocols(rule),
     dst \in {d \in Range(rule.destinations) :
                FirewallHostSelectors(d.sel) # <<>> /\ d.first <= d.last}}

FirewallConfig(rules) == UNION {RuleEntries(rule) : rule \in {r \in Range(rules) : KeepsRule(r)}}

\* gonnect's reading of a policy: an empty list of hosts or ports is no condition.
HostMatches(hosts, addr) ==
  hosts = {} \/ \E p \in hosts : p = AnyHost \/ PrefixContains(p, Unmap(addr))

FirewallAllows(config, packet) ==
  \E entry \in config :
    /\ entry.network = packet.protocol
    /\ HostMatches(entry.hosts, packet.source) /\ HostMatches(entry.local, packet.destination)
    /\ entry.ports = <<>> \/ (entry.ports[1] <= packet.port /\ packet.port <= entry.ports[2])

-----------------------------------------------------------------------------
VARIABLES
  rules,    \* ACLView.Rules
  policy    \* what FirewallConfig returned

ruleVars == <<rules, policy>>

RuleInit ==
  /\ \E s \in SourceLists, d \in Destinations, ps \in Protocols :
       rules = <<[sources |-> s, destinations |-> <<d>>, protocols |-> ps]>>
  /\ policy = NotConverted

\* ACLFirewallConfig, on a snapshot of the rules.
ACLFirewallConfig ==
  /\ policy = NotConverted
  /\ policy' = FirewallConfig(rules)
  /\ UNCHANGED rules

RuleNext == ACLFirewallConfig

RuleSpec == RuleInit /\ [][RuleNext]_ruleVars

\* The policy an application exports allows exactly the packets that ACLAllows
\* reports as allowed: it is never broader, also where a selector cannot be
\* converted, and never narrower, also at the last address of a family.
PolicyIsACL ==
  policy # NotConverted =>
    \A source, destination \in Addresses, protocol \in DefaultProtocols, port \in 0..MaxPort :
      LET packet == [source |-> source, destination |-> destination,
                     protocol |-> protocol, port |-> port]
      IN FirewallAllows(policy, packet) <=> ACLAllows(rules, packet)

\* The prefixes of a range are disjoint, in order, and at most 2w - 2 of them
\* for addresses of w bits: the loop ends at the last address too, where the
\* next one does not exist.
RangesMinimal ==
  \A rule \in Range(rules) : \A sel \in {s \in Range(rule.sources) : s.kind = "range"} :
    LET ps == FirewallHostSelectors(sel) IN
    ps # <<>> =>
      /\ \A i \in 1..(Len(ps) - 1) : PrefixLastAddress(ps[i])[2] + 1 = ps[i + 1].addr[2]
      /\ ps[1].addr = Unmap(sel.addr) /\ PrefixLastAddress(ps[Len(ps)]) = Unmap(sel.last)
      /\ Len(ps) <= IF Width(ps[1].addr[1]) = 1 THEN 1 ELSE 2 * Width(ps[1].addr[1]) - 2

\* The exported policy is the ACL, in as few prefixes as the loop promises.
PolicyExact == PolicyIsACL /\ RangesMinimal
=============================================================================
