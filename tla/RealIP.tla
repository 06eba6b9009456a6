------------------------------- MODULE RealIP -------------------------------
(***************************************************************************)
(* Which client address RealIP gives a request (httpx/mw_real_ip.go).  An  *)
(* address that parses is an element of IPs; any other text does not.  A   *)
(* forwarding header is the sequence of its comma-separated entries, the   *)
(* nearest hop last, as strings.Join of its values and Split give it.      *)
(***************************************************************************)
EXTENDS Integers, Sequences

CONSTANTS IPs,        \* the addresses, in their normal form (an IPv4-mapped one as IPv4)
          Nets,       \* [text of a CIDR or an address -> the addresses in it]
          NoIP        \* nil

ASSUME NoIPAssumption == NoIP \notin IPs

ParseIP(text) == IF text \in IPs THEN text ELSE NoIP

\* The nets of the entries that parse, and whether any does not; blank entries are ignored.
ParseTrustedProxies(entries) ==
  [nets |-> UNION {Nets[e] : e \in entries \cap DOMAIN Nets},
   err  |-> entries \ ({""} \cup DOMAIN Nets) # {}]

\* An entry the right-to-left scan passes over without looking whose it is.
SkippedBy(policy, entry) ==
  \/ entry = ""
  \/ policy = "skipUnknown" /\ entry = "unknown"
  \/ policy = "skip" /\ ParseIP(entry) = NoIP

\* Where the scan may end: an address that is not a trusted proxy's, or an entry that is invalid.
Ends(parts, trusted, policy) ==
  {i \in DOMAIN parts : ~SkippedBy(policy, parts[i]) /\ ParseIP(parts[i]) \notin trusted}

\* Mutant: from the left.
IsScanEndFromLeft(i, parts, trusted, policy) ==
  /\ i \in Ends(parts, trusted, policy)
  /\ \A j \in Ends(parts, trusted, policy) : j >= i

\* The scan goes from the right to the first of them.
IsScanEnd(i, parts, trusted, policy) ==
  /\ i \in Ends(parts, trusted, policy)
  /\ \A j \in Ends(parts, trusted, policy) : j <= i

FromXFF(parts, trusted, policy) ==
  IF Ends(parts, trusted, policy) = {} THEN NoIP
  ELSE ParseIP(parts[CHOOSE i \in DOMAIN parts : IsScanEnd(i, parts, trusted, policy)])

\* A header of one address must have exactly one value.
FromSingle(values) == IF Len(values) = 1 THEN ParseIP(values[1]) ELSE NoIP

FromHeader(name, headers, trusted, policy) ==
  IF name = "X-Forwarded-For" THEN FromXFF(headers[name], trusted, policy)
  ELSE FromSingle(headers[name])

\* cfg.trusted: the trusted addresses; cfg.headers: the names to look at, in order.
ExtractRealIP(cfg, peer, headers) ==
  LET from(k) == FromHeader(cfg.headers[k], headers, cfg.trusted, cfg.policy)
      given   == {k \in DOMAIN cfg.headers : from(k) # NoIP}
  IN IF ParseIP(peer) = NoIP THEN NoIP
     ELSE IF peer \notin cfg.trusted \/ given = {} THEN peer
     ELSE from(CHOOSE k \in given : \A j \in given : k <= j)
=============================================================================
