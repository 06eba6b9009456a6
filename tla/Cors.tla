-------------------------------- MODULE Cors --------------------------------
(***************************************************************************)
(* What CORS decides (httpx/mw_cors.go).  A hostname is the sequence of    *)
(* its labels, the last first (example.com is <<"com", "example">>): two   *)
(* names are equal or one is a subdomain of the other label by label.  An  *)
(* origin or a pattern that does not parse has hostname NoHost.            *)
(***************************************************************************)
EXTENDS Integers, Sequences, FiniteSets, SequencesExt

CONSTANTS NoHost,     \* the hostname of a text that does not parse
          NullOrigin, \* the origin "null"
          NoOrigin,   \* an origin header with an empty value
          AnyValue    \* an option that restricts nothing (a nil list)

\* A pattern is [base, sub]: sub for "*.base".
ValidPatterns(entries) == SelectSeq(entries, LAMBDA p : p.base # NoHost)

CountValidOriginPatterns(entries) == Len(ValidPatterns(entries))

\* An empty list allows any origin; one with nothing valid in it denies every one.
AllowedOrigins(entries) == IF entries = <<>> THEN AnyValue ELSE ToSet(ValidPatterns(entries))

OriginPatternsRefused(entries) == entries # <<>> /\ ValidPatterns(entries) = <<>>

\* Of methods and of header names alike; blank entries are dropped, and only blanks deny all.
AllowedNames(entries) == IF entries = {} THEN AnyValue ELSE entries \ {""}

\* WithExposeHeaders replaces and WithExposeHeadersAppend extends, keeping the first of each name.
ExposeHeaders(current, names, append) ==
  LET all   == (IF append THEN current ELSE <<>>) \o SelectSeq(names, LAMBDA n : n # "")
      first == {i \in DOMAIN all : \A j \in 1..i - 1 : all[j] # all[i]}
  IN IF append /\ names = <<>> THEN current
     ELSE [k \in 1..Cardinality(first) |-> all[SetToSortSeq(first, <)[k]]]

\* Mutant: "*.base" is matched by base itself.
MatchHostnameLoosely(host, p) == host # <<>> /\ p.base # <<>> /\ IsPrefix(p.base, host)

MatchHostnamePattern(host, p) ==
  host # <<>> /\ p.base # <<>> /\ IF host = p.base THEN ~p.sub ELSE IsPrefix(p.base, host)

IsOriginAllowed(cfg, origin) ==
  IF cfg.origins = AnyValue THEN TRUE
  ELSE IF origin = NullOrigin THEN cfg.origins # {} /\ cfg.nullAllowed
  ELSE origin # NoHost /\ \E p \in cfg.origins : MatchHostnamePattern(origin, p)

IsMethodAllowed(method, allowed) ==
  method # "" /\ IF allowed = AnyValue THEN TRUE ELSE method \in allowed

AreRequestHeadersAllowed(names, allowed) ==
  IF allowed = AnyValue THEN TRUE ELSE names \ {""} \subseteq allowed

\* A request with its origin header values, and the method and header names a preflight asks for.
IsPreflight(q) == q.method = "OPTIONS" /\ q.acrm # ""

\* The request carries one origin and it is allowed.
OriginGranted(cfg, q) ==
  /\ cfg.enabled /\ Len(q.origin) = 1
  /\ q.origin[1] # NoOrigin /\ IsOriginAllowed(cfg, q.origin[1])

AnswersPreflight(cfg, q) ==
  /\ OriginGranted(cfg, q) /\ IsPreflight(q)
  /\ IsMethodAllowed(q.acrm, cfg.methods) /\ AreRequestHeadersAllowed(q.acrh, cfg.headers)

GrantsAccess(cfg, q) ==
  OriginGranted(cfg, q) /\ ~IsPreflight(q) /\ IsMethodAllowed(q.method, cfg.methods)

\* The response headers, by name; the ones that say what the answer depends on are in vary.
CorsHeaders(cfg, q) ==
  LET common == {"Allow-Origin"} \cup (IF cfg.credentials THEN {"Allow-Credentials"} ELSE {})
      asked  == q.acrh \ {""}
  IN IF IsPreflight(q)
     THEN [names |-> common \cup {"Allow-Methods"}
                       \cup (IF asked # {} THEN {"Allow-Headers"} ELSE {})
                       \cup (IF cfg.maxAge >= 1 THEN {"Max-Age"} ELSE {}),
           vary  |-> {"Origin", "Request-Method"}
                       \cup (IF asked # {} THEN {"Request-Headers"} ELSE {})]
     ELSE [names |-> common \cup (IF cfg.expose = <<>> THEN {} ELSE {"Expose-Headers"}),
           vary  |-> {"Origin"}]

\* addVary: "*" already says it all.
Vary(current, added) == IF "*" \in current THEN current ELSE current \cup added
=============================================================================
