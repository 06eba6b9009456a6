------------------------------- MODULE MCHttp -------------------------------
(***************************************************************************)
(* Four chains: the admin subtree's with a nil layer, CORS, a guard and a  *)
(* Timeout; one with Timeouts, limits and Recovers nested; two of guards.  *)
(***************************************************************************)
EXTENDS HttpChain, HttpClient, AdminAssembly

\* proxy1 is a trusted proxy, client and other are not.
MCIPs  == {"proxy1", "proxy2", "client", "other"}
MCNets == [e \in {"10/8", "client"} |-> IF e = "10/8" THEN {"proxy1", "proxy2"} ELSE {"client"}]

RealIPLayer(policy) ==
  [mw |-> "realip", cfg |-> [trusted |-> ParseTrustedProxies({"10/8", "", "junk"}).nets,
                             headers |-> <<"X-Forwarded-For", "X-Real-IP">>, policy |-> policy]]

CorsLayer ==
  [mw |-> "cors",
   cfg |-> [enabled |-> TRUE, nullAllowed |-> FALSE, credentials |-> TRUE, maxAge |-> 600,
            origins |-> AllowedOrigins(<<[base |-> <<"com", "example">>, sub |-> TRUE],
                                         [base |-> <<"org", "site">>, sub |-> FALSE],
                                         [base |-> NoHost, sub |-> FALSE]>>),
            methods |-> AllowedNames({"GET", "POST", ""}), headers |-> AnyValue,
            expose |-> ExposeHeaders(<<"X-Request-ID">>, <<"", "X-Request-ID">>, TRUE)]]

Recover      == [mw |-> "recover"]
Timeout(d)   == [mw |-> "timeout", d |-> d]
BodyLimit(n) == [mw |-> "bodylimit", limit |-> n]
GuardWith(o) == [mw |-> "guard", options |-> o]

RequestID(incoming, set) == [mw |-> "requestid", trust |-> TRUE, incoming |-> incoming, set |-> set]

MCChains ==
  { AdminChain(RealIPLayer("skipUnknown").cfg)
      \o <<CorsLayer, NoLayer, GuardWith(GuardOptions("TokensAndIPAllowList")), Timeout(1)>>,
    <<Timeout(2), BodyLimit(1), Recover, Timeout(1), BodyLimit(2), Timeout(3), Recover, BodyLimit(0)>>,
    <<Timeout(1), RealIPLayer("stop"), GuardWith(<<"status", "token", "or">>),
      GuardWith(<<"ip", "or", "token">>), Recover>>,
    <<RequestID(<<"X-Request-ID", "X-Trace-ID">>, FALSE),
      GuardWith(<<"check">>), RealIPLayer("skip"), GuardWith(<<"ip">>)>> }

\* The values of the headers a RequestID may look at.
IDs(own, trace) == [h \in {"X-Request-ID", "X-Trace-ID"} |-> IF h = "X-Request-ID" THEN own ELSE trace]
NoIDs           == IDs(<<>>, <<>>)

Request(peer, xff, real, token, length, body) ==
  [method |-> "POST", origin |-> <<>>, acrm |-> "", acrh |-> {}, peer |-> peer,
   headers |-> [h \in {"X-Forwarded-For", "X-Real-IP"} |-> IF h = "X-Real-IP" THEN real ELSE xff],
   token |-> token, ids |-> NoIDs, length |-> length, body |-> body]

Forwarded == { Request("proxy1", <<"client", "unknown", "other", "", "proxy2">>, <<>>, <<"t1">>, -1, 0),
               Request("proxy1", <<"client", "unknown", "proxy2">>, <<"other">>, <<"t2">>, 0, 0),
               Request("proxy1", <<"client", "junk">>, <<"other", "client">>, <<>>, 0, 0),
               Request("client", <<"other">>, <<>>, <<"t1">>, 0, 0),
               Request("@", <<"other">>, <<>>, <<"t1", "t1">>, 0, 0) }

Bodies == { Request("client", <<>>, <<>>, <<"">>, n, b) : <<n, b>> \in {<<-1, 3>>, <<1, 1>>, <<2, 2>>} }

Origins == {<<"com", "example", "www">>, <<"com", "example">>, <<"org", "site">>, <<"com">>, NoHost, NullOrigin, NoOrigin}

CrossOrigin ==
  LET simple == Request("client", <<>>, <<>>, <<"t1">>, 0, 0)
  IN {[simple EXCEPT !.origin = <<o>>, !.ids = IDs(<<"id1">>, <<>>)] : o \in Origins}
       \cup {[simple EXCEPT !.origin = <<o>>, !.method = "OPTIONS", !.acrm = m, !.acrh = {"X-A"},
                            !.ids = IDs(<<"id1", "id2">>, <<"id2">>)] :
               o \in {<<"com", "example", "www">>, <<"com", "example">>}, m \in {"POST", "DELETE"}}

MCInputs == Forwarded \cup Bodies \cup CrossOrigin

MCTokenUpdates == {{""}, {"t1"}}
MCIPUpdates    == {{"client", ""}}

\* What the options make of a guard, and of lists with nothing valid in them, as documented.
ASSUME OptionsAssumption ==
  /\ GuardRefused(<<>>) /\ GuardRefused(<<"or">>) /\ GuardRefused(<<"check", "token">>)
  /\ GuardRefused(<<"or", "check">>) /\ GuardRefused(<<"ip", "ip">>)
  /\ \A layers \in MCChains : \A i \in DOMAIN Chain(layers) :
       Chain(layers)[i].mw = "guard" => ~GuardRefused(Chain(layers)[i].options)
  /\ OriginPatternsRefused(<<[base |-> NoHost, sub |-> FALSE]>>)
  /\ CountValidOriginPatterns(<<>>) = 0 /\ ~OriginPatternsRefused(<<>>)
  /\ ~IsMethodAllowed("GET", AllowedNames({""}))
  /\ AreRequestHeadersAllowed({}, AllowedNames({""}))
  /\ ParseTrustedProxies({"junk", "10/8"}).err /\ ~ParseTrustedProxies({""}).err

\* A read error is an error of the caller unless the limit was passed before it, whatever the limit.
ASSUME ReadAssumption ==
  \A size \in 0 .. 4, limit \in -1 .. 3, e \in {"with", "after"} :
    LET most == IF limit < 0 THEN 0 ELSE limit
    IN ReadAllAndCloseLimit([size |-> size, error |-> e], limit).err \in
         IF size > most + 1 THEN {"ErrBodyTooLarge"}
         ELSE IF size <= most THEN {"read"} ELSE {"read", "ErrBodyTooLarge"}

ASSUME TransportAssumption ==
  /\ New([roundTripper |-> TRUE, transport |-> TRUE, middlewares |-> <<"a", "nil", "b">>]) =
       <<"a", "b", "roundTripper">>
  /\ New([roundTripper |-> FALSE, transport |-> FALSE, middlewares |-> <<>>]) = <<"defaultClone">>

\* Default admins of every kind: each is refused exactly when something it enables has no source; a
\* write is mounted behind the write guard only, and never without one; the report shows reads.
Groups == {"log", "tuning", "tasks"}

DefaultAdmins ==
  [readGuard : {"read", Nobody}, writeGuard : {"write", Nobody}, sources : SUBSET Groups,
   writes : SUBSET Groups, provided : {TRUE}, readyChecks : {<<>>, <<[name |-> "db", func |-> TRUE]>>},
   tuningRead : {AnyKey}, tuningWrite : {AnyKey}, taskRead : {AnyKey}, taskWrite : {AnyKey}]

ASSUME DefaultAdminAssumption ==
  \A sp \in DefaultAdmins :
    /\ DefaultAdminRefused(sp) =
         (sp.readGuard = Nobody \/ (sp.writeGuard # Nobody /\ ~(sp.writes \subseteq sp.sources)))
    /\ \A m \in Mounts(DefaultOptions(sp)) :
         m.guard = IF m.cap \in Writes THEN sp.writeGuard ELSE sp.readGuard
    /\ sp.writeGuard = Nobody => \A m \in Mounts(DefaultOptions(sp)) : m.cap \in Reads
    /\ \A n \in DOMAIN Sections(DefaultOptions(sp)) : Sections(DefaultOptions(sp))[n].cap \in Reads

\* A write needs a list with the key or one of its prefixes in it; a list with nothing in it closes
\* reads as well.
ASSUME AccessAssumption ==
  LET Lists == {<<>>, <<"">>, <<"a">>, <<"", "ab">>}
      Of == [k \in {"a", "ab", ""} |-> IF k = "ab" THEN {"a", "ab"} ELSE {k}]
  IN \A p \in Lists, k \in Lists, key \in DOMAIN Of :
       LET a == [func |-> NoFunc, prefixes |-> p, keys |-> k]
       IN /\ AccessAllows("tuning.set", a, key, Of) =>
               key # "" /\ (key \in ToSet(k) \/ Of[key] \cap ToSet(p) # {})
          /\ (p = <<"">> \/ k = <<"">>) => ~AccessAllows("tuning.snapshot", a, key, Of)
          /\ ~AccessRefused(a) /\ AccessRefused([a EXCEPT !.func = {}]) = (p # <<>> \/ k # <<>>)

ASSUME ReportAssumption ==
  /\ \A kind \in {"Tokens", "IPAllowList", "TokensOrIPAllowList", "HotTokensAndIPAllowList", "Check"} :
       ~GuardRefused(GuardOptions(kind))
  /\ \A a \in 0 .. 3, b \in 0 .. 3 :
       /\ Captured(<<a, b>>, 2).kept = (IF a + b > 2 THEN 2 ELSE a + b)
       /\ a + b > 2 => Captured(<<a, b>>, 2).truncated
       /\ Captured(<<a, b>>, 0) = [kept |-> a + b, truncated |-> FALSE]
  /\ LET one == <<Capability("buildinfo", "read")>>
     IN \A status \in {200, 404} :
          ReportAnswer("GET", Sections(one), <<[status |-> status, writes |-> <<1>>]>>, 2).ok = (status = 200)
  /\ AdminRefused(<<Capability("report", "read"), [Capability("report", "read") EXCEPT !.path = "r"]>>)
  /\ AdminRefused(<<[Capability("runtime", "read") EXCEPT !.path = "//"]>>)
=============================================================================
