----------------------------- MODULE HttpProofs -----------------------------
(***************************************************************************)
(* Proofs about HttpChain, for every chain of layers, every request and    *)
(* every update of the sets: that its types are kept, that a panic is      *)
(* answered once, that limits and deadlines are held and told of, that     *)
(* what a guard decides, an address and a cross-origin grant are           *)
(* justified; and that what a client writes into X-Forwarded-For does not  *)
(* change the address RealIP gives it once an entry to the right of it     *)
(* ends the scan.                                                          *)
(***************************************************************************)
EXTENDS HttpChain, NaturalsInduction, WellFoundedInduction, FiniteSetTheorems, TLAPS

-----------------------------------------------------------------------------
(* Sets of places *)

\* A set of naturals with something in it has a smallest one.
LEMMA SmallestOf ==
  ASSUME NEW S \in SUBSET Nat, S # {}
  PROVE  \E x \in S : \A y \in S : x <= y
<1> DEFINE Less == {p \in Nat \X Nat : p[1] < p[2]}
<1>1. IsWellFoundedOn(Less, Nat)
  BY NatLessThanWellFounded DEF OpToRel
<1>2. \E x \in S : \A y \in S : ~ (<<y, x>> \in Less)
  <2> HIDE DEF Less
  <2> QED BY <1>1, WFMin
<1>3. ASSUME NEW x \in S, NEW y \in S, ~ (<<y, x>> \in Less)
      PROVE  x <= y
  <2>1. x \in Nat /\ y \in Nat /\ ~ (y < x)
    BY <1>3
  <2> QED BY <2>1
<1> QED BY <1>2, <1>3

\* A set of places with something in it has a last one.
LEMMA LargestOf ==
  ASSUME NEW n \in Nat, NEW S \in SUBSET (1..n), S # {}
  PROVE  \E x \in S : \A y \in S : y <= x
<1> DEFINE T == {n - x : x \in S}
<1>1. T \in SUBSET Nat /\ T # {}
  <2>1. \A x \in S : x \in Nat /\ n - x \in Nat
    OBVIOUS
  <2>2. PICK x \in S : TRUE
    OBVIOUS
  <2>3. n - x \in T
    OBVIOUS
  <2> QED BY <2>1, <2>3
<1>2. PICK t \in T : \A u \in T : t <= u
  BY <1>1, SmallestOf
<1>3. PICK x \in S : t = n - x
  BY <1>2
<1>4. \A y \in S : n - y \in T
  OBVIOUS
<1>5. \A y \in S : n - x <= n - y
  BY <1>2, <1>3, <1>4
<1> QED BY <1>5

-----------------------------------------------------------------------------
(* The scan of X-Forwarded-For *)

\* The entries of the suffix are judged as they were without the prefix.
LEMMA EndsOfSuffix ==
  ASSUME NEW Entry, NEW prefix \in Seq(Entry), NEW suffix \in Seq(Entry),
         NEW trusted, NEW policy
  PROVE  \A i \in DOMAIN suffix :
           i \in Ends(suffix, trusted, policy)
             <=> Len(prefix) + i \in Ends(prefix \o suffix, trusted, policy)
<1> SUFFICES ASSUME NEW i \in DOMAIN suffix
             PROVE i \in Ends(suffix, trusted, policy)
                     <=> Len(prefix) + i \in Ends(prefix \o suffix, trusted, policy)
  OBVIOUS
<1>1. /\ Len(prefix) \in Nat /\ i \in Nat /\ i \in 1..Len(suffix)
      /\ DOMAIN (prefix \o suffix) = 1..Len(prefix) + Len(suffix)
  OBVIOUS
<1>2. Len(prefix) + i \in DOMAIN (prefix \o suffix)
  BY <1>1
<1>3. (prefix \o suffix)[Len(prefix) + i] = suffix[i]
  BY <1>1
<1> QED BY <1>2, <1>3 DEF Ends

\* The last end of the whole is the last end of the suffix.
LEMMA LastEndOfSuffix ==
  ASSUME NEW Entry, NEW prefix \in Seq(Entry), NEW suffix \in Seq(Entry),
         NEW trusted, NEW policy,
         NEW i \in DOMAIN suffix, IsScanEnd(i, suffix, trusted, policy)
  PROVE  IsScanEnd(Len(prefix) + i, prefix \o suffix, trusted, policy)
<1>1. i \in Ends(suffix, trusted, policy) /\ \A j \in Ends(suffix, trusted, policy) : j <= i
  BY DEF IsScanEnd
<1>2. Len(prefix) + i \in Ends(prefix \o suffix, trusted, policy)
  BY <1>1, EndsOfSuffix
<1>3. ASSUME NEW j \in Ends(prefix \o suffix, trusted, policy)
      PROVE  j <= Len(prefix) + i
  <2>1. /\ Len(prefix) \in Nat /\ Len(suffix) \in Nat /\ i \in Nat
        /\ DOMAIN (prefix \o suffix) = 1..Len(prefix) + Len(suffix)
        /\ DOMAIN suffix = 1..Len(suffix)
    OBVIOUS
  <2>2. j \in 1..Len(prefix) + Len(suffix)
    BY <2>1 DEF Ends
  <2>3. CASE j <= Len(prefix)
    BY <2>1, <2>2, <2>3
  <2>4. CASE j > Len(prefix)
    <3> DEFINE k == j - Len(prefix)
    <3>1. k \in DOMAIN suffix /\ j = Len(prefix) + k
      BY <2>1, <2>2, <2>4
    <3>2. k \in Ends(suffix, trusted, policy)
      BY <3>1, EndsOfSuffix
    <3>3. k <= i
      BY <3>2, <1>1
    <3> QED BY <3>1, <3>3, <2>1, <2>2
  <2> QED BY <2>1, <2>2, <2>3, <2>4
<1> QED BY <1>2, <1>3 DEF IsScanEnd

\* There is one scan end at most.
LEMMA OneScanEnd ==
  ASSUME NEW Entry, NEW parts \in Seq(Entry), NEW trusted, NEW policy,
         NEW i \in DOMAIN parts, NEW j \in DOMAIN parts,
         IsScanEnd(i, parts, trusted, policy), IsScanEnd(j, parts, trusted, policy)
  PROVE  i = j
<1>1. i \in Nat /\ j \in Nat
  OBVIOUS
<1>2. i <= j /\ j <= i
  BY DEF IsScanEnd
<1> QED BY <1>1, <1>2

\* A scan that has ended at i gives the address there.
LEMMA ScanEndGives ==
  ASSUME NEW Entry, NEW parts \in Seq(Entry), NEW trusted, NEW policy,
         NEW i \in DOMAIN parts, IsScanEnd(i, parts, trusted, policy)
  PROVE  FromXFF(parts, trusted, policy) = ParseIP(parts[i])
<1> DEFINE last == CHOOSE j \in DOMAIN parts : IsScanEnd(j, parts, trusted, policy)
<1>1. last \in DOMAIN parts /\ IsScanEnd(last, parts, trusted, policy)
  OBVIOUS
<1>2. last = i
  BY <1>1, OneScanEnd
<1>3. Ends(parts, trusted, policy) # {}
  BY DEF IsScanEnd
<1> QED BY <1>2, <1>3 DEF FromXFF

\* extractFromXFF: whatever stands to the left of a suffix that ends the scan, the address is the
\* one the suffix alone gives; a client cannot forge its address by adding entries.
THEOREM ForgedPrefixIgnored ==
  ASSUME NEW Entry, NEW prefix \in Seq(Entry), NEW suffix \in Seq(Entry),
         NEW trusted, NEW policy,
         NEW i \in DOMAIN suffix, IsScanEnd(i, suffix, trusted, policy)
  PROVE  FromXFF(prefix \o suffix, trusted, policy) = FromXFF(suffix, trusted, policy)
<1>1. IsScanEnd(Len(prefix) + i, prefix \o suffix, trusted, policy)
  BY LastEndOfSuffix
<1>2. /\ prefix \o suffix \in Seq(Entry)
      /\ Len(prefix) + i \in DOMAIN (prefix \o suffix)
      /\ (prefix \o suffix)[Len(prefix) + i] = suffix[i]
  OBVIOUS
<1>3. FromXFF(prefix \o suffix, trusted, policy) = ParseIP((prefix \o suffix)[Len(prefix) + i])
  BY <1>1, <1>2, ScanEndGives
<1>4. FromXFF(suffix, trusted, policy) = ParseIP(suffix[i])
  BY ScanEndGives
<1> QED BY <1>2, <1>3, <1>4

-----------------------------------------------------------------------------
(* The invariant *)

TokenSnaps == {EmptySet, AllowAll} \cup {Updated(entries) : entries \in TokenUpdates}
IPSnaps    == {EmptySet, AllowAll} \cup {Updated(entries) : entries \in IPUpdates}

TokenWords == {"off", "asked", "nonempty", "ok", "token-missing", "token-ambiguous", "token-empty",
               "token-set-empty", "token-not-allowed"}
IPWords    == {"off", "asked", "nonempty", "ok", "ip-parse-failed", "ip-allowlist-empty",
               "ip-not-allowed"}
Verdicts   == TokenWords \cup IPWords \cup {"none", "allowed", "custom-check-denied"}

Looking == [layer : 0..Len(chain), token : TokenWords, ip : IPWords, verdict : Verdicts,
            sawTokens : SUBSET TokenSnaps, sawIPs : SUBSET IPSnaps]

\* What each field of a request ranges over.
Places    == 0..Len(chain) + 1
Ways      == {"down", "guard", "up", "panic", "abort", "done", "aborted"}
Addresses == IPs \cup {NoIP}
IDs       == ValidIDs \cup {"none", "generated"}
Errs      == [DOMAIN chain -> {"none", "live", "deadline", "canceled"}]
Deadlines == [DOMAIN chain -> Int]
Limiting  == SUBSET LayersOf("bodylimit")
Noticed   == SUBSET LayersOf("recover")
Tellings  == SUBSET Tellable
Statuses  == {0, 200, 204, 403, 404, 413, 500}
Writers   == {"cors", "guard", "bodylimit", "handler", "recover"}
Authors   == SUBSET Writers
Names     == SUBSET {"X-Request-ID", "Connection: close", "Allow-Origin", "Allow-Credentials",
                     "Allow-Methods", "Allow-Headers", "Max-Age", "Expose-Headers"}
Varying   == SUBSET {"Origin", "Request-Method", "Request-Headers"}
Fates     == {"none", "returned", "panic", "abort"}
Befores   == {0, 200}

Serving ==
  [q : Inputs, at : Places, way : Ways, left : BOOLEAN, ip : Addresses, id : IDs, err : Errs,
   deadline : Deadlines, limited : Limiting, exceeded : Limiting, got : Nat, told : Tellings,
   wrote : Noticed, informed : BOOLEAN, status : Statuses, authors : Authors, headers : Names,
   vary : Varying, check : Looking, fate : Fates, before : Befores]

\* The chain is one the program builds, and every request that has arrived is one of the records.
Shaped ==
  /\ now \in 0..MaxTime
  /\ Len(chain) \in Nat /\ DOMAIN chain = 1..Len(chain)
  /\ \A i \in DOMAIN chain : IsLayer(chain[i])
  /\ tokens \in TokenSnaps /\ ips \in IPSnaps
  /\ req \in [Requests -> Serving \cup {Idle}]

Kind(i, mw) == i \in DOMAIN chain /\ chain[i].mw = mw

\* A request on its way to the handler: the layers ahead have done nothing for it yet, and before
\* the handler nothing has been read or written.
Untouched(s) ==
  s.way \in {"down", "guard"} =>
    /\ s.at > 0 /\ s.told = {} /\ s.fate = "none" /\ s.before = 0
    /\ "Allow-Methods" \notin s.headers
    /\ \A i \in DOMAIN chain : i >= s.at => s.err[i] = "none"
    /\ s.way = "guard" => Kind(s.at, "guard")
    /\ s.at <= Len(chain) =>
         s.got = 0 /\ s.exceeded = {} /\ s.status = 0 /\ s.authors = {} /\ s.wrote = {} /\ ~s.informed

\* Only a Timeout derives a context, one with a tighter deadline than those around it; the context
\* lives while the request is inside, and a deadline ends it no earlier than its own.
Contexts(s) ==
  \A i \in DOMAIN chain :
    /\ s.err[i] # "none" => chain[i].mw = "timeout"
    /\ s.err[i] = "live" => i <= s.at
    /\ s.err[i] = "deadline" => s.deadline[i] <= now
    /\ \A j \in DOMAIN chain :
         i < j /\ s.err[i] # "none" /\ s.err[j] # "none" => s.deadline[j] < s.deadline[i]

\* The hook is told of a deadline that is over, by a layer the handler's panic did not pass; and
\* every such layer the request has come back through has told it.
Told(s) ==
  \A i \in DOMAIN chain :
    /\ <<i, "timeout">> \in s.told => s.deadline[i] <= now /\ ~UnwoundBy(s, i)
    /\ i > s.at /\ s.err[i] = "deadline" /\ ~UnwoundBy(s, i) => <<i, "timeout">> \in s.told

\* What the way up tells of how the handler ended, and of the Recovers passed.
Ending(s) ==
  /\ s.way = "up" \/ s.way = "done" =>
       /\ s.fate # "abort"
       /\ s.fate = "panic" => \E j \in DOMAIN chain : j > s.at /\ chain[j].mw = "recover"
  /\ s.way = "panic" =>
       s.fate = "panic" /\ \A j \in DOMAIN chain : j > s.at => chain[j].mw # "recover"
  /\ s.way = "abort" => s.fate = "abort"
  /\ s.way = "aborted" =>
       \/ s.fate = "abort"
       \/ s.fate = "panic" /\ \A j \in DOMAIN chain : chain[j].mw # "recover"
  /\ s.way \in {"done", "aborted"} => s.at = 0
  /\ s.way \in {"up", "panic", "abort"} => s.at <= Len(chain)

\* A limit at i that another one, or itself, has used up.
UsedUp(s, i) == s.got < s.q.body /\ \E j \in s.limited : j <= i /\ s.got = chain[j].limit

Body(s) ==
  /\ s.got <= s.q.body
  /\ \A i \in s.limited : s.got <= chain[i].limit
  /\ \A i \in s.exceeded : UsedUp(s, i)
  /\ \A i \in DOMAIN chain : <<i, "read">> \in s.told => UsedUp(s, i)

\* What the handler has sent and what the Recovers around it have noticed of it.
Sent(s) ==
  /\ s.authors \subseteq {"handler"}
  /\ s.status = (IF s.authors = {} THEN 0 ELSE 200)
  /\ IF s.authors = {} /\ ~s.informed THEN s.wrote = {}
     ELSE \A i \in DOMAIN chain : chain[i].mw = "recover" => i \in s.wrote

\* One layer writes the answer; the Recover that ends a panic does when nothing was sent before.
Written(s) ==
  /\ \E a \in Writers : s.authors \subseteq {a}
  /\ s.way \in {"down", "panic"} => Sent(s)
  /\ s.way = "panic" => s.before = s.status
  /\ s.fate = "panic" /\ s.way \in {"up", "done"} =>
       s.status = IF s.before # 0 THEN s.before
                  ELSE IF s.informed THEN (IF s.way = "up" THEN 0 ELSE 200) ELSE 500

TokenSays(s, v) ==
  IF Len(s.q.token) = 1 /\ s.q.token[1] # ""
  THEN \E t \in s.check.sawTokens : Holds(t, s.q.token[1]) = v ELSE ~v

IPSays(s, v) ==
  IF ResolvedIP(s) # NoIP THEN \E a \in s.check.sawIPs : Holds(a, ResolvedIP(s)) = v ELSE ~v

\* While a guard looks, what it has found is what a snapshot it may have seen says.
Looks(s) ==
  s.way = "guard" =>
    /\ s.check.layer = s.at /\ s.check.verdict = "none" /\ ~Guard(s).check
    /\ tokens \in s.check.sawTokens /\ ips \in s.check.sawIPs
    /\ s.check.token = "off" <=> ~Guard(s).token
    /\ s.check.token \in {"asked", "nonempty"} => Len(s.q.token) = 1 /\ s.q.token[1] # ""
    /\ s.check.token = "ok" => TokenSays(s, TRUE)
    /\ s.check.token \notin {"off", "asked", "nonempty", "ok"} => TokenSays(s, FALSE)
    /\ s.check.ip = "off" <=> ~Guard(s).ip
    /\ s.check.ip \in {"asked", "nonempty"} => ResolvedIP(s) # NoIP
    /\ s.check.ip = "ok" => IPSays(s, TRUE)
    /\ s.check.ip \notin {"off", "asked", "nonempty", "ok"} => IPSays(s, FALSE)

\* GuardJustified of one request.
Judged(s) ==
  LET c == s.check
      g == GuardOf(chain[c.layer].options)
  IN c.layer # 0 =>
       /\ c.verdict = "allowed" =>
            IF g.logic = "all"
            THEN (g.token => TokenSays(s, TRUE)) /\ (g.ip => IPSays(s, TRUE))
            ELSE (g.token /\ TokenSays(s, TRUE)) \/ (g.ip /\ IPSays(s, TRUE))
       /\ c.verdict \notin {"none", "allowed"} =>
            IF g.logic = "all"
            THEN (g.token /\ TokenSays(s, FALSE)) \/ (g.ip /\ IPSays(s, FALSE))
            ELSE (g.token => TokenSays(s, FALSE)) /\ (g.ip => IPSays(s, FALSE))

\* The layer at i allows access to the origin of q.
Allows(i, q) ==
  /\ Kind(i, "cors") /\ Len(q.origin) = 1
  /\ IF chain[i].cfg.origins = AnyValue THEN TRUE
     ELSE IF q.origin[1] = NullOrigin THEN chain[i].cfg.nullAllowed
     ELSE \E p \in chain[i].cfg.origins : \E k \in 1..Len(q.origin[1]) :
            p.base = SubSeq(q.origin[1], 1, k) /\ (p.sub => k < Len(q.origin[1]))

Granted(s) ==
  /\ "Allow-Methods" \in s.headers => s.fate = "none" /\ s.got = 0
  /\ "Allow-Origin" \in s.headers => "Origin" \in s.vary /\ \E i \in DOMAIN chain : Allows(i, s.q)

\* The address stands in parts, is not a trusted proxy's, and only trusted ones and entries the policy
\* passes over stand to its right.
ReachedBy(parts, trusted, policy, ip) ==
  \E k \in DOMAIN parts :
    /\ parts[k] = ip /\ ip \notin trusted
    /\ \A h \in k + 1..Len(parts) :
         \/ parts[h] \in trusted \/ parts[h] = ""
         \/ policy = "skip" /\ parts[h] \notin IPs
         \/ policy = "skipUnknown" /\ parts[h] = "unknown"

\* A header the configuration looks at gives q this address.
Gives(cfg, q, ip) ==
  \E n \in DOMAIN cfg.headers :
    LET parts == q.headers[cfg.headers[n]]
    IN IF cfg.headers[n] # "X-Forwarded-For" THEN parts = <<ip>>
       ELSE ReachedBy(parts, cfg.trusted, cfg.policy, ip)

\* The layer at i gives q this address.
Vouches(i, q, ip) ==
  Kind(i, "realip") /\ q.peer \in chain[i].cfg.trusted /\ Gives(chain[i].cfg, q, ip)

Vouched(s) == s.ip \notin {NoIP, ParseIP(s.q.peer)} => \E i \in DOMAIN chain : Vouches(i, s.q, s.ip)

Proper(s) ==
  /\ Untouched(s) /\ Contexts(s) /\ Told(s) /\ Ending(s) /\ Body(s) /\ Written(s)
  /\ Looks(s) /\ Judged(s) /\ Granted(s) /\ Vouched(s)

Orderly == Shaped /\ \A r \in Served : Proper(req[r])

-----------------------------------------------------------------------------
(* What a request has, whatever happens to it *)

\* A request that is being served is one of the records, and they say what they should.
LEMMA BeingServed ==
  ASSUME Orderly, NEW r \in Requests, req[r].way # "idle"
  PROVE  req[r] \in Serving /\ Proper(req[r])
BY DEF Orderly, Shaped, Served, Idle

\* What is said of a request without its contexts, the clock or the sets stays while the chain does.
LEMMA ChainOnly ==
  ASSUME NEW x, chain' = chain
  PROVE  /\ Untouched(x) => Untouched(x)'
         /\ Ending(x) => Ending(x)'
         /\ Body(x) => Body(x)'
         /\ Written(x) => Written(x)'
         /\ Judged(x) => Judged(x)'
         /\ Granted(x) => Granted(x)'
         /\ Vouched(x) => Vouched(x)'
         /\ now' = now /\ Contexts(x) => Contexts(x)'
         /\ now' = now /\ Told(x) => Told(x)'
         /\ tokens' = tokens /\ ips' = ips /\ Looks(x) => Looks(x)'
<1>1. /\ Untouched(x) => Untouched(x)'
      /\ Ending(x) => Ending(x)'
      /\ Written(x) => Written(x)'
  BY DEF Untouched, Kind, Ending, Written, Sent
<1>2. Body(x) => Body(x)'
  BY DEF Body, UsedUp
<1>3. Judged(x) => Judged(x)'
  BY DEF Judged, TokenSays, IPSays
<1>4. Granted(x) => Granted(x)'
  BY DEF Granted, Allows, Kind
<1>5. Vouched(x) => Vouched(x)'
  <2>1. \A i, q, ip : Vouches(i, q, ip) => Vouches(i, q, ip)'
    BY DEF Vouches, Kind
  <2> QED BY <2>1 DEF Vouched
<1>6. now' = now /\ Contexts(x) => Contexts(x)'
  BY DEF Contexts
<1>7. now' = now /\ Told(x) => Told(x)'
  BY DEF Told, UnwoundBy
<1>8. tokens' = tokens /\ ips' = ips /\ Looks(x) => Looks(x)'
  BY DEF Looks, Guard, TokenSays, IPSays
<1> QED BY <1>1, <1>2, <1>3, <1>4, <1>5, <1>6, <1>7, <1>8

\* A step that leaves all but one request alone keeps the invariant if it keeps it of that one.
LEMMA BecomeKeeps ==
  ASSUME Orderly, NEW r \in Requests, NEW t, t \in Serving, Proper(t), Become(r, t)
  PROVE  Orderly'
<1>1. UNCHANGED <<chain, now, tokens, ips>> /\ req' = [req EXCEPT ![r] = t]
  BY DEF Become
<1>2. Shaped'
  <2>1. Serving' = Serving
    BY <1>1 DEF Serving, Looking, Places, Errs, Deadlines, Limiting, Noticed, Tellings, LayersOf,
                Tellable
  <2>2. req' \in [Requests -> Serving \cup {Idle}]
    BY <1>1 DEF Orderly, Shaped
  <2> QED BY <1>1, <2>1, <2>2 DEF Orderly, Shaped
<1>3. ASSUME NEW x \in Requests, req'[x].way # "idle"
      PROVE  Proper(req'[x])
  <2>1. CASE x = r
    BY <1>1, <2>1 DEF Orderly, Shaped
  <2>2. CASE x # r
    BY <1>1, <1>3, <2>2 DEF Orderly, Shaped, Served
  <2> QED BY <2>1, <2>2
<1>4. ASSUME NEW x, Proper(x)
      PROVE  Proper(x)'
  BY <1>1, <1>4, ChainOnly DEF Proper
<1>5. ASSUME NEW x \in Served'
      PROVE  Proper(req[x])'
  <2>1. x \in Requests /\ req'[x].way # "idle"
    BY <1>5 DEF Served
  <2> QED BY <2>1, <1>3, <1>4
<1> QED BY <1>2, <1>5 DEF Orderly

\* Contexts end only as time and the way back do.
LEMMA ContextsKept ==
  ASSUME NEW s, NEW t, Contexts(s), t.err = s.err, t.deadline = s.deadline,
         \A i \in DOMAIN chain : s.err[i] = "live" /\ i <= s.at => i <= t.at
  PROVE  Contexts(t)
BY DEF Contexts

\* An address is vouched for as long as it stays.
LEMMA VouchedKept ==
  ASSUME NEW s, NEW t, Vouched(s), t.q = s.q, t.ip = s.ip
  PROVE  Vouched(t)
BY DEF Vouched

\* A grant is one as long as the headers stay, and the handler has not been reached.
LEMMA GrantedKept ==
  ASSUME NEW s, NEW t, Granted(s), t.q = s.q,
         t.headers \ {"X-Request-ID", "Connection: close"}
           = s.headers \ {"X-Request-ID", "Connection: close"},
         t.vary = s.vary, (t.got = s.got /\ t.fate = s.fate) \/ "Allow-Methods" \notin s.headers
  PROVE  Granted(t)
<1>1. /\ "Allow-Methods" \in t.headers => "Allow-Methods" \in s.headers
      /\ "Allow-Origin" \in t.headers => "Allow-Origin" \in s.headers
  OBVIOUS
<1> QED BY <1>1 DEF Granted

\* Nothing has been judged when nothing was looked at.
LEMMA NothingJudged ==
  ASSUME NEW t, t.check.layer = 0
  PROVE  Judged(t)
BY DEF Judged

\* A judgement stays what it is as long as what it is about does.
LEMMA JudgedKept ==
  ASSUME NEW s, NEW t, Judged(s), t.q = s.q, t.ip = s.ip, t.check = s.check
  PROVE  Judged(t)
BY DEF Judged, TokenSays, IPSays, ResolvedIP

-----------------------------------------------------------------------------
(* The ways a request goes *)

\* What neither a layer nor a context changes of a request on its way down.
SameSoFar(s, t) ==
  /\ t.q = s.q /\ t.got = s.got /\ t.exceeded = s.exceeded /\ t.told = s.told
  /\ t.wrote = s.wrote /\ t.informed = s.informed /\ t.status = s.status
  /\ t.authors = s.authors /\ t.fate = s.fate /\ t.before = s.before

\* A layer lets a request on to the next: what it has changed of the contexts, the grants and the
\* address remains to be shown.
LEMMA LetOn ==
  ASSUME Shaped, NEW s \in Serving, NEW t \in Serving, Proper(s),
         s.way \in {"down", "guard"}, s.at \in DOMAIN chain, t.way = "down", t.at = s.at + 1,
         SameSoFar(s, t), "Allow-Methods" \notin t.headers,
         \A i \in DOMAIN chain : i > s.at => t.err[i] = "none",
         \A i \in t.limited : i \in s.limited \/ 0 <= chain[i].limit,
         Contexts(t), Judged(t), Granted(t), Vouched(t)
  PROVE  Proper(t)
<1>1. /\ s.at \in Nat /\ s.at > 0 /\ s.at <= Len(chain) /\ DOMAIN chain = 1..Len(chain)
      /\ Len(chain) \in Nat
  BY DEF Shaped
<1>2. /\ s.told = {} /\ s.exceeded = {} /\ s.fate = "none" /\ s.before = 0 /\ s.got = 0
      /\ s.status = 0 /\ s.authors = {} /\ s.wrote = {} /\ ~s.informed
  BY <1>1 DEF Proper, Untouched
<1>3. Untouched(t)
  BY <1>1, <1>2 DEF Untouched, SameSoFar
<1>4. Told(t)
  BY <1>1, <1>2 DEF Told, SameSoFar
<1>5. Ending(t)
  BY DEF Ending
<1>6. Body(t)
  <2>1. \A i \in t.limited : t.got <= chain[i].limit
    <3> SUFFICES ASSUME NEW i \in t.limited PROVE t.got <= chain[i].limit
      OBVIOUS
    <3>1. CASE i \in s.limited
      BY <3>1 DEF Proper, Body, SameSoFar
    <3>2. CASE i \notin s.limited
      BY <3>2, <1>2 DEF SameSoFar
    <3> QED BY <3>1, <3>2
  <2> QED BY <1>2, <2>1 DEF Proper, Body, SameSoFar
<1>7. Written(t)
  BY <1>2 DEF Written, Writers, Sent, SameSoFar
<1>8. Looks(t)
  BY DEF Looks
<1> QED BY <1>3, <1>4, <1>5, <1>6, <1>7, <1>8 DEF Proper

\* A layer answers in place of those inside it.
LEMMA TurnedBack ==
  ASSUME Shaped, NEW s \in Serving, NEW t \in Serving, Proper(s),
         s.way \in {"down", "guard"}, s.at \in DOMAIN chain, t.way = "up", t.at = s.at - 1,
         chain[s.at].mw # "timeout",
         t.q = s.q, t.ip = s.ip, t.got = s.got, t.fate = s.fate, t.exceeded = s.exceeded,
         t.limited = s.limited, t.err = s.err, t.deadline = s.deadline,
         t.told \subseteq {<<s.at, "content-length">>},
         NEW a \in Writers, t.authors = {a},
         Judged(t), Granted(t)
  PROVE  Proper(t)
<1>1. /\ s.at \in Nat /\ s.at > 0 /\ s.at <= Len(chain) /\ DOMAIN chain = 1..Len(chain)
      /\ Len(chain) \in Nat
  BY DEF Shaped
<1>2. /\ s.told = {} /\ s.exceeded = {} /\ s.fate = "none" /\ s.got = 0
      /\ \A i \in DOMAIN chain : i >= s.at => s.err[i] = "none"
  BY <1>1 DEF Proper, Untouched
<1>3. Untouched(t)
  BY DEF Untouched
<1>4. Contexts(t)
  <2>1. \A i \in DOMAIN chain : s.err[i] = "live" /\ i <= s.at => i <= t.at
    BY <1>1, <1>2
  <2> QED BY <2>1, ContextsKept DEF Proper
<1>5. Told(t)
  <2>1. \A i \in DOMAIN chain : i > t.at => t.err[i] = "none"
    BY <1>1, <1>2
  <2> QED BY <2>1 DEF Told
<1>6. Ending(t)
  BY <1>1, <1>2 DEF Ending
<1>7. Body(t)
  <2>1. \A i \in DOMAIN chain : <<i, "read">> \notin t.told
    OBVIOUS
  <2> QED BY <1>2, <2>1 DEF Proper, Body
<1>8. Written(t)
  BY <1>2 DEF Written
<1>9. Looks(t)
  BY DEF Looks
<1>10. Vouched(t)
  BY VouchedKept DEF Proper
<1> QED BY <1>3, <1>4, <1>5, <1>6, <1>7, <1>8, <1>9, <1>10 DEF Proper

\* A request comes back through a layer: what that layer tells of time and of the body remains to be
\* shown.
LEMMA CameBack ==
  ASSUME Shaped, NEW s \in Serving, NEW t \in Serving, Proper(s),
         s.way = "up", s.at \in DOMAIN chain, t.way = "up", t.at = s.at - 1,
         t.q = s.q, t.ip = s.ip, t.got = s.got, t.fate = s.fate, t.before = s.before,
         t.informed = s.informed, t.status = s.status, t.authors = s.authors, t.wrote = s.wrote,
         t.headers = s.headers, t.vary = s.vary, t.check.layer = 0,
         Contexts(t), Told(t), Body(t)
  PROVE  Proper(t)
<1>1. /\ s.at \in Nat /\ s.at > 0 /\ s.at <= Len(chain) /\ DOMAIN chain = 1..Len(chain)
      /\ Len(chain) \in Nat
  BY DEF Shaped
<1>2. Untouched(t) /\ Looks(t)
  BY DEF Untouched, Looks
<1>3. Ending(t)
  BY <1>1 DEF Proper, Ending
<1>4. Written(t)
  BY DEF Proper, Written
<1>5. Judged(t) /\ Granted(t) /\ Vouched(t)
  BY NothingJudged, GrantedKept, VouchedKept DEF Proper
<1> QED BY <1>2, <1>3, <1>4, <1>5 DEF Proper

-----------------------------------------------------------------------------
(* Down the layers *)

LEMMA NoCheckIsLooking ==
  ASSUME Shaped
  PROVE  NoCheck \in Looking
<1>1. 0 \in 0..Len(chain) /\ {} \in SUBSET TokenSnaps /\ {} \in SUBSET IPSnaps
  BY DEF Shaped
<1>2. "off" \in TokenWords /\ "off" \in IPWords /\ "none" \in Verdicts
  BY DEF TokenWords, IPWords, Verdicts
<1> QED BY <1>1, <1>2 DEF NoCheck, Looking

\* One layer further in, and all else as it was.
LEMMA OneDown ==
  ASSUME Shaped, NEW u \in Serving, u.at \in DOMAIN chain
  PROVE  /\ Down(u) \in Serving /\ Down(u).way = "down" /\ Down(u).at = u.at + 1
         /\ Down(u).check = NoCheck /\ SameSoFar(u, Down(u))
         /\ Down(u).ip = u.ip /\ Down(u).limited = u.limited /\ Down(u).err = u.err
         /\ Down(u).deadline = u.deadline /\ Down(u).headers = u.headers /\ Down(u).vary = u.vary
<1>1. u.at + 1 \in Places /\ "down" \in Ways
  BY DEF Shaped, Places, Ways
<1>2. Down(u) \in Serving
  BY <1>1, NoCheckIsLooking DEF Down, Serving
<1>3. /\ Down(u).way = "down" /\ Down(u).at = u.at + 1 /\ Down(u).check = NoCheck
      /\ Down(u).ip = u.ip /\ Down(u).limited = u.limited /\ Down(u).err = u.err
      /\ Down(u).deadline = u.deadline /\ Down(u).headers = u.headers /\ Down(u).vary = u.vary
  BY DEF Down, Serving
<1>4. SameSoFar(u, Down(u))
  BY DEF Down, Serving, SameSoFar
<1> QED BY <1>2, <1>3, <1>4

\* The request a layer works on, before it has done anything.
LEMMA AtLayer ==
  ASSUME Orderly, NEW r \in Requests, NEW mw, At(r, "down", mw)
  PROVE  /\ Shaped /\ req[r] \in Serving /\ Proper(req[r])
         /\ req[r].way = "down" /\ req[r].at \in DOMAIN chain /\ chain[req[r].at].mw = mw
         /\ IsLayer(chain[req[r].at]) /\ IsRequest(req[r].q)
         /\ "Allow-Methods" \notin req[r].headers
         /\ \A i \in DOMAIN chain : i >= req[r].at => req[r].err[i] = "none"
<1>1. /\ req[r].way = "down" /\ req[r].at \in DOMAIN chain /\ chain[req[r].at].mw = mw
  BY DEF At
<1>2. Shaped /\ req[r] \in Serving /\ Proper(req[r])
  BY <1>1, BeingServed DEF Orderly
<1>3. IsLayer(chain[req[r].at]) /\ req[r].q \in Inputs
  BY <1>1, <1>2 DEF Shaped, Serving
<1> QED BY <1>1, <1>2, <1>3, HttpAssumption DEF Proper, Untouched

\* A layer that changes but the address, the id or the grants lets the request on as it should.
LEMMA PassedOn ==
  ASSUME Orderly, NEW r \in Requests, NEW mw, At(r, "down", mw),
         NEW u, u \in Serving, u.at = req[r].at, SameSoFar(req[r], u), u.limited = req[r].limited,
         u.err = req[r].err, u.deadline = req[r].deadline, "Allow-Methods" \notin u.headers,
         Granted(Down(u)), Vouched(Down(u)), Become(r, Down(u))
  PROVE  Orderly'
<1>1. PICK s : s = req[r]
  OBVIOUS
<1>2. /\ Shaped /\ s \in Serving /\ Proper(s) /\ s.way = "down" /\ s.at \in DOMAIN chain
      /\ \A i \in DOMAIN chain : i >= s.at => s.err[i] = "none"
  BY <1>1, AtLayer
<1>3. PICK t : t = Down(u)
  OBVIOUS
<1>4. /\ t \in Serving /\ t.way = "down" /\ t.at = s.at + 1 /\ t.check = NoCheck
      /\ t.limited = s.limited /\ t.err = s.err /\ t.deadline = s.deadline
      /\ t.headers = u.headers /\ SameSoFar(s, t)
  BY <1>1, <1>2, <1>3, OneDown DEF SameSoFar
<1>5. Contexts(t)
  BY <1>2, <1>4, ContextsKept DEF Proper, Shaped
<1>6. Judged(t)
  BY <1>4, NothingJudged DEF NoCheck
<1>7. \A i \in DOMAIN chain : i > s.at => t.err[i] = "none"
  BY <1>2, <1>4 DEF Shaped
<1>8. \A i \in t.limited : i \in s.limited \/ 0 <= chain[i].limit
  BY <1>4
<1>9. "Allow-Methods" \notin t.headers /\ Granted(t) /\ Vouched(t)
  BY <1>3, <1>4
<1>10. Proper(t)
  BY <1>2, <1>4, <1>5, <1>6, <1>7, <1>8, <1>9, LetOn
<1> QED BY <1>3, <1>4, <1>10, BecomeKeeps

\* The id of a request is a valid one of its own or a generated one.
LEMMA IDKnown ==
  ASSUME NEW l, NEW ids, l.incoming \in Seq(STRING)
  PROVE  RequestIDOf(l, ids) \in IDs
<1> DEFINE valid == {n \in DOMAIN l.incoming :
                       Len(ids[l.incoming[n]]) = 1 /\ ids[l.incoming[n]][1] \in ValidIDs \ {""}}
           first == CHOOSE n \in valid : \A m \in valid : n <= m
<1>1. RequestIDOf(l, ids) =
        IF ~l.trust \/ valid = {} THEN "generated" ELSE ids[l.incoming[first]][1]
  BY DEF RequestIDOf
<1>2. ASSUME valid # {} PROVE first \in valid
  <2>1. valid \in SUBSET Nat
    <3>1. DOMAIN l.incoming = 1..Len(l.incoming) /\ Len(l.incoming) \in Nat
      OBVIOUS
    <3>2. valid \subseteq DOMAIN l.incoming
      OBVIOUS
    <3> HIDE DEF valid
    <3>3. \A n \in valid : n \in Nat
      BY <3>1, <3>2
    <3> QED BY <3>3
  <2>2. \E n \in valid : \A m \in valid : n <= m
    <3> HIDE DEF valid
    <3> QED BY <1>2, <2>1, SmallestOf
  <2> QED BY <2>2
<1>3. first \in valid => ids[l.incoming[first]][1] \in ValidIDs
  OBVIOUS
<1> QED BY <1>1, <1>2, <1>3 DEF IDs

LEMMA RequestIDKeeps ==
  ASSUME Orderly, NEW r \in Requests, EnterRequestID(r)
  PROVE  Orderly'
<1>1. PICK s : s = req[r]
  OBVIOUS
<1>2. At(r, "down", "requestid")
  BY DEF EnterRequestID
<1>3. Shaped /\ s \in Serving /\ Proper(s) /\ s.at \in DOMAIN chain /\ "Allow-Methods" \notin s.headers
  BY <1>1, <1>2, AtLayer
<1>4. PICK id \in IDs, set \in SUBSET {"X-Request-ID"} :
        Become(r, Down([s EXCEPT !.id = id, !.headers = @ \cup set]))
  <2>1. PICK l : l = chain[s.at]
    OBVIOUS
  <2>2. l.incoming \in Seq(STRING)
    BY <1>1, <1>2, <1>3, <2>1 DEF At, Shaped, IsLayer
  <2>3. RequestIDOf(l, s.q.ids) \in IDs
    BY <2>2, IDKnown
  <2>4. PICK set \in SUBSET {"X-Request-ID"} : set = (IF l.set THEN {"X-Request-ID"} ELSE {})
    OBVIOUS
  <2>5. Become(r, Down([s EXCEPT !.id = RequestIDOf(l, s.q.ids), !.headers = @ \cup set]))
    BY <1>1, <2>1, <2>4 DEF EnterRequestID
  <2> QED BY <2>3, <2>5
<1>5. PICK u : u = [s EXCEPT !.id = id, !.headers = @ \cup set]
  OBVIOUS
<1>6. u \in Serving
  <2>1. s.headers \cup set \in Names
    BY <1>3 DEF Serving, Names
  <2> QED BY <1>3, <1>5, <2>1 DEF Serving
<1>7. /\ u.at = s.at /\ SameSoFar(s, u) /\ u.limited = s.limited /\ u.err = s.err
      /\ u.deadline = s.deadline /\ u.ip = s.ip /\ u.vary = s.vary
      /\ u.headers = s.headers \cup set
  BY <1>3, <1>5 DEF Serving, SameSoFar
<1>8. "Allow-Methods" \notin u.headers
  BY <1>3, <1>7
<1>9. Granted(Down(u)) /\ Vouched(Down(u))
  <2>1. PICK t : t = Down(u)
    OBVIOUS
  <2>2. t.q = s.q /\ t.ip = s.ip /\ t.vary = s.vary /\ t.headers = s.headers \cup set
    BY <1>3, <1>6, <1>7, <2>1, OneDown DEF SameSoFar
  <2>3. t.headers \ {"X-Request-ID", "Connection: close"} = s.headers \ {"X-Request-ID", "Connection: close"}
    BY <2>2
  <2>4. Granted(t) /\ Vouched(t)
    BY <1>3, <2>2, <2>3, GrantedKept, VouchedKept DEF Proper
  <2> QED BY <2>1, <2>4
<1> QED BY <1>1, <1>2, <1>4, <1>5, <1>6, <1>7, <1>8, <1>9, PassedOn

LEMMA EnterRecoverKeeps ==
  ASSUME Orderly, NEW r \in Requests, EnterRecover(r)
  PROVE  Orderly'
<1>1. PICK s : s = req[r]
  OBVIOUS
<1>2. At(r, "down", "recover") /\ Become(r, Down(s))
  BY <1>1 DEF EnterRecover
<1>3. Shaped /\ s \in Serving /\ Proper(s) /\ s.at \in DOMAIN chain /\ "Allow-Methods" \notin s.headers
  BY <1>1, <1>2, AtLayer
<1>4. SameSoFar(s, s)
  BY DEF SameSoFar
<1>5. Granted(Down(s)) /\ Vouched(Down(s))
  BY <1>3, OneDown, GrantedKept, VouchedKept DEF SameSoFar, Proper
<1> QED BY <1>1, <1>2, <1>3, <1>4, <1>5, PassedOn

-----------------------------------------------------------------------------
(* The address *)

\* A scan that gives an address has passed over entries to its right only.
LEMMA ScanGives ==
  ASSUME NEW Entry, NEW parts \in Seq(Entry), NEW trusted, NEW policy, trusted \subseteq IPs,
         NEW ip, ip = FromXFF(parts, trusted, policy), ip # NoIP
  PROVE  ip \in IPs /\ ReachedBy(parts, trusted, policy, ip)
<1>1. Ends(parts, trusted, policy) # {}
  BY DEF FromXFF
<1>2. Len(parts) \in Nat /\ DOMAIN parts = 1..Len(parts)
  OBVIOUS
<1>3. Ends(parts, trusted, policy) \in SUBSET (1..Len(parts))
  BY <1>2 DEF Ends
<1>4. \E k \in DOMAIN parts : IsScanEnd(k, parts, trusted, policy)
  <2>1. PICK k \in Ends(parts, trusted, policy) : \A j \in Ends(parts, trusted, policy) : j <= k
    BY <1>1, <1>2, <1>3, LargestOf
  <2> QED BY <2>1, <1>2, <1>3 DEF IsScanEnd
<1>5. PICK k \in DOMAIN parts : IsScanEnd(k, parts, trusted, policy)
  BY <1>4
<1>6. ip = ParseIP(parts[k])
  BY <1>5, ScanEndGives
<1>7. parts[k] = ip /\ ip \in IPs
  BY <1>6 DEF ParseIP
<1>8. ip \notin trusted
  BY <1>5, <1>6 DEF IsScanEnd, Ends
<1>9. ASSUME NEW h \in k + 1..Len(parts)
      PROVE  \/ parts[h] \in trusted \/ parts[h] = ""
             \/ policy = "skip" /\ parts[h] \notin IPs
             \/ policy = "skipUnknown" /\ parts[h] = "unknown"
  <2>1. h \in DOMAIN parts /\ ~(h <= k)
    BY <1>2
  <2>2. h \notin Ends(parts, trusted, policy)
    BY <2>1, <1>5 DEF IsScanEnd
  <2>3. SkippedBy(policy, parts[h]) \/ ParseIP(parts[h]) \in trusted
    BY <2>1, <2>2 DEF Ends
  <2> QED BY <2>3, NoIPAssumption DEF SkippedBy, ParseIP
<1> QED BY <1>7, <1>8, <1>9 DEF ReachedBy

\* What extractRealIP returns is an address or none, and one that is not the peer's is given by a
\* header of a peer that is trusted.
LEMMA AddressGiven ==
  ASSUME NEW cfg, NEW q, cfg.trusted \subseteq IPs, cfg.headers \in Seq(STRING),
         \A k \in DOMAIN cfg.headers : q.headers[cfg.headers[k]] \in Seq(STRING \cup IPs),
         NEW ip, ip = ExtractRealIP(cfg, q.peer, q.headers)
  PROVE  /\ ip \in Addresses
         /\ ip \notin {NoIP, ParseIP(q.peer)} => q.peer \in cfg.trusted /\ Gives(cfg, q, ip)
<1> DEFINE from(k) == FromHeader(cfg.headers[k], q.headers, cfg.trusted, cfg.policy)
           given   == {k \in DOMAIN cfg.headers : from(k) # NoIP}
           first   == CHOOSE k \in given : \A j \in given : k <= j
<1>1. ip = IF ParseIP(q.peer) = NoIP THEN NoIP
           ELSE IF q.peer \notin cfg.trusted \/ given = {} THEN q.peer ELSE from(first)
  BY DEF ExtractRealIP
<1>2. CASE ParseIP(q.peer) = NoIP \/ q.peer \notin cfg.trusted \/ given = {}
  BY <1>1, <1>2 DEF ParseIP, Addresses
<1>3. CASE ParseIP(q.peer) # NoIP /\ q.peer \in cfg.trusted /\ given # {}
  <2>1. given \in SUBSET Nat
    <3>1. DOMAIN cfg.headers = 1..Len(cfg.headers) /\ Len(cfg.headers) \in Nat
      OBVIOUS
    <3> QED BY <3>1
  <2>2. \E k \in given : \A j \in given : k <= j
    <3> HIDE DEF given
    <3> QED BY <1>3, <2>1, SmallestOf
  <2>3. first \in given
    BY <2>2
  <2>4. PICK n \in DOMAIN cfg.headers : n = first
    BY <2>3
  <2>5. ip = FromHeader(cfg.headers[n], q.headers, cfg.trusted, cfg.policy) /\ ip # NoIP
    BY <1>1, <1>3, <2>3, <2>4
  <2>6. PICK parts \in Seq(STRING \cup IPs) : parts = q.headers[cfg.headers[n]]
    OBVIOUS
  <2>7. CASE cfg.headers[n] # "X-Forwarded-For"
    <3>1. ip = FromSingle(parts)
      BY <2>5, <2>6, <2>7 DEF FromHeader
    <3>2. Len(parts) = 1 /\ parts[1] = ip /\ ip \in IPs
      BY <2>5, <3>1 DEF FromSingle, ParseIP
    <3>3. parts = <<ip>>
      BY <3>2
    <3> QED BY <1>3, <2>6, <2>7, <3>2, <3>3 DEF Gives, Addresses
  <2>8. CASE cfg.headers[n] = "X-Forwarded-For"
    <3>0. PICK trusted, policy : trusted = cfg.trusted /\ policy = cfg.policy
      OBVIOUS
    <3>1. ip = FromXFF(parts, trusted, policy) /\ trusted \subseteq IPs
      BY <2>5, <2>6, <2>8, <3>0 DEF FromHeader
    <3>2. ip \in IPs /\ ReachedBy(parts, trusted, policy, ip)
      BY <2>5, <3>1, ScanGives
    <3>3. Gives(cfg, q, ip)
      BY <2>6, <2>8, <3>0, <3>2 DEF Gives
    <3> QED BY <1>3, <3>2, <3>3 DEF Addresses
  <2> QED BY <2>7, <2>8
<1> QED BY <1>2, <1>3

LEMMA RealIPKeeps ==
  ASSUME Orderly, NEW r \in Requests, EnterRealIP(r)
  PROVE  Orderly'
<1>1. PICK s : s = req[r]
  OBVIOUS
<1>2. At(r, "down", "realip")
  BY DEF EnterRealIP
<1>3. /\ Shaped /\ s \in Serving /\ Proper(s) /\ s.at \in DOMAIN chain
      /\ chain[s.at].mw = "realip" /\ IsLayer(chain[s.at]) /\ "Allow-Methods" \notin s.headers
  BY <1>1, <1>2, AtLayer
<1>4. PICK ip : ip = ExtractRealIP(chain[s.at].cfg, s.q.peer, s.q.headers)
  OBVIOUS
<1>5. PICK u : u = IF ip = NoIP THEN s ELSE [s EXCEPT !.ip = ip]
  OBVIOUS
<1>6. Become(r, Down(u))
  BY <1>1, <1>4, <1>5 DEF EnterRealIP
<1>7. /\ ip \in Addresses
      /\ ip \notin {NoIP, ParseIP(s.q.peer)} => Vouches(s.at, s.q, ip)
  <2>1. PICK cfg : cfg = chain[s.at].cfg
    OBVIOUS
  <2>2. PICK q \in Inputs : q = s.q
    BY <1>3 DEF Serving
  <2>3. /\ cfg.trusted \subseteq IPs /\ cfg.headers \in Seq(STRING)
        /\ \A k \in DOMAIN cfg.headers : q.headers[cfg.headers[k]] \in Seq(STRING \cup IPs)
    BY <1>3, <2>1 DEF IsLayer
  <2>4. ip = ExtractRealIP(cfg, q.peer, q.headers)
    BY <1>4, <2>1, <2>2
  <2> QED BY <1>3, <2>1, <2>2, <2>3, <2>4, AddressGiven DEF Vouches, Kind
<1>8. u \in Serving
  BY <1>3, <1>5, <1>7 DEF Serving
<1>9. /\ u.at = s.at /\ SameSoFar(s, u) /\ u.limited = s.limited /\ u.err = s.err
      /\ u.deadline = s.deadline /\ u.vary = s.vary /\ u.headers = s.headers
      /\ u.ip = IF ip = NoIP THEN s.ip ELSE ip
  BY <1>3, <1>5 DEF Serving, SameSoFar
<1>10. PICK t : t = Down(u)
  OBVIOUS
<1>11. /\ t.q = s.q /\ t.ip = u.ip /\ t.vary = s.vary /\ t.headers = s.headers
  BY <1>3, <1>8, <1>9, <1>10, OneDown DEF SameSoFar
<1>12. Granted(t)
  BY <1>3, <1>11, GrantedKept DEF Proper
<1>13. Vouched(t)
  BY <1>3, <1>7, <1>9, <1>11 DEF Vouched, Proper
<1> QED BY <1>1, <1>2, <1>3, <1>6, <1>8, <1>9, <1>10, <1>12, <1>13, PassedOn

-----------------------------------------------------------------------------
(* Answers and grants *)

\* One layer further out, and all else as it was.
LEMMA OneUp ==
  ASSUME Shaped, NEW u \in Serving, u.at > 0
  PROVE  /\ Up(u) \in Serving /\ Up(u).way = "up" /\ Up(u).at = u.at - 1
         /\ Up(u).check = NoCheck /\ SameSoFar(u, Up(u))
         /\ Up(u).ip = u.ip /\ Up(u).limited = u.limited /\ Up(u).err = u.err
         /\ Up(u).deadline = u.deadline /\ Up(u).headers = u.headers /\ Up(u).vary = u.vary
<1>1. u.at - 1 \in Places /\ "up" \in Ways
  BY DEF Shaped, Serving, Places, Ways
<1>2. Up(u) \in Serving
  BY <1>1, NoCheckIsLooking DEF Up, Serving
<1>3. /\ Up(u).way = "up" /\ Up(u).at = u.at - 1 /\ Up(u).check = NoCheck
      /\ Up(u).ip = u.ip /\ Up(u).limited = u.limited /\ Up(u).err = u.err
      /\ Up(u).deadline = u.deadline /\ Up(u).headers = u.headers /\ Up(u).vary = u.vary
  BY DEF Up, Serving
<1>4. SameSoFar(u, Up(u))
  BY DEF Up, Serving, SameSoFar
<1> QED BY <1>2, <1>3, <1>4

\* A write is noticed by the Recovers outside, and changes nothing else.
LEMMA MarkedIs ==
  ASSUME Shaped, NEW u \in Serving
  PROVE  /\ Marked(u) \in Serving
         /\ Marked(u).wrote = u.wrote \cup {i \in DOMAIN chain : i < u.at /\ chain[i].mw = "recover"}
         /\ Marked(u).q = u.q /\ Marked(u).at = u.at /\ Marked(u).way = u.way /\ Marked(u).ip = u.ip
         /\ Marked(u).err = u.err /\ Marked(u).deadline = u.deadline
         /\ Marked(u).limited = u.limited /\ Marked(u).exceeded = u.exceeded
         /\ Marked(u).got = u.got /\ Marked(u).told = u.told /\ Marked(u).informed = u.informed
         /\ Marked(u).status = u.status /\ Marked(u).authors = u.authors
         /\ Marked(u).headers = u.headers /\ Marked(u).vary = u.vary /\ Marked(u).check = u.check
         /\ Marked(u).fate = u.fate /\ Marked(u).before = u.before
<1>1. u.wrote \cup {i \in DOMAIN chain : i < u.at /\ chain[i].mw = "recover"} \in Noticed
  BY DEF Serving, Noticed, LayersOf
<1>2. Marked(u) \in Serving
  BY <1>1 DEF Marked, Serving
<1> QED BY <1>2 DEF Marked, Serving

\* An answer has a status, unless it had one, and one more author.
LEMMA AnsweredIs ==
  ASSUME Shaped, NEW u \in Serving, NEW code \in Statuses, NEW a \in Writers
  PROVE  LET t == Answered(u, code, a)
         IN /\ t \in Serving /\ t.wrote = Marked(u).wrote
            /\ t.status = (IF u.status = 0 THEN code ELSE u.status)
            /\ t.authors = u.authors \cup {a}
            /\ t.q = u.q /\ t.at = u.at /\ t.way = u.way /\ t.ip = u.ip
            /\ t.err = u.err /\ t.deadline = u.deadline
            /\ t.limited = u.limited /\ t.exceeded = u.exceeded
            /\ t.got = u.got /\ t.told = u.told /\ t.informed = u.informed
            /\ t.headers = u.headers /\ t.vary = u.vary /\ t.check = u.check
            /\ t.fate = u.fate /\ t.before = u.before
<1>1. PICK m : m = Marked(u)
  OBVIOUS
<1>2. /\ m \in Serving /\ m.status = u.status /\ m.authors = u.authors
      /\ m.q = u.q /\ m.at = u.at /\ m.way = u.way /\ m.ip = u.ip
      /\ m.err = u.err /\ m.deadline = u.deadline /\ m.limited = u.limited
      /\ m.exceeded = u.exceeded /\ m.got = u.got /\ m.told = u.told /\ m.informed = u.informed
      /\ m.headers = u.headers /\ m.vary = u.vary /\ m.check = u.check
      /\ m.fate = u.fate /\ m.before = u.before
  BY <1>1, MarkedIs
<1>3. m.authors \cup {a} \in Authors /\ (IF m.status = 0 THEN code ELSE m.status) \in Statuses
  BY <1>2 DEF Serving, Authors
<1>4. PICK t : t = [m EXCEPT !.status = IF @ = 0 THEN code ELSE @, !.authors = @ \cup {a}]
  OBVIOUS
<1>5. t = Answered(u, code, a)
  BY <1>1, <1>4 DEF Answered
<1>6. t \in Serving
  BY <1>2, <1>3, <1>4 DEF Serving
<1>7. /\ t.wrote = m.wrote
      /\ t.status = (IF m.status = 0 THEN code ELSE m.status) /\ t.authors = m.authors \cup {a}
      /\ t.q = m.q /\ t.at = m.at /\ t.way = m.way /\ t.ip = m.ip
      /\ t.err = m.err /\ t.deadline = m.deadline /\ t.limited = m.limited
      /\ t.exceeded = m.exceeded /\ t.got = m.got /\ t.told = m.told /\ t.informed = m.informed
      /\ t.headers = m.headers /\ t.vary = m.vary /\ t.check = m.check
      /\ t.fate = m.fate /\ t.before = m.before
  BY <1>2, <1>4 DEF Serving
<1> QED BY <1>1, <1>2, <1>5, <1>6, <1>7

\* The headers a grant is made of; a preflight's alone name methods.
LEMMA CorsNames ==
  ASSUME NEW cfg, NEW q, NEW g, g = CorsHeaders(cfg, q)
  PROVE  /\ g.names \in Names /\ g.vary \in Varying /\ "Origin" \in g.vary
         /\ ~IsPreflight(q) => "Allow-Methods" \notin g.names
<1>1. CASE IsPreflight(q)
  <2>1. g.names = {"Allow-Origin"} \cup (IF cfg.credentials THEN {"Allow-Credentials"} ELSE {})
                  \cup {"Allow-Methods"}
                  \cup (IF q.acrh \ {""} # {} THEN {"Allow-Headers"} ELSE {})
                  \cup (IF cfg.maxAge >= 1 THEN {"Max-Age"} ELSE {})
    BY <1>1 DEF CorsHeaders
  <2>2. g.vary = {"Origin", "Request-Method"}
                 \cup (IF q.acrh \ {""} # {} THEN {"Request-Headers"} ELSE {})
    BY <1>1 DEF CorsHeaders
  <2>3. g.names \in Names
    BY <2>1 DEF Names
  <2>4. g.vary \in Varying /\ "Origin" \in g.vary
    BY <2>2 DEF Varying
  <2> QED BY <1>1, <2>3, <2>4
<1>2. CASE ~IsPreflight(q)
  <2>1. g.names = {"Allow-Origin"} \cup (IF cfg.credentials THEN {"Allow-Credentials"} ELSE {})
                  \cup (IF cfg.expose = <<>> THEN {} ELSE {"Expose-Headers"})
    BY <1>2 DEF CorsHeaders
  <2>2. g.vary = {"Origin"}
    BY <1>2 DEF CorsHeaders
  <2>3. g.names \in Names /\ "Allow-Methods" \notin g.names
    BY <2>1 DEF Names
  <2> QED BY <2>2, <2>3 DEF Varying
<1> QED BY <1>1, <1>2

\* A granted origin is one the layer allows: a configured host, or one of its subdomains.
LEMMA OriginAllowed ==
  ASSUME NEW i, Kind(i, "cors"), IsLayer(chain[i]), NEW q, IsRequest(q),
         OriginGranted(chain[i].cfg, q)
  PROVE  Allows(i, q)
<1>1. PICK cfg : cfg = chain[i].cfg
  OBVIOUS
<1>2. PICK host : host = q.origin[1]
  OBVIOUS
<1>3. Len(q.origin) = 1 /\ host # NoOrigin /\ IsOriginAllowed(cfg, host)
  BY <1>1, <1>2 DEF OriginGranted
<1>4. CASE cfg.origins = AnyValue \/ host = NullOrigin
  BY <1>1, <1>2, <1>3, <1>4 DEF Allows, IsOriginAllowed
<1>5. CASE cfg.origins # AnyValue /\ host # NullOrigin
  <2>1. host # NoHost /\ \E p \in cfg.origins : MatchHostnamePattern(host, p)
    BY <1>3, <1>5 DEF IsOriginAllowed
  <2>2. PICK p \in cfg.origins : MatchHostnamePattern(host, p)
    BY <2>1
  <2>3. host \in Seq(STRING)
    BY <1>2, <1>3, <1>5, <2>1 DEF IsRequest
  <2>4. PICK base \in Seq(STRING) : base = p.base
    BY <1>1, <1>5 DEF IsLayer, Kind
  <2>5. host # <<>> /\ base # <<>> /\ IF host = base THEN ~p.sub ELSE IsPrefix(base, host)
    BY <2>2, <2>4 DEF MatchHostnamePattern
  <2>6. Len(host) \in Nat /\ Len(base) \in Nat /\ Len(base) > 0 /\ Len(host) > 0
    BY <2>3, <2>4, <2>5
  <2>7. base = SubSeq(base, 1, Len(base)) /\ host = SubSeq(host, 1, Len(host))
    BY <2>3, <2>4
  <2>8. \E k \in 1..Len(host) : base = SubSeq(host, 1, k) /\ (p.sub => k < Len(host))
    <3>1. CASE host = base
      <4>1. PICK k \in 1..Len(host) : k = Len(host)
        BY <2>6
      <4>2. base = SubSeq(host, 1, k) /\ ~p.sub
        BY <2>5, <2>7, <3>1, <4>1
      <4> QED BY <4>2
    <3>2. CASE host # base
      <4>1. Len(base) <= Len(host) /\ SubSeq(base, 1, Len(base)) = SubSeq(host, 1, Len(base))
        BY <2>5, <3>2 DEF IsPrefix
      <4>2. Len(base) # Len(host)
        BY <2>7, <3>2, <4>1
      <4>3. PICK k \in 1..Len(host) : k = Len(base)
        BY <2>6, <4>1
      <4>4. k < Len(host)
        BY <2>6, <4>1, <4>2, <4>3
      <4>5. base = SubSeq(host, 1, k)
        BY <2>7, <4>1, <4>3, Zenon
      <4> QED BY <4>4, <4>5
    <3> QED BY <3>1, <3>2
  <2> QED BY <1>1, <1>2, <1>3, <1>5, <2>2, <2>4, <2>8 DEF Allows
<1> QED BY <1>4, <1>5

\* What CORS adds to the answer, and nothing else.
LEMMA CorsHeadersAre ==
  ASSUME Shaped, NEW s \in Serving, Granted(s), s.at \in DOMAIN chain, chain[s.at].mw = "cors",
         OriginGranted(chain[s.at].cfg, s.q)
  PROVE  LET u == WithCorsHeaders(s)
         IN /\ u \in Serving /\ SameSoFar(s, u) /\ u.at = s.at /\ u.way = s.way /\ u.ip = s.ip
            /\ u.limited = s.limited /\ u.err = s.err /\ u.deadline = s.deadline
            /\ u.check = s.check
            /\ "Origin" \in u.vary /\ \E i \in DOMAIN chain : Allows(i, u.q)
            /\ (~IsPreflight(s.q) /\ "Allow-Methods" \notin s.headers) => "Allow-Methods" \notin u.headers
<1>1. PICK g : g = CorsHeaders(chain[s.at].cfg, s.q)
  OBVIOUS
<1>2. /\ g.names \in Names /\ g.vary \in Varying /\ "Origin" \in g.vary
      /\ ~IsPreflight(s.q) => "Allow-Methods" \notin g.names
  BY <1>1, CorsNames
<1>3. s.headers \in Names /\ s.vary \in Varying
  BY DEF Serving
<1>4. s.headers \cup g.names \in Names
  BY <1>2, <1>3 DEF Names
<1>5. Vary(s.vary, g.vary) \in Varying /\ "Origin" \in Vary(s.vary, g.vary)
  <2>1. "*" \notin s.vary
    BY <1>3 DEF Varying
  <2>2. Vary(s.vary, g.vary) = s.vary \cup g.vary
    BY <2>1 DEF Vary
  <2> QED BY <1>2, <1>3, <2>2 DEF Varying
<1>6. PICK u : u = [s EXCEPT !.headers = @ \cup g.names, !.vary = Vary(@, g.vary)]
  OBVIOUS
<1>7. u = WithCorsHeaders(s)
  BY <1>1, <1>6 DEF WithCorsHeaders
<1>8. u \in Serving
  BY <1>4, <1>5, <1>6 DEF Serving
<1>9. /\ u.at = s.at /\ u.way = s.way /\ u.ip = s.ip /\ u.limited = s.limited /\ u.err = s.err
      /\ u.deadline = s.deadline /\ u.check = s.check /\ u.headers = s.headers \cup g.names
      /\ u.vary = Vary(s.vary, g.vary) /\ u.q = s.q
  BY <1>6 DEF Serving
<1>10. SameSoFar(s, u)
  BY <1>6 DEF Serving, SameSoFar
<1>11. \E i \in DOMAIN chain : Allows(i, u.q)
  <2>1. IsLayer(chain[s.at]) /\ IsRequest(s.q)
    BY HttpAssumption DEF Shaped, Serving
  <2> QED BY <1>9, <2>1, OriginAllowed DEF Kind
<1> QED BY <1>2, <1>5, <1>7, <1>8, <1>9, <1>10, <1>11

LEMMA CorsKeeps ==
  ASSUME Orderly, NEW r \in Requests, EnterCors(r)
  PROVE  Orderly'
<1>1. PICK s : s = req[r]
  OBVIOUS
<1>2. At(r, "down", "cors")
  BY DEF EnterCors
<1>3. /\ Shaped /\ s \in Serving /\ Proper(s) /\ s.at \in DOMAIN chain
      /\ chain[s.at].mw = "cors" /\ "Allow-Methods" \notin s.headers
  BY <1>1, <1>2, AtLayer
<1>4. CASE ~GrantsAccess(chain[s.at].cfg, s.q)
  <2>1. Become(r, Down(s))
    BY <1>1, <1>4 DEF EnterCors
  <2>2. Granted(Down(s)) /\ Vouched(Down(s))
    BY <1>3, OneDown, GrantedKept, VouchedKept DEF SameSoFar, Proper
  <2> QED BY <1>1, <1>2, <1>3, <2>1, <2>2, PassedOn DEF SameSoFar
<1>5. CASE GrantsAccess(chain[s.at].cfg, s.q)
  <2>1. PICK u : u = WithCorsHeaders(s)
    OBVIOUS
  <2>2. Become(r, Down(u))
    BY <1>1, <1>5, <2>1 DEF EnterCors
  <2>3. OriginGranted(chain[s.at].cfg, s.q) /\ ~IsPreflight(s.q)
    BY <1>5 DEF GrantsAccess
  <2>4. /\ u \in Serving /\ SameSoFar(s, u) /\ u.at = s.at /\ u.ip = s.ip
        /\ u.limited = s.limited /\ u.err = s.err /\ u.deadline = s.deadline
        /\ "Origin" \in u.vary /\ \E i \in DOMAIN chain : Allows(i, u.q)
        /\ "Allow-Methods" \notin u.headers
    BY <1>3, <2>1, <2>3, CorsHeadersAre DEF Proper
  <2>5. PICK t : t = Down(u)
    OBVIOUS
  <2>6. t.headers = u.headers /\ t.vary = u.vary /\ t.q = u.q /\ t.ip = s.ip /\ t.q = s.q
    BY <1>3, <2>4, <2>5, OneDown DEF SameSoFar
  <2>7. Granted(t)
    BY <2>4, <2>6 DEF Granted
  <2>8. Vouched(t)
    BY <1>3, <2>6, VouchedKept DEF Proper
  <2> QED BY <1>1, <1>2, <2>2, <2>4, <2>5, <2>7, <2>8, PassedOn
<1> QED BY <1>4, <1>5

\* A layer that answers sends the request back; what is judged and granted remains to be shown.
LEMMA AnswersBack ==
  ASSUME Shaped, NEW s \in Serving, Proper(s), s.way \in {"down", "guard"},
         s.at \in DOMAIN chain, chain[s.at].mw # "timeout",
         NEW u \in Serving, u.at = s.at, u.q = s.q, u.ip = s.ip, u.got = s.got, u.fate = s.fate,
         u.exceeded = s.exceeded, u.limited = s.limited, u.err = s.err, u.deadline = s.deadline,
         u.told \subseteq {<<s.at, "content-length">>}, u.authors = s.authors,
         NEW code \in Statuses, NEW a \in Writers,
         NEW c \in Looking, NEW t, t = [Up(Answered(u, code, a)) EXCEPT !.check = c],
         Judged(t), Granted(t)
  PROVE  t \in Serving /\ Proper(t)
<1>1. PICK v : v = Answered(u, code, a)
  OBVIOUS
<1>2. /\ v \in Serving /\ v.authors = u.authors \cup {a} /\ v.at = s.at /\ v.q = s.q
      /\ v.ip = s.ip /\ v.got = s.got /\ v.fate = s.fate /\ v.exceeded = s.exceeded
      /\ v.limited = s.limited /\ v.err = s.err /\ v.deadline = s.deadline /\ v.told = u.told
  BY <1>1, AnsweredIs
<1>3. s.at > 0 /\ s.authors = {}
  BY DEF Proper, Untouched, Shaped
<1>4. PICK w : w = Up(v)
  OBVIOUS
<1>5. /\ w \in Serving /\ w.way = "up" /\ w.at = s.at - 1 /\ w.authors = {a} /\ w.q = s.q
      /\ w.ip = s.ip /\ w.got = s.got /\ w.fate = s.fate /\ w.exceeded = s.exceeded
      /\ w.limited = s.limited /\ w.err = s.err /\ w.deadline = s.deadline /\ w.told = u.told
  BY <1>2, <1>3, <1>4, OneUp DEF SameSoFar
<1>6. t = [w EXCEPT !.check = c]
  BY <1>1, <1>4
<1>7. t \in Serving
  BY <1>5, <1>6 DEF Serving
<1>8. /\ t.way = "up" /\ t.at = s.at - 1 /\ t.authors = {a} /\ t.q = s.q
      /\ t.ip = s.ip /\ t.got = s.got /\ t.fate = s.fate /\ t.exceeded = s.exceeded
      /\ t.limited = s.limited /\ t.err = s.err /\ t.deadline = s.deadline /\ t.told = u.told
  BY <1>5, <1>6 DEF Serving
<1> QED BY <1>7, <1>8, TurnedBack

LEMMA PreflightKeeps ==
  ASSUME Orderly, NEW r \in Requests, AnswerPreflight(r)
  PROVE  Orderly'
<1>1. PICK s : s = req[r]
  OBVIOUS
<1>2. At(r, "down", "cors")
  BY DEF AnswerPreflight
<1>3. /\ Shaped /\ s \in Serving /\ Proper(s) /\ s.way = "down" /\ s.at \in DOMAIN chain
      /\ chain[s.at].mw = "cors" /\ s.told = {} /\ s.fate = "none" /\ s.got = 0
  BY <1>1, <1>2, AtLayer DEF Proper, Untouched, Shaped
<1>4. PICK u : u = WithCorsHeaders(s)
  OBVIOUS
<1>5. OriginGranted(chain[s.at].cfg, s.q)
  BY <1>1 DEF AnswerPreflight, AnswersPreflight
<1>6. /\ u \in Serving /\ SameSoFar(s, u) /\ u.at = s.at /\ u.ip = s.ip
      /\ u.limited = s.limited /\ u.err = s.err /\ u.deadline = s.deadline
      /\ "Origin" \in u.vary /\ \E i \in DOMAIN chain : Allows(i, u.q)
  BY <1>3, <1>4, <1>5, CorsHeadersAre DEF Proper
<1>7. 204 \in Statuses /\ "cors" \in Writers
  BY DEF Statuses, Writers
<1>8. PICK w : w = Up(Answered(u, 204, "cors"))
  OBVIOUS
<1>9. /\ w \in Serving /\ w.check = NoCheck /\ w.headers = u.headers /\ w.vary = u.vary
      /\ w.q = u.q /\ w.fate = u.fate /\ w.got = u.got
  <2>1. PICK v : v = Answered(u, 204, "cors")
    OBVIOUS
  <2>2. /\ v \in Serving /\ v.at = u.at /\ v.headers = u.headers /\ v.vary = u.vary /\ v.q = u.q
        /\ v.fate = u.fate /\ v.got = u.got
    BY <1>3, <1>6, <1>7, <2>1, AnsweredIs
  <2>3. v.at > 0
    BY <1>3, <1>6, <2>2 DEF Shaped
  <2> QED BY <1>3, <1>8, <2>1, <2>2, <2>3, OneUp DEF SameSoFar
<1>10. w = [w EXCEPT !.check = NoCheck]
  BY <1>9 DEF Serving
<1>11. Judged(w)
  BY <1>9, NothingJudged DEF NoCheck
<1>12. Granted(w)
  BY <1>3, <1>6, <1>9 DEF Granted, SameSoFar
<1>13. w \in Serving /\ Proper(w)
  <2>1. w = [Up(Answered(u, 204, "cors")) EXCEPT !.check = NoCheck]
    BY <1>8, <1>10
  <2>2. /\ u.q = s.q /\ u.got = s.got /\ u.fate = s.fate /\ u.exceeded = s.exceeded
        /\ u.told \subseteq {<<s.at, "content-length">>} /\ u.authors = s.authors
    BY <1>3, <1>6 DEF SameSoFar
  <2> QED BY <1>3, <1>6, <1>7, <1>11, <1>12, <2>1, <2>2, NoCheckIsLooking, AnswersBack
<1>14. Become(r, w)
  BY <1>1, <1>4, <1>8 DEF AnswerPreflight
<1> QED BY <1>13, <1>14, BecomeKeeps

-----------------------------------------------------------------------------
(* BodyLimit and Timeout, on the way down *)

LEMMA RejectLengthKeeps ==
  ASSUME Orderly, NEW r \in Requests, RejectLength(r)
  PROVE  Orderly'
<1>1. PICK s : s = req[r]
  OBVIOUS
<1>2. At(r, "down", "bodylimit")
  BY DEF RejectLength
<1>3. /\ Shaped /\ s \in Serving /\ Proper(s) /\ s.way = "down" /\ s.at \in DOMAIN chain
      /\ chain[s.at].mw = "bodylimit" /\ s.told = {} /\ s.at > 0
  BY <1>1, <1>2, AtLayer DEF Proper, Untouched, Shaped
<1>4. 413 \in Statuses /\ "bodylimit" \in Writers
  BY DEF Statuses, Writers
<1>5. PICK v : v = Answered(s, 413, "bodylimit")
  OBVIOUS
<1>6. PICK u : u = [v EXCEPT !.told = @ \cup {<<s.at, "content-length">>},
                             !.headers = @ \cup {"Connection: close"}]
  OBVIOUS
<1>7. Become(r, Up(u))
  BY <1>1, <1>5, <1>6 DEF RejectLength
<1>8. /\ v \in Serving /\ v.authors = s.authors \cup {"bodylimit"} /\ v.at = s.at /\ v.q = s.q
      /\ v.ip = s.ip /\ v.got = s.got /\ v.fate = s.fate /\ v.exceeded = s.exceeded
      /\ v.limited = s.limited /\ v.err = s.err /\ v.deadline = s.deadline /\ v.told = s.told
      /\ v.headers = s.headers /\ v.vary = s.vary
  BY <1>3, <1>4, <1>5, AnsweredIs
<1>9. /\ v.told \cup {<<s.at, "content-length">>} \in Tellings
      /\ v.headers \cup {"Connection: close"} \in Names
  <2>1. v.told \in Tellings /\ v.headers \in Names
    BY <1>8 DEF Serving
  <2>2. <<s.at, "content-length">> \in Tellable
    BY <1>1, <1>2, <1>3 DEF At, Tellable, LayersOf
  <2> QED BY <2>1, <2>2 DEF Tellings, Names
<1>10. u \in Serving
  BY <1>6, <1>8, <1>9 DEF Serving
<1>11. /\ u.authors = v.authors /\ u.at = s.at /\ u.q = s.q
       /\ u.ip = s.ip /\ u.got = s.got /\ u.fate = s.fate /\ u.exceeded = s.exceeded
       /\ u.limited = s.limited /\ u.err = s.err /\ u.deadline = s.deadline
       /\ u.told = {<<s.at, "content-length">>}
       /\ u.headers = s.headers \cup {"Connection: close"} /\ u.vary = s.vary
  BY <1>3, <1>6, <1>8 DEF Serving
<1>12. PICK t : t = Up(u)
  OBVIOUS
<1>13. /\ t \in Serving /\ t.way = "up" /\ t.at = s.at - 1 /\ t.authors = u.authors /\ t.q = s.q
       /\ t.ip = s.ip /\ t.got = s.got /\ t.fate = s.fate /\ t.exceeded = s.exceeded
       /\ t.limited = s.limited /\ t.err = s.err /\ t.deadline = s.deadline /\ t.told = u.told
       /\ t.headers = u.headers /\ t.vary = s.vary /\ t.check = NoCheck
  <2>1. u.at > 0
    BY <1>3, <1>11
  <2>2. /\ t \in Serving /\ t.way = "up" /\ t.at = u.at - 1 /\ t.check = NoCheck
        /\ SameSoFar(u, t) /\ t.ip = u.ip /\ t.limited = u.limited /\ t.err = u.err
        /\ t.deadline = u.deadline /\ t.headers = u.headers /\ t.vary = u.vary
    BY <1>3, <1>10, <1>12, <2>1, OneUp
  <2> QED BY <1>11, <2>2 DEF SameSoFar
<1>14. Judged(t)
  BY <1>13, NothingJudged DEF NoCheck
<1>15. Granted(t)
  <2>1. t.headers \ {"X-Request-ID", "Connection: close"} = s.headers \ {"X-Request-ID", "Connection: close"}
    BY <1>11, <1>13
  <2> QED BY <1>3, <1>13, <2>1, GrantedKept DEF Proper
<1>16. s.authors = {}
  BY <1>3 DEF Proper, Untouched, Shaped
<1>17. Proper(t)
  <2>1. t.authors = {"bodylimit"} /\ t.told \subseteq {<<s.at, "content-length">>}
    BY <1>8, <1>11, <1>13, <1>16
  <2> QED BY <1>3, <1>4, <1>13, <1>14, <1>15, <2>1, TurnedBack
<1> QED BY <1>7, <1>12, <1>13, <1>17, BecomeKeeps

LEMMA EnterBodyLimitKeeps ==
  ASSUME Orderly, NEW r \in Requests, EnterBodyLimit(r)
  PROVE  Orderly'
<1>1. PICK s : s = req[r]
  OBVIOUS
<1>2. At(r, "down", "bodylimit")
  BY DEF EnterBodyLimit
<1>3. /\ Shaped /\ s \in Serving /\ Proper(s) /\ s.way = "down" /\ s.at \in DOMAIN chain
      /\ chain[s.at].mw = "bodylimit" /\ IsLayer(chain[s.at]) /\ "Allow-Methods" \notin s.headers
      /\ \A i \in DOMAIN chain : i >= s.at => s.err[i] = "none"
  BY <1>1, <1>2, AtLayer
<1>4. PICK u : u = IF chain[s.at].limit <= 0 THEN s ELSE [s EXCEPT !.limited = @ \cup {s.at}]
  OBVIOUS
<1>5. Become(r, Down(u))
  BY <1>1, <1>4 DEF EnterBodyLimit
<1>6. s.limited \cup {s.at} \in Limiting
  BY <1>3 DEF Serving, Limiting, LayersOf
<1>7. u \in Serving
  BY <1>3, <1>4, <1>6 DEF Serving
<1>8. /\ u.at = s.at /\ SameSoFar(s, u) /\ u.err = s.err /\ u.deadline = s.deadline
      /\ u.ip = s.ip /\ u.vary = s.vary /\ u.headers = s.headers
      /\ u.limited = IF chain[s.at].limit <= 0 THEN s.limited ELSE s.limited \cup {s.at}
  BY <1>3, <1>4 DEF Serving, SameSoFar
<1>9. chain[s.at].limit \in Int
  BY <1>3 DEF IsLayer
<1>10. \A i \in u.limited : i \in s.limited \/ 0 <= chain[i].limit
  BY <1>8, <1>9
<1>11. PICK t : t = Down(u)
  OBVIOUS
<1>12. /\ t \in Serving /\ t.way = "down" /\ t.at = s.at + 1 /\ t.check = NoCheck
       /\ t.limited = u.limited /\ t.err = s.err /\ t.deadline = s.deadline /\ t.ip = s.ip
       /\ t.vary = s.vary /\ t.headers = s.headers /\ SameSoFar(s, t) /\ t.q = s.q
       /\ t.got = s.got /\ t.fate = s.fate
  BY <1>3, <1>7, <1>8, <1>11, OneDown DEF SameSoFar
<1>13. Contexts(t)
  BY <1>3, <1>12, ContextsKept DEF Proper, Shaped
<1>14. Judged(t)
  BY <1>12, NothingJudged DEF NoCheck
<1>15. Granted(t) /\ Vouched(t)
  BY <1>3, <1>12, GrantedKept, VouchedKept DEF Proper
<1>16. \A i \in DOMAIN chain : i > s.at => t.err[i] = "none"
  BY <1>3, <1>12 DEF Shaped
<1>17. Proper(t)
  BY <1>3, <1>10, <1>12, <1>13, <1>14, <1>15, <1>16, LetOn
<1> QED BY <1>5, <1>11, <1>12, <1>17, BecomeKeeps

\* The error a new context starts with: that of the nearest one around it, or of the request.
LEMMA ContextErrIs ==
  ASSUME Shaped, NEW s \in Serving, Contexts(s), NEW at \in DOMAIN chain,
         \A j \in Derived(s, at) : s.deadline[j] > now
  PROVE  ContextErr(s, at) \in {"live", "canceled"}
<1>1. CASE Derived(s, at) = {}
  BY <1>1 DEF ContextErr
<1>2. CASE Derived(s, at) # {}
  <2>1. Derived(s, at) \in SUBSET (1..Len(chain)) /\ Len(chain) \in Nat /\ DOMAIN chain = 1..Len(chain)
    BY DEF Derived, Shaped
  <2>2. \E j \in Derived(s, at) : \A k \in Derived(s, at) : k <= j
    BY <1>2, <2>1, LargestOf
  <2>3. PICK j \in Derived(s, at) : ContextErr(s, at) = s.err[j]
    BY <1>2, <2>2 DEF ContextErr
  <2>4. j \in DOMAIN chain /\ s.err[j] # "none" /\ s.deadline[j] > now
    BY <2>1, <2>3 DEF Derived
  <2>5. s.err[j] \in {"none", "live", "deadline", "canceled"} /\ s.deadline[j] \in Int /\ now \in Int
    BY <2>4 DEF Serving, Errs, Deadlines, Shaped
  <2>6. s.err[j] # "deadline"
    BY <2>4, <2>5 DEF Contexts
  <2> QED BY <2>3, <2>4, <2>5, <2>6
<1> QED BY <1>1, <1>2

LEMMA EnterTimeoutKeeps ==
  ASSUME Orderly, NEW r \in Requests, EnterTimeout(r)
  PROVE  Orderly'
<1>1. PICK s : s = req[r]
  OBVIOUS
<1>2. At(r, "down", "timeout")
  BY DEF EnterTimeout
<1>3. /\ Shaped /\ s \in Serving /\ Proper(s) /\ s.way = "down" /\ s.at \in DOMAIN chain
      /\ chain[s.at].mw = "timeout" /\ IsLayer(chain[s.at]) /\ "Allow-Methods" \notin s.headers
      /\ \A i \in DOMAIN chain : i >= s.at => s.err[i] = "none"
  BY <1>1, <1>2, AtLayer
<1>4. PICK d \in Int : d = chain[s.at].d
  BY <1>3 DEF IsLayer
<1>5. PICK want : want = now + d
  OBVIOUS
<1>6. SameSoFar(s, s)
  BY DEF SameSoFar
<1>7. CASE d <= 0 \/ ParentTighter(s, want)
  <2>1. Become(r, Down(s))
    BY <1>1, <1>4, <1>5, <1>7 DEF EnterTimeout
  <2>2. Granted(Down(s)) /\ Vouched(Down(s))
    BY <1>3, OneDown, GrantedKept, VouchedKept DEF SameSoFar, Proper
  <2> QED BY <1>1, <1>2, <1>3, <1>6, <2>1, <2>2, PassedOn
<1>8. CASE ~(d <= 0 \/ ParentTighter(s, want))
  <2>1. PICK e : e = ContextErr(s, s.at)
    OBVIOUS
  <2>2. PICK u : u = [s EXCEPT !.err[s.at] = e, !.deadline[s.at] = want]
    OBVIOUS
  <2>3. Become(r, Down(u))
    BY <1>1, <1>4, <1>5, <1>8, <2>1, <2>2 DEF EnterTimeout
  <2>4. /\ now \in Int /\ want \in Int /\ want > now /\ s.at \in Int
        /\ \A i \in DOMAIN chain : i \in Int /\ s.deadline[i] \in Int
        /\ s.err \in [DOMAIN chain -> {"none", "live", "deadline", "canceled"}]
        /\ s.deadline \in [DOMAIN chain -> Int]
    BY <1>3, <1>4, <1>5, <1>8 DEF Shaped, Serving, Errs, Deadlines
  <2>5. \A j \in Derived(s, s.at) : j \in DOMAIN chain /\ s.deadline[j] > want
    <3>1. \A j \in Derived(s, s.at) : j \in DOMAIN chain
      BY <1>3 DEF Derived, Shaped
    <3> QED BY <1>8, <2>4, <3>1 DEF ParentTighter
  <2>6. e \in {"live", "canceled"}
    <3>1. \A j \in Derived(s, s.at) : s.deadline[j] > now
      BY <2>4, <2>5
    <3> QED BY <1>3, <2>1, <3>1, ContextErrIs DEF Proper
  <2>7. [s.err EXCEPT ![s.at] = e] \in Errs /\ [s.deadline EXCEPT ![s.at] = want] \in Deadlines
    BY <2>4, <2>6 DEF Errs, Deadlines
  <2>8. u \in Serving
    BY <1>3, <2>2, <2>7 DEF Serving
  <2>9. /\ u.at = s.at /\ SameSoFar(s, u) /\ u.ip = s.ip /\ u.vary = s.vary
        /\ u.headers = s.headers /\ u.limited = s.limited
        /\ u.err = [s.err EXCEPT ![s.at] = e] /\ u.deadline = [s.deadline EXCEPT ![s.at] = want]
    BY <1>3, <2>2 DEF Serving, SameSoFar
  <2>10. PICK t : t = Down(u)
    OBVIOUS
  <2>11. /\ t \in Serving /\ t.way = "down" /\ t.at = s.at + 1 /\ t.check = NoCheck
         /\ t.limited = s.limited /\ t.err = u.err /\ t.deadline = u.deadline /\ t.ip = s.ip
         /\ t.vary = s.vary /\ t.headers = s.headers /\ SameSoFar(s, t) /\ t.q = s.q
         /\ t.got = s.got /\ t.fate = s.fate
    BY <1>3, <2>8, <2>9, <2>10, OneDown DEF SameSoFar
  <2>12. \A i \in DOMAIN chain : /\ t.err[i] = (IF i = s.at THEN e ELSE s.err[i])
                                 /\ t.deadline[i] = (IF i = s.at THEN want ELSE s.deadline[i])
    BY <2>4, <2>9, <2>11
  <2>13. Contexts(t)
    <3>1. ASSUME NEW i \in DOMAIN chain
          PROVE  /\ t.err[i] # "none" => chain[i].mw = "timeout"
                 /\ t.err[i] = "live" => i <= t.at
                 /\ t.err[i] = "deadline" => t.deadline[i] <= now
      <4>1. CASE i = s.at
        BY <1>3, <2>4, <2>6, <2>11, <2>12, <4>1
      <4>2. CASE i # s.at
        BY <1>3, <2>4, <2>11, <2>12, <4>2 DEF Proper, Contexts
      <4> QED BY <4>1, <4>2
    <3>2. ASSUME NEW i \in DOMAIN chain, NEW j \in DOMAIN chain, i < j,
                 t.err[i] # "none", t.err[j] # "none"
          PROVE  t.deadline[j] < t.deadline[i]
      <4>1. CASE j = s.at
        <5>1. i # s.at /\ s.err[i] # "none" /\ i \in 1..s.at - 1
          BY <1>3, <2>4, <2>12, <3>2, <4>1 DEF Shaped
        <5>2. s.deadline[i] > want
          BY <2>5, <5>1 DEF Derived
        <5> QED BY <2>4, <2>12, <4>1, <5>1, <5>2
      <4>2. CASE j # s.at
        <5>1. s.err[j] # "none" /\ j <= s.at
          BY <1>3, <2>4, <2>12, <4>2, <3>2
        <5>2. i # s.at /\ s.err[i] # "none"
          BY <2>4, <2>12, <3>2, <5>1, <4>2
        <5> QED BY <1>3, <2>12, <3>2, <4>2, <5>1, <5>2 DEF Proper, Contexts
      <4> QED BY <4>1, <4>2
    <3> QED BY <3>1, <3>2 DEF Contexts
  <2>14. Judged(t)
    BY <2>11, NothingJudged DEF NoCheck
  <2>15. Granted(t) /\ Vouched(t)
    BY <1>3, <2>11, GrantedKept, VouchedKept DEF Proper
  <2>16. \A i \in DOMAIN chain : i > s.at => t.err[i] = "none"
    BY <1>3, <2>4, <2>12
  <2>17. Proper(t)
    BY <1>3, <2>11, <2>13, <2>14, <2>15, <2>16, LetOn
  <2> QED BY <2>3, <2>10, <2>11, <2>17, BecomeKeeps
<1> QED BY <1>7, <1>8

-----------------------------------------------------------------------------
(* AccessGuard *)

\* A guard that looks changes what it has found out, and nothing else.
LEMMA LooksOn ==
  ASSUME Shaped, NEW s \in Serving, NEW t \in Serving, Proper(s),
         s.way \in {"down", "guard"}, Kind(s.at, "guard"), t.way = "guard", t.at = s.at,
         SameSoFar(s, t), t.ip = s.ip, t.limited = s.limited, t.err = s.err,
         t.deadline = s.deadline, t.headers = s.headers, t.vary = s.vary,
         t.check.verdict = "none", Looks(t)
  PROVE  Proper(t)
<1>1. s.at > 0 /\ s.at <= Len(chain)
  BY DEF Kind, Shaped
<1>2. Untouched(t)
  BY <1>1 DEF Proper, Untouched, SameSoFar, Kind
<1>3. Contexts(t)
  BY ContextsKept DEF Proper
<1>4. Told(t)
  BY DEF Proper, Told, UnwoundBy, SameSoFar
<1>5. Ending(t)
  BY DEF Ending
<1>6. Body(t)
  BY DEF Proper, Body, UsedUp, SameSoFar
<1>7. Written(t)
  BY <1>1 DEF Proper, Untouched, Written, SameSoFar
<1>8. Judged(t)
  BY DEF Judged
<1>9. Granted(t) /\ Vouched(t)
  BY GrantedKept, VouchedKept DEF Proper, SameSoFar
<1> QED BY <1>2, <1>3, <1>4, <1>5, <1>6, <1>7, <1>8, <1>9 DEF Proper

\* Another word for the token.
LEMMA TokenWordIs ==
  ASSUME NEW s \in Serving, NEW w \in TokenWords
  PROVE  LET t == [s EXCEPT !.check.token = w] IN
         /\ t \in Serving /\ t.way = s.way /\ t.at = s.at /\ SameSoFar(s, t) /\ t.ip = s.ip
         /\ t.limited = s.limited /\ t.err = s.err /\ t.deadline = s.deadline
         /\ t.headers = s.headers /\ t.vary = s.vary
         /\ t.check.verdict = s.check.verdict /\ t.check.layer = s.check.layer
         /\ t.check.sawTokens = s.check.sawTokens /\ t.check.sawIPs = s.check.sawIPs
         /\ t.check.token = w /\ t.check.ip = s.check.ip
<1>1. s.check \in Looking
  BY DEF Serving
<1>2. PICK c : c = [s.check EXCEPT !.token = w]
  OBVIOUS
<1>3. c \in Looking
  BY <1>1, <1>2 DEF Looking
<1>4. PICK t : t = [s EXCEPT !.check = c]
  OBVIOUS
<1>5. t = [s EXCEPT !.check.token = w]
  BY <1>2, <1>4 DEF Serving
<1>6. t \in Serving /\ t.check = c
  BY <1>3, <1>4 DEF Serving
<1>7. /\ c.verdict = s.check.verdict /\ c.layer = s.check.layer /\ c.ip = s.check.ip
      /\ c.sawTokens = s.check.sawTokens /\ c.sawIPs = s.check.sawIPs /\ c.token = w
  BY <1>1, <1>2 DEF Looking
<1>8. /\ t.way = s.way /\ t.at = s.at /\ SameSoFar(s, t) /\ t.ip = s.ip
      /\ t.limited = s.limited /\ t.err = s.err /\ t.deadline = s.deadline
      /\ t.headers = s.headers /\ t.vary = s.vary
  BY <1>4 DEF Serving, SameSoFar
<1> QED BY <1>5, <1>6, <1>7, <1>8

\* Another word for the address.
LEMMA IPWordIs ==
  ASSUME NEW s \in Serving, NEW w \in IPWords
  PROVE  LET t == [s EXCEPT !.check.ip = w] IN
         /\ t \in Serving /\ t.way = s.way /\ t.at = s.at /\ SameSoFar(s, t) /\ t.ip = s.ip
         /\ t.limited = s.limited /\ t.err = s.err /\ t.deadline = s.deadline
         /\ t.headers = s.headers /\ t.vary = s.vary
         /\ t.check.verdict = s.check.verdict /\ t.check.layer = s.check.layer
         /\ t.check.sawTokens = s.check.sawTokens /\ t.check.sawIPs = s.check.sawIPs
         /\ t.check.ip = w /\ t.check.token = s.check.token
<1>1. s.check \in Looking
  BY DEF Serving
<1>2. PICK c : c = [s.check EXCEPT !.ip = w]
  OBVIOUS
<1>3. c \in Looking
  BY <1>1, <1>2 DEF Looking
<1>4. PICK t : t = [s EXCEPT !.check = c]
  OBVIOUS
<1>5. t = [s EXCEPT !.check.ip = w]
  BY <1>2, <1>4 DEF Serving
<1>6. t \in Serving /\ t.check = c
  BY <1>3, <1>4 DEF Serving
<1>7. /\ c.verdict = s.check.verdict /\ c.layer = s.check.layer /\ c.token = s.check.token
      /\ c.sawTokens = s.check.sawTokens /\ c.sawIPs = s.check.sawIPs /\ c.ip = w
  BY <1>1, <1>2 DEF Looking
<1>8. /\ t.way = s.way /\ t.at = s.at /\ SameSoFar(s, t) /\ t.ip = s.ip
      /\ t.limited = s.limited /\ t.err = s.err /\ t.deadline = s.deadline
      /\ t.headers = s.headers /\ t.vary = s.vary
  BY <1>4 DEF Serving, SameSoFar
<1> QED BY <1>5, <1>6, <1>7, <1>8

\* A request a guard is looking at.
LEMMA AtGuard ==
  ASSUME Orderly, NEW r \in Requests, req[r].way = "guard"
  PROVE  LET s == req[r]
         IN /\ Shaped /\ s \in Serving /\ Proper(s) /\ Kind(s.at, "guard") /\ Looks(s)
            /\ IsLayer(chain[s.at]) /\ IsRequest(s.q) /\ s.check \in Looking
            /\ s.check.layer = s.at /\ s.check.verdict = "none" /\ ~Guard(s).check
            /\ tokens \in s.check.sawTokens /\ ips \in s.check.sawIPs
<1>1. PICK s : s = req[r]
  OBVIOUS
<1>2. Shaped /\ s \in Serving /\ Proper(s) /\ s.way = "guard"
  BY <1>1, BeingServed DEF Orderly
<1>3. Kind(s.at, "guard") /\ Looks(s)
  BY <1>2 DEF Proper, Untouched
<1>4. IsLayer(chain[s.at]) /\ IsRequest(s.q) /\ s.check \in Looking
  BY <1>2, <1>3, HttpAssumption DEF Shaped, Serving, Kind
<1>5. /\ s.check.layer = s.at /\ s.check.verdict = "none" /\ ~Guard(s).check
      /\ tokens \in s.check.sawTokens /\ ips \in s.check.sawIPs
  BY <1>2, <1>3 DEF Looks
<1> QED BY <1>1, <1>2, <1>3, <1>4, <1>5

\* A snapshot that was in force while the guard looked says what it found.
LEMMA SnapshotSays ==
  ASSUME Shaped, NEW s, NEW v \in BOOLEAN
  PROVE  /\ (tokens \in s.check.sawTokens /\ Len(s.q.token) = 1 /\ s.q.token[1] # ""
              /\ Holds(tokens, s.q.token[1]) = v) => TokenSays(s, v)
         /\ (ips \in s.check.sawIPs /\ ResolvedIP(s) # NoIP
              /\ Holds(ips, ResolvedIP(s)) = v) => IPSays(s, v)
BY DEF TokenSays, IPSays

LEMMA EmptyHoldsNothing ==
  ASSUME NEW snap, snap \in TokenSnaps \cup IPSnaps, NEW x
  PROVE  Holds(snap, x) \in BOOLEAN /\ (IsEmpty(snap) => Holds(snap, x) = FALSE)
<1>1. EmptySet.all \in BOOLEAN /\ AllowAll.all \in BOOLEAN /\ \A e : Updated(e).all \in BOOLEAN
  BY DEF EmptySet, AllowAll, Updated
<1>2. \/ snap = EmptySet \/ snap = AllowAll
      \/ \E e \in TokenUpdates \cup IPUpdates : snap = Updated(e)
  BY DEF TokenSnaps, IPSnaps
<1>3. snap.all \in BOOLEAN
  BY <1>1, <1>2
<1> QED BY <1>3 DEF Holds, IsEmpty

\* What was found about the token changes with the word for it only, and so about the address.
LEMMA SaysKept ==
  ASSUME NEW s, NEW t, t.q = s.q, t.ip = s.ip,
         t.check.sawTokens = s.check.sawTokens, t.check.sawIPs = s.check.sawIPs
  PROVE  /\ \A v \in BOOLEAN : TokenSays(t, v) = TokenSays(s, v) /\ IPSays(t, v) = IPSays(s, v)
         /\ ResolvedIP(t) = ResolvedIP(s)
BY DEF TokenSays, IPSays, ResolvedIP

\* A look at the token keeps the invariant if what it found is so.
LEMMA TokenLook ==
  ASSUME Orderly, NEW r \in Requests, req[r].way = "guard", req[r].check.token # "off",
         NEW w \in TokenWords, w # "off", Become(r, [req[r] EXCEPT !.check.token = w]),
         w \in {"asked", "nonempty"} => Len(req[r].q.token) = 1 /\ req[r].q.token[1] # "",
         w = "ok" => TokenSays(req[r], TRUE),
         w \notin {"asked", "nonempty", "ok"} => TokenSays(req[r], FALSE)
  PROVE  Orderly'
<1>1. PICK s : s = req[r]
  OBVIOUS
<1>2. PICK t : t = [s EXCEPT !.check.token = w]
  OBVIOUS
<1>3. Shaped /\ s \in Serving /\ Proper(s) /\ Kind(s.at, "guard") /\ Looks(s) /\ s.way = "guard"
  BY <1>1, AtGuard
<1>4. /\ t \in Serving /\ t.way = s.way /\ t.at = s.at /\ SameSoFar(s, t) /\ t.ip = s.ip
      /\ t.limited = s.limited /\ t.err = s.err /\ t.deadline = s.deadline
      /\ t.headers = s.headers /\ t.vary = s.vary
      /\ t.check.verdict = s.check.verdict /\ t.check.layer = s.check.layer
      /\ t.check.sawTokens = s.check.sawTokens /\ t.check.sawIPs = s.check.sawIPs
      /\ t.check.token = w /\ t.check.ip = s.check.ip
  BY <1>2, <1>3, TokenWordIs
<1>5. t.q = s.q
  BY <1>4 DEF SameSoFar
<1>6. /\ \A v \in BOOLEAN : TokenSays(t, v) = TokenSays(s, v) /\ IPSays(t, v) = IPSays(s, v)
      /\ ResolvedIP(t) = ResolvedIP(s)
  BY <1>4, <1>5, SaysKept
<1>7. Guard(t) = Guard(s)
  BY <1>4 DEF Guard
<1>8. Looks(t)
  <2>1. /\ t.check.layer = t.at /\ t.check.verdict = "none" /\ ~Guard(t).check
        /\ tokens \in t.check.sawTokens /\ ips \in t.check.sawIPs
    BY <1>3, <1>4, <1>7 DEF Looks
  <2>2. /\ t.check.token = "off" <=> ~Guard(t).token
        /\ t.check.token \in {"asked", "nonempty"} => Len(t.q.token) = 1 /\ t.q.token[1] # ""
        /\ t.check.token = "ok" => TokenSays(t, TRUE)
        /\ t.check.token \notin {"off", "asked", "nonempty", "ok"} => TokenSays(t, FALSE)
    BY <1>1, <1>3, <1>4, <1>5, <1>6, <1>7 DEF Looks
  <2>3. /\ t.check.ip = "off" <=> ~Guard(t).ip
        /\ t.check.ip \in {"asked", "nonempty"} => ResolvedIP(t) # NoIP
        /\ t.check.ip = "ok" => IPSays(t, TRUE)
        /\ t.check.ip \notin {"off", "asked", "nonempty", "ok"} => IPSays(t, FALSE)
    BY <1>3, <1>4, <1>6, <1>7 DEF Looks
  <2> QED BY <2>1, <2>2, <2>3 DEF Looks
<1>9. t.check.verdict = "none"
  BY <1>3, <1>4 DEF Looks
<1>10. Proper(t)
  BY <1>3, <1>4, <1>8, <1>9, LooksOn
<1> QED BY <1>1, <1>2, <1>4, <1>10, BecomeKeeps

\* And a look at the address.
LEMMA IPLook ==
  ASSUME Orderly, NEW r \in Requests, req[r].way = "guard", req[r].check.ip # "off",
         NEW w \in IPWords, w # "off", Become(r, [req[r] EXCEPT !.check.ip = w]),
         w \in {"asked", "nonempty"} => ResolvedIP(req[r]) # NoIP,
         w = "ok" => IPSays(req[r], TRUE),
         w \notin {"asked", "nonempty", "ok"} => IPSays(req[r], FALSE)
  PROVE  Orderly'
<1>1. PICK s : s = req[r]
  OBVIOUS
<1>2. PICK t : t = [s EXCEPT !.check.ip = w]
  OBVIOUS
<1>3. Shaped /\ s \in Serving /\ Proper(s) /\ Kind(s.at, "guard") /\ Looks(s) /\ s.way = "guard"
  BY <1>1, AtGuard
<1>4. /\ t \in Serving /\ t.way = s.way /\ t.at = s.at /\ SameSoFar(s, t) /\ t.ip = s.ip
      /\ t.limited = s.limited /\ t.err = s.err /\ t.deadline = s.deadline
      /\ t.headers = s.headers /\ t.vary = s.vary
      /\ t.check.verdict = s.check.verdict /\ t.check.layer = s.check.layer
      /\ t.check.sawTokens = s.check.sawTokens /\ t.check.sawIPs = s.check.sawIPs
      /\ t.check.ip = w /\ t.check.token = s.check.token
  BY <1>2, <1>3, IPWordIs
<1>5. t.q = s.q
  BY <1>4 DEF SameSoFar
<1>6. /\ \A v \in BOOLEAN : TokenSays(t, v) = TokenSays(s, v) /\ IPSays(t, v) = IPSays(s, v)
      /\ ResolvedIP(t) = ResolvedIP(s)
  BY <1>4, <1>5, SaysKept
<1>7. Guard(t) = Guard(s)
  BY <1>4 DEF Guard
<1>8. Looks(t)
  <2>1. /\ t.check.layer = t.at /\ t.check.verdict = "none" /\ ~Guard(t).check
        /\ tokens \in t.check.sawTokens /\ ips \in t.check.sawIPs
    BY <1>3, <1>4, <1>7 DEF Looks
  <2>2. /\ t.check.token = "off" <=> ~Guard(t).token
        /\ t.check.token \in {"asked", "nonempty"} => Len(t.q.token) = 1 /\ t.q.token[1] # ""
        /\ t.check.token = "ok" => TokenSays(t, TRUE)
        /\ t.check.token \notin {"off", "asked", "nonempty", "ok"} => TokenSays(t, FALSE)
    BY <1>3, <1>4, <1>5, <1>6, <1>7 DEF Looks
  <2>3. /\ t.check.ip = "off" <=> ~Guard(t).ip
        /\ t.check.ip \in {"asked", "nonempty"} => ResolvedIP(t) # NoIP
        /\ t.check.ip = "ok" => IPSays(t, TRUE)
        /\ t.check.ip \notin {"off", "asked", "nonempty", "ok"} => IPSays(t, FALSE)
    BY <1>1, <1>3, <1>4, <1>6, <1>7 DEF Looks
  <2> QED BY <2>1, <2>2, <2>3 DEF Looks
<1>9. t.check.verdict = "none"
  BY <1>3, <1>4 DEF Looks
<1>10. Proper(t)
  BY <1>3, <1>4, <1>8, <1>9, LooksOn
<1> QED BY <1>1, <1>2, <1>4, <1>10, BecomeKeeps

LEMMA LooksAtSetsKeep ==
  ASSUME Orderly, NEW r \in Requests,
         LookIfTokensEmpty(r) \/ LookForToken(r) \/ LookIfListEmpty(r) \/ LookForIP(r)
  PROVE  Orderly'
<1>1. PICK s : s = req[r]
  OBVIOUS
<1>2. s.way = "guard"
  BY <1>1 DEF LookIfTokensEmpty, LookForToken, LookIfListEmpty, LookForIP, TokenChecked
<1>3. /\ Shaped /\ Looks(s) /\ tokens \in s.check.sawTokens /\ ips \in s.check.sawIPs
      /\ tokens \in TokenSnaps /\ ips \in IPSnaps
  BY <1>1, <1>2, AtGuard DEF Shaped
<1>4. /\ {"token-set-empty", "nonempty", "ok", "token-not-allowed"} \subseteq TokenWords
      /\ {"ip-allowlist-empty", "nonempty", "ok", "ip-not-allowed"} \subseteq IPWords
  BY DEF TokenWords, IPWords
<1>5. CASE LookIfTokensEmpty(r)
  <2>1. /\ s.check.token = "asked" /\ Len(s.q.token) = 1 /\ s.q.token[1] # ""
    BY <1>1, <1>2, <1>3, <1>5 DEF LookIfTokensEmpty, Looks
  <2>2. PICK w : w = IF IsEmpty(tokens) THEN "token-set-empty" ELSE "nonempty"
    OBVIOUS
  <2>3. Become(r, [s EXCEPT !.check.token = w])
    BY <1>1, <1>5, <2>2 DEF LookIfTokensEmpty
  <2>4. w = "token-set-empty" => TokenSays(s, FALSE)
    <3>1. w = "token-set-empty" => Holds(tokens, s.q.token[1]) = FALSE
      BY <1>3, <2>2, EmptyHoldsNothing
    <3> QED BY <1>3, <2>1, <3>1, SnapshotSays
  <2>5. w \in TokenWords /\ w \in {"token-set-empty", "nonempty"}
    BY <1>4, <2>2
  <2> QED BY <1>1, <1>2, <2>1, <2>3, <2>4, <2>5, TokenLook
<1>6. CASE LookForToken(r)
  <2>1. /\ s.check.token = "nonempty" /\ Len(s.q.token) = 1 /\ s.q.token[1] # ""
    BY <1>1, <1>2, <1>3, <1>6 DEF LookForToken, Looks
  <2>2. PICK w : w = IF Holds(tokens, s.q.token[1]) THEN "ok" ELSE "token-not-allowed"
    OBVIOUS
  <2>3. Become(r, [s EXCEPT !.check.token = w])
    BY <1>1, <1>6, <2>2 DEF LookForToken
  <2>4. /\ w = "ok" => TokenSays(s, TRUE)
        /\ w = "token-not-allowed" => TokenSays(s, FALSE)
    <3>1. Holds(tokens, s.q.token[1]) \in BOOLEAN
      BY <1>3, EmptyHoldsNothing
    <3>2. /\ w = "ok" => Holds(tokens, s.q.token[1]) = TRUE
          /\ w = "token-not-allowed" => Holds(tokens, s.q.token[1]) = FALSE
      BY <2>2, <3>1
    <3> QED BY <1>3, <2>1, <3>2, SnapshotSays
  <2>5. w \in TokenWords /\ w \in {"ok", "token-not-allowed"}
    BY <1>4, <2>2
  <2> QED BY <1>1, <1>2, <2>1, <2>3, <2>4, <2>5, TokenLook
<1>7. CASE LookIfListEmpty(r)
  <2>1. s.check.ip = "asked" /\ ResolvedIP(s) # NoIP
    BY <1>1, <1>2, <1>3, <1>7 DEF LookIfListEmpty, Looks
  <2>2. PICK w : w = IF IsEmpty(ips) THEN "ip-allowlist-empty" ELSE "nonempty"
    OBVIOUS
  <2>3. Become(r, [s EXCEPT !.check.ip = w])
    BY <1>1, <1>7, <2>2 DEF LookIfListEmpty
  <2>4. w = "ip-allowlist-empty" => IPSays(s, FALSE)
    <3>1. w = "ip-allowlist-empty" => Holds(ips, ResolvedIP(s)) = FALSE
      BY <1>3, <2>2, EmptyHoldsNothing
    <3> QED BY <1>3, <2>1, <3>1, SnapshotSays
  <2>5. w \in IPWords /\ w \in {"ip-allowlist-empty", "nonempty"}
    BY <1>4, <2>2
  <2> QED BY <1>1, <1>2, <2>1, <2>3, <2>4, <2>5, IPLook
<1>8. CASE LookForIP(r)
  <2>1. s.check.ip = "nonempty" /\ ResolvedIP(s) # NoIP
    BY <1>1, <1>2, <1>3, <1>8 DEF LookForIP, Looks
  <2>2. PICK w : w = IF Holds(ips, ResolvedIP(s)) THEN "ok" ELSE "ip-not-allowed"
    OBVIOUS
  <2>3. Become(r, [s EXCEPT !.check.ip = w])
    BY <1>1, <1>8, <2>2 DEF LookForIP
  <2>4. /\ w = "ok" => IPSays(s, TRUE)
        /\ w = "ip-not-allowed" => IPSays(s, FALSE)
    <3>1. Holds(ips, ResolvedIP(s)) \in BOOLEAN
      BY <1>3, EmptyHoldsNothing
    <3>2. /\ w = "ok" => Holds(ips, ResolvedIP(s)) = TRUE
          /\ w = "ip-not-allowed" => Holds(ips, ResolvedIP(s)) = FALSE
      BY <2>2, <3>1
    <3> QED BY <1>3, <2>1, <3>2, SnapshotSays
  <2>5. w \in IPWords /\ w \in {"ok", "ip-not-allowed"}
    BY <1>4, <2>2
  <2> QED BY <1>1, <1>2, <2>1, <2>3, <2>4, <2>5, IPLook
<1> QED BY <1>5, <1>6, <1>7, <1>8

\* What is wrong with a token header, if anything is.
LEMMA HeaderWhy ==
  ASSUME NEW values \in Seq(STRING)
  PROVE  /\ TokenHeaderWhy(values) \in {"ok", "token-missing", "token-ambiguous", "token-empty"}
         /\ TokenHeaderWhy(values) = "ok" <=> Len(values) = 1 /\ values[1] # ""
<1>1. \A n \in Nat : \/ n = 0 /\ n # 1 /\ ~(n > 1)
                     \/ n = 1 /\ n # 0 /\ ~(n > 1)
                     \/ n > 1 /\ n # 0 /\ n # 1
  OBVIOUS
<1>2. Len(values) \in Nat
  OBVIOUS
<1>3. CASE Len(values) = 0 /\ Len(values) # 1 /\ ~(Len(values) > 1)
  <2>1. TokenHeaderWhy(values) = "token-missing"
    BY <1>3, Zenon DEF TokenHeaderWhy
  <2> QED BY <1>3, <2>1
<1>4. CASE Len(values) = 1 /\ Len(values) # 0 /\ ~(Len(values) > 1)
  <2>1. TokenHeaderWhy(values) = IF values[1] = "" THEN "token-empty" ELSE "ok"
    BY <1>4, Zenon DEF TokenHeaderWhy
  <2>2. Len(values) = 1
    BY <1>4, Zenon
  <2> QED BY <2>1, <2>2
<1>5. CASE Len(values) > 1 /\ Len(values) # 0 /\ Len(values) # 1
  <2>1. TokenHeaderWhy(values) = "token-ambiguous"
    BY <1>5, Zenon DEF TokenHeaderWhy
  <2>2. Len(values) # 1
    BY <1>5, Zenon
  <2> QED BY <2>1, <2>2
<1> QED BY <1>1, <1>2, <1>3, <1>4, <1>5, Zenon

LEMMA GuardBeginsKeeps ==
  ASSUME Orderly, NEW r \in Requests, GuardBegins(r)
  PROVE  Orderly'
<1>1. PICK s : s = req[r]
  OBVIOUS
<1>2. At(r, "down", "guard") /\ ~Guard(s).check
  BY <1>1 DEF GuardBegins
<1>3. /\ Shaped /\ s \in Serving /\ Proper(s) /\ s.way = "down" /\ s.at \in DOMAIN chain
      /\ chain[s.at].mw = "guard" /\ IsRequest(s.q)
  BY <1>1, <1>2, AtLayer
<1>4. PICK why : why = TokenHeaderWhy(s.q.token)
  OBVIOUS
<1>5. /\ why \in {"ok", "token-missing", "token-ambiguous", "token-empty"}
      /\ why = "ok" <=> Len(s.q.token) = 1 /\ s.q.token[1] # ""
  <2>1. s.q.token \in Seq(STRING)
    BY <1>3 DEF IsRequest
  <2> QED BY <1>4, <2>1, HeaderWhy
<1>6. PICK token : token = IF ~Guard(s).token THEN "off" ELSE IF why = "ok" THEN "asked" ELSE why
  OBVIOUS
<1>7. PICK ip : ip = IF ~Guard(s).ip THEN "off"
                     ELSE IF ResolvedIP(s) = NoIP THEN "ip-parse-failed" ELSE "asked"
  OBVIOUS
<1>8. PICK c : c = [layer |-> s.at, token |-> token, ip |-> ip, verdict |-> "none",
                    sawTokens |-> {tokens}, sawIPs |-> {ips}]
  OBVIOUS
<1>9. PICK t : t = [s EXCEPT !.way = "guard", !.check = c]
  OBVIOUS
<1>10. Become(r, t)
  BY <1>1, <1>4, <1>6, <1>7, <1>8, <1>9 DEF GuardBegins
<1>11. c \in Looking
  <2>1. token \in TokenWords
    BY <1>5, <1>6 DEF TokenWords
  <2>2. ip \in IPWords /\ "none" \in Verdicts
    BY <1>7 DEF IPWords, Verdicts
  <2>3. s.at \in 0..Len(chain) /\ {tokens} \in SUBSET TokenSnaps /\ {ips} \in SUBSET IPSnaps
    BY <1>3 DEF Shaped
  <2> QED BY <1>8, <2>1, <2>2, <2>3 DEF Looking
<1>12. "guard" \in Ways
  BY DEF Ways
<1>13. t \in Serving
  BY <1>3, <1>9, <1>11, <1>12 DEF Serving
<1>14. /\ t.way = "guard" /\ t.at = s.at /\ SameSoFar(s, t) /\ t.ip = s.ip /\ t.q = s.q
       /\ t.limited = s.limited /\ t.err = s.err /\ t.deadline = s.deadline
       /\ t.headers = s.headers /\ t.vary = s.vary /\ t.check = c
  BY <1>3, <1>9 DEF Serving, SameSoFar
<1>15. /\ c.layer = s.at /\ c.token = token /\ c.ip = ip /\ c.verdict = "none"
       /\ c.sawTokens = {tokens} /\ c.sawIPs = {ips}
  BY <1>8
<1>16. Guard(t) = Guard(s) /\ ResolvedIP(t) = ResolvedIP(s)
  BY <1>14 DEF Guard, ResolvedIP
<1>17. Looks(t)
  <2>1. /\ t.check.layer = t.at /\ t.check.verdict = "none" /\ ~Guard(t).check
        /\ tokens \in t.check.sawTokens /\ ips \in t.check.sawIPs
    BY <1>2, <1>14, <1>15, <1>16
  <2>2. /\ t.check.token = "off" <=> ~Guard(t).token
        /\ t.check.token \in {"asked", "nonempty"} => Len(t.q.token) = 1 /\ t.q.token[1] # ""
        /\ t.check.token # "ok"
        /\ t.check.token \notin {"off", "asked", "nonempty", "ok"} =>
             ~(Len(t.q.token) = 1 /\ t.q.token[1] # "")
    BY <1>5, <1>6, <1>14, <1>15, <1>16
  <2>3. /\ t.check.ip = "off" <=> ~Guard(t).ip
        /\ t.check.ip \in {"asked", "nonempty"} => ResolvedIP(t) # NoIP
        /\ t.check.ip # "ok"
        /\ t.check.ip \notin {"off", "asked", "nonempty", "ok"} => ResolvedIP(t) = NoIP
    BY <1>7, <1>14, <1>15, <1>16
  <2>4. t.check.token \notin {"off", "asked", "nonempty", "ok"} => TokenSays(t, FALSE)
    BY <2>2 DEF TokenSays
  <2>5. t.check.ip \notin {"off", "asked", "nonempty", "ok"} => IPSays(t, FALSE)
    BY <2>3 DEF IPSays
  <2> QED BY <2>1, <2>2, <2>3, <2>4, <2>5 DEF Looks
<1>18. Proper(t)
  BY <1>3, <1>13, <1>14, <1>15, <1>17, LooksOn DEF Kind
<1> QED BY <1>10, <1>13, <1>18, BecomeKeeps

\* A guard that is done is enabled for something, and what was found decides as Judged says.
LEMMA Decided ==
  ASSUME Shaped, NEW s \in Serving, Proper(s), s.way = "guard", Kind(s.at, "guard"),
         IsLayer(chain[s.at]),
         s.check.token \notin {"asked", "nonempty"}, s.check.ip \notin {"asked", "nonempty"},
         NEW t, t.q = s.q, t.ip = s.ip, t.check = [s.check EXCEPT !.verdict = t.check.verdict],
         \/ Combine(Guard(s).logic, s.check.token, s.check.ip) /\ t.check.verdict = "allowed"
         \/ /\ ~Combine(Guard(s).logic, s.check.token, s.check.ip)
            /\ t.check.verdict \notin {"none", "allowed"}
  PROVE  Judged(t)
<1>1. s.check \in Looking /\ Looks(s)
  BY DEF Serving, Proper
<1>2. /\ t.check.layer = s.at /\ t.check.sawTokens = s.check.sawTokens
      /\ t.check.sawIPs = s.check.sawIPs
  BY <1>1 DEF Looking, Looks
<1>3. /\ \A v \in BOOLEAN : TokenSays(t, v) = TokenSays(s, v) /\ IPSays(t, v) = IPSays(s, v)
  BY <1>2, SaysKept
<1>4. PICK g : g = Guard(s)
  OBVIOUS
<1>5. GuardOf(chain[t.check.layer].options) = g
  BY <1>2, <1>4 DEF Guard
<1>6. (g.token \/ g.ip) /\ g.logic \in {"all", "any"}
  BY <1>1, <1>4 DEF Kind, IsLayer, Guard, GuardRefused, Looks
<1>7. PICK tw, iw : tw = s.check.token /\ iw = s.check.ip
  OBVIOUS
<1>8. /\ tw = "off" <=> ~g.token
      /\ iw = "off" <=> ~g.ip
      /\ tw = "ok" => TokenSays(t, TRUE)
      /\ tw \notin {"off", "ok"} => TokenSays(t, FALSE)
      /\ iw = "ok" => IPSays(t, TRUE)
      /\ iw \notin {"off", "ok"} => IPSays(t, FALSE)
  BY <1>1, <1>3, <1>4, <1>7 DEF Looks
<1>9. CASE Combine(g.logic, tw, iw) /\ t.check.verdict = "allowed"
  <2>1. IF g.logic = "all" THEN (g.token => tw = "ok") /\ (g.ip => iw = "ok")
        ELSE (g.token /\ tw = "ok") \/ (g.ip /\ iw = "ok")
    BY <1>6, <1>8, <1>9 DEF Combine
  <2> QED BY <1>5, <1>8, <1>9, <2>1 DEF Judged
<1>10. CASE ~Combine(g.logic, tw, iw) /\ t.check.verdict \notin {"none", "allowed"}
  <2>1. IF g.logic = "all" THEN (g.token /\ tw # "ok") \/ (g.ip /\ iw # "ok")
        ELSE (g.token => tw # "ok") /\ (g.ip => iw # "ok")
    BY <1>6, <1>8, <1>10 DEF Combine
  <2>2. IF g.logic = "all" THEN (g.token /\ TokenSays(t, FALSE)) \/ (g.ip /\ IPSays(t, FALSE))
        ELSE (g.token => TokenSays(t, FALSE)) /\ (g.ip => IPSays(t, FALSE))
    BY <1>8, <2>1
  <2> QED BY <1>5, <1>10, <2>2 DEF Judged
<1> QED BY <1>4, <1>7, <1>9, <1>10

\* A judgement replaces what was looked at.
LEMMA VerdictIs ==
  ASSUME NEW c \in Looking, NEW v \in Verdicts
  PROVE  LET d == [c EXCEPT !.verdict = v]
         IN /\ d \in Looking /\ d.verdict = v /\ d.layer = c.layer
            /\ d = [c EXCEPT !.verdict = d.verdict]
BY DEF Looking

\* An answer on its way back.
LEMMA AnsweredUp ==
  ASSUME Shaped, NEW u \in Serving, u.at > 0, NEW code \in Statuses, NEW a \in Writers
  PROVE  LET w == Up(Answered(u, code, a))
         IN /\ w \in Serving /\ w.headers = u.headers /\ w.vary = u.vary /\ w.q = u.q
            /\ w.ip = u.ip /\ w.got = u.got /\ w.fate = u.fate
<1>1. PICK v : v = Answered(u, code, a)
  OBVIOUS
<1>2. /\ v \in Serving /\ v.at = u.at /\ v.headers = u.headers /\ v.vary = u.vary
      /\ v.q = u.q /\ v.ip = u.ip /\ v.got = u.got /\ v.fate = u.fate
  BY <1>1, AnsweredIs
<1> QED BY <1>1, <1>2, OneUp DEF SameSoFar

\* The request is denied: what it was denied for remains to be justified.
LEMMA DeniedKeeps ==
  ASSUME Orderly, NEW r \in Requests, req[r].way \in {"down", "guard"}, Kind(req[r].at, "guard"),
         NEW u \in Serving, NEW c \in Looking, u = [req[r] EXCEPT !.check = c], NEW why \in Verdicts,
         Become(r, Denied(u, why)), Judged(Denied(u, why))
  PROVE  Orderly'
<1>1. PICK s : s = req[r]
  OBVIOUS
<1>2. Shaped /\ s \in Serving /\ Proper(s) /\ s.at \in DOMAIN chain /\ chain[s.at].mw = "guard"
  BY <1>1, BeingServed DEF Orderly, Kind
<1>3. /\ u.at = s.at /\ u.q = s.q /\ u.ip = s.ip /\ u.got = s.got /\ u.fate = s.fate
      /\ u.exceeded = s.exceeded /\ u.limited = s.limited /\ u.err = s.err
      /\ u.deadline = s.deadline /\ u.told = s.told /\ u.authors = s.authors
      /\ u.headers = s.headers /\ u.vary = s.vary /\ u.check = c
  BY <1>1, <1>2 DEF Serving
<1>4. PICK code : code = Guard(u).status
  OBVIOUS
<1>5. code \in Statuses /\ "guard" \in Writers
  <2>1. IsLayer(chain[s.at])
    BY <1>2 DEF Shaped
  <2> QED BY <1>2, <1>3, <1>4, <2>1 DEF IsLayer, Guard, Statuses, Writers
<1>6. PICK d : d = [c EXCEPT !.verdict = why]
  OBVIOUS
<1>7. d \in Looking
  BY <1>6, VerdictIs
<1>8. PICK t : t = [Up(Answered(u, code, "guard")) EXCEPT !.check = d]
  OBVIOUS
<1>9. t = Denied(u, why)
  BY <1>3, <1>4, <1>6, <1>8 DEF Denied
<1>10. Granted(t)
  <2>1. PICK w : w = Up(Answered(u, code, "guard"))
    OBVIOUS
  <2>2. u.at > 0
    BY <1>2, <1>3 DEF Shaped
  <2>3. /\ w \in Serving /\ w.headers = u.headers /\ w.vary = u.vary /\ w.q = u.q
        /\ w.got = u.got /\ w.fate = u.fate
    BY <1>2, <1>5, <2>1, <2>2, AnsweredUp
  <2>4. t = [w EXCEPT !.check = d]
    BY <1>8, <2>1
  <2>5. /\ t.headers = w.headers /\ t.vary = w.vary /\ t.q = w.q
        /\ t.got = w.got /\ t.fate = w.fate
    BY <2>3, <2>4 DEF Serving
  <2>6. /\ t.headers = s.headers /\ t.vary = s.vary /\ t.q = s.q
        /\ t.got = s.got /\ t.fate = s.fate
    BY <1>3, <2>3, <2>5
  <2> QED BY <1>2, <2>6, GrantedKept DEF Proper
<1>11. s.told = {}
  BY <1>1, <1>2 DEF Proper, Untouched
<1>12. u.told \subseteq {<<s.at, "content-length">>}
  BY <1>3, <1>11
<1>13. chain[s.at].mw # "timeout" /\ s.way \in {"down", "guard"} /\ Judged(t)
  BY <1>1, <1>2, <1>9
<1>14. t \in Serving /\ Proper(t)
  BY <1>2, <1>3, <1>5, <1>7, <1>8, <1>10, <1>12, <1>13, AnswersBack
<1> QED BY <1>9, <1>14, BecomeKeeps

\* Denied is judged by what the request was looked at for, as it was.
LEMMA DeniedIs ==
  ASSUME Shaped, NEW u \in Serving, u.at > 0, Kind(u.at, "guard"), IsLayer(chain[u.at]),
         NEW why \in Verdicts
  PROVE  LET t == Denied(u, why)
         IN t.q = u.q /\ t.ip = u.ip /\ t.check = [u.check EXCEPT !.verdict = why]
<1>1. Guard(u).status \in Statuses /\ "guard" \in Writers
  BY DEF Kind, IsLayer, Guard, Statuses, Writers
<1>2. PICK w : w = Up(Answered(u, Guard(u).status, "guard"))
  OBVIOUS
<1>3. w \in Serving /\ w.q = u.q /\ w.ip = u.ip
  BY <1>1, <1>2, AnsweredUp
<1>4. PICK d : d = [u.check EXCEPT !.verdict = why]
  OBVIOUS
<1>5. Denied(u, why) = [w EXCEPT !.check = d]
  BY <1>2, <1>4 DEF Denied
<1> QED BY <1>3, <1>4, <1>5 DEF Serving

LEMMA GuardDecidesKeeps ==
  ASSUME Orderly, NEW r \in Requests, GuardDecides(r)
  PROVE  Orderly'
<1>1. PICK s : s = req[r]
  OBVIOUS
<1>2. /\ s.way = "guard" /\ s.check.token \notin {"asked", "nonempty"}
      /\ s.check.ip \notin {"asked", "nonempty"}
  BY <1>1 DEF GuardDecides, TokenChecked
<1>3. /\ Shaped /\ s \in Serving /\ Proper(s) /\ Kind(s.at, "guard") /\ IsLayer(chain[s.at])
      /\ s.check \in Looking
  BY <1>1, <1>2, AtGuard
<1>4. s.at \in DOMAIN chain /\ s.at > 0
  BY <1>3 DEF Kind, Shaped
<1>5. CASE Combine(Guard(s).logic, s.check.token, s.check.ip)
  <2>1. PICK c : c = [s.check EXCEPT !.verdict = "allowed"]
    OBVIOUS
  <2>2. "allowed" \in Verdicts
    BY DEF Verdicts
  <2>3. c \in Looking /\ c.verdict = "allowed" /\ c = [s.check EXCEPT !.verdict = c.verdict]
    BY <1>3, <2>1, <2>2, VerdictIs
  <2>4. PICK w : w = Down(s)
    OBVIOUS
  <2>5. /\ w \in Serving /\ w.way = "down" /\ w.at = s.at + 1
        /\ w.limited = s.limited /\ w.err = s.err /\ w.deadline = s.deadline /\ w.ip = s.ip
        /\ w.vary = s.vary /\ w.headers = s.headers /\ SameSoFar(s, w)
    BY <1>3, <1>4, <2>4, OneDown
  <2>6. PICK t : t = [w EXCEPT !.check = c]
    OBVIOUS
  <2>7. Become(r, t)
    BY <1>1, <1>5, <2>1, <2>4, <2>6 DEF GuardDecides
  <2>8. t \in Serving
    BY <2>3, <2>5, <2>6 DEF Serving
  <2>9. /\ t.way = "down" /\ t.at = s.at + 1 /\ t.check = c
        /\ t.limited = s.limited /\ t.err = s.err /\ t.deadline = s.deadline /\ t.ip = s.ip
        /\ t.vary = s.vary /\ t.headers = s.headers
    BY <2>5, <2>6 DEF Serving
  <2>10. SameSoFar(s, t)
    BY <2>5, <2>6 DEF Serving, SameSoFar
  <2>11. t.q = s.q /\ t.got = s.got /\ t.fate = s.fate
    BY <2>10 DEF SameSoFar
  <2>12. Judged(t)
    BY <1>2, <1>3, <1>5, <2>3, <2>9, <2>11, Decided
  <2>13. Contexts(t)
    BY <1>3, <1>4, <2>9, ContextsKept DEF Proper, Shaped
  <2>14. Granted(t) /\ Vouched(t)
    BY <1>3, <2>9, <2>11, GrantedKept, VouchedKept DEF Proper
  <2>15. /\ "Allow-Methods" \notin t.headers
         /\ \A i \in DOMAIN chain : i > s.at => t.err[i] = "none"
    BY <1>2, <1>3, <1>4, <2>9 DEF Proper, Untouched, Shaped
  <2>16. Proper(t)
    BY <1>2, <1>3, <1>4, <2>8, <2>9, <2>10, <2>12, <2>13, <2>14, <2>15, LetOn
  <2> QED BY <2>7, <2>8, <2>16, BecomeKeeps
<1>6. CASE ~Combine(Guard(s).logic, s.check.token, s.check.ip)
  <2>1. PICK why : why = DenyReason(s.check.token, s.check.ip)
    OBVIOUS
  <2>2. why \in Verdicts /\ why \notin {"none", "allowed"}
    <3>1. s.check.token \in TokenWords /\ s.check.ip \in IPWords
      BY <1>3 DEF Looking
    <3> QED BY <2>1, <3>1 DEF DenyReason, Verdicts, TokenWords, IPWords
  <2>3. PICK t : t = Denied(s, why)
    OBVIOUS
  <2>4. Become(r, t)
    BY <1>1, <1>6, <2>1, <2>3 DEF GuardDecides
  <2>5. t.q = s.q /\ t.ip = s.ip /\ t.check = [s.check EXCEPT !.verdict = why]
    BY <1>3, <1>4, <2>2, <2>3, DeniedIs
  <2>6. t.check.verdict = why /\ t.check = [s.check EXCEPT !.verdict = t.check.verdict]
    BY <1>3, <2>2, <2>5, VerdictIs
  <2>7. Judged(t)
    BY <1>2, <1>3, <1>6, <2>2, <2>5, <2>6, Decided
  <2>8. s = [s EXCEPT !.check = s.check]
    BY <1>3 DEF Serving
  <2> QED BY <1>1, <1>2, <1>3, <2>2, <2>3, <2>4, <2>7, <2>8, DeniedKeeps
<1> QED BY <1>5, <1>6

LEMMA CustomCheckKeeps ==
  ASSUME Orderly, NEW r \in Requests, CustomCheck(r)
  PROVE  Orderly'
<1>1. PICK s : s = req[r]
  OBVIOUS
<1>2. At(r, "down", "guard")
  BY DEF CustomCheck
<1>3. /\ Shaped /\ s \in Serving /\ Proper(s) /\ s.way = "down" /\ s.at \in DOMAIN chain
      /\ chain[s.at].mw = "guard" /\ IsLayer(chain[s.at]) /\ "Allow-Methods" \notin s.headers
  BY <1>1, <1>2, AtLayer
<1>4. CASE Become(r, Down(s))
  <2>1. Granted(Down(s)) /\ Vouched(Down(s))
    BY <1>3, OneDown, GrantedKept, VouchedKept DEF SameSoFar, Proper
  <2> QED BY <1>1, <1>2, <1>3, <1>4, <2>1, PassedOn DEF SameSoFar
<1>5. CASE Become(r, Denied([s EXCEPT !.check = NoCheck], "custom-check-denied"))
  <2>1. PICK u : u = [s EXCEPT !.check = NoCheck]
    OBVIOUS
  <2>2. NoCheck \in Looking /\ "custom-check-denied" \in Verdicts
    BY <1>3, NoCheckIsLooking DEF Verdicts
  <2>3. u \in Serving /\ u.at = s.at /\ u.check = NoCheck
    BY <1>3, <2>1, <2>2 DEF Serving
  <2>4. PICK t : t = Denied(u, "custom-check-denied")
    OBVIOUS
  <2>5. Kind(s.at, "guard") /\ s.at > 0
    BY <1>3 DEF Kind, Shaped
  <2>6. t.check = [NoCheck EXCEPT !.verdict = "custom-check-denied"]
    BY <1>3, <2>2, <2>3, <2>4, <2>5, DeniedIs
  <2>7. t.check.layer = 0
    BY <2>6 DEF NoCheck
  <2>8. Judged(t)
    BY <2>7, NothingJudged
  <2> QED BY <1>1, <1>3, <1>5, <2>1, <2>2, <2>3, <2>4, <2>5, <2>8, DeniedKeeps
<1> QED BY <1>1, <1>4, <1>5 DEF CustomCheck

-----------------------------------------------------------------------------
(* Time *)

\* All of a request but whether the client has left and how its contexts ended.
SameButTime(s, t) ==
  /\ SameSoFar(s, t) /\ t.at = s.at /\ t.way = s.way /\ t.ip = s.ip /\ t.limited = s.limited
  /\ t.deadline = s.deadline /\ t.headers = s.headers /\ t.vary = s.vary /\ t.check = s.check

\* The end of a context changes nothing but what is said of contexts.
LEMMA TimeKeeps ==
  ASSUME NEW s, NEW t, Proper(s), SameButTime(s, t), Contexts(t), Told(t),
         \A i \in DOMAIN chain : s.err[i] = "none" => t.err[i] = "none"
  PROVE  Proper(t)
<1>1. Untouched(t)
  BY DEF Proper, Untouched, SameSoFar, SameButTime
<1>2. Ending(t)
  BY DEF Proper, Ending, SameSoFar, SameButTime
<1>3. Body(t)
  BY DEF Proper, Body, UsedUp, SameSoFar, SameButTime
<1>4. Written(t)
  BY DEF Proper, Written, Sent, SameSoFar, SameButTime
<1>5. Looks(t)
  <2>1. Guard(t) = Guard(s)
    BY DEF Guard, SameButTime
  <2>2. t.q = s.q /\ t.ip = s.ip /\ t.check = s.check /\ t.at = s.at /\ t.way = s.way
    BY DEF SameSoFar, SameButTime
  <2>3. /\ \A v \in BOOLEAN : TokenSays(t, v) = TokenSays(s, v) /\ IPSays(t, v) = IPSays(s, v)
        /\ ResolvedIP(t) = ResolvedIP(s)
    BY <2>2, SaysKept
  <2> QED BY <2>1, <2>2, <2>3 DEF Proper, Looks
<1>6. Judged(t) /\ Granted(t) /\ Vouched(t)
  BY JudgedKept, GrantedKept, VouchedKept DEF Proper, SameSoFar, SameButTime
<1> QED BY <1>1, <1>2, <1>3, <1>4, <1>5, <1>6 DEF Proper

\* Which contexts end with the one of layer i, and how.
LEMMA EndedIs ==
  ASSUME Shaped, NEW s \in Serving, NEW i, NEW why \in {"deadline", "canceled"}
  PROVE  LET t == Ended(s, i, why)
         IN /\ t \in Serving /\ SameButTime(s, t)
            /\ \A j \in DOMAIN chain :
                 t.err[j] = IF j >= i /\ s.err[j] = "live" THEN why ELSE s.err[j]
<1>1. PICK e : e = [j \in DOMAIN chain |-> IF j >= i /\ s.err[j] = "live" THEN why ELSE s.err[j]]
  OBVIOUS
<1>2. e \in Errs
  BY <1>1 DEF Serving, Errs
<1>3. PICK t : t = [s EXCEPT !.err = e]
  OBVIOUS
<1>4. t = Ended(s, i, why)
  BY <1>1, <1>3 DEF Ended
<1>5. t \in Serving /\ t.err = e
  BY <1>2, <1>3 DEF Serving
<1>6. SameButTime(s, t)
  BY <1>3 DEF Serving, SameSoFar, SameButTime
<1> QED BY <1>1, <1>4, <1>5, <1>6

\* A context ends with those inside it: by its deadline only when theirs are over too.
LEMMA EndedContexts ==
  ASSUME Shaped, NEW s \in Serving, Contexts(s), NEW i \in Int, NEW why \in {"deadline", "canceled"},
         why = "deadline" => i \in DOMAIN chain /\ s.err[i] # "none" /\ s.deadline[i] <= now
  PROVE  Contexts(Ended(s, i, why))
<1>1. PICK t : t = Ended(s, i, why)
  OBVIOUS
<1>2. /\ t.at = s.at /\ t.deadline = s.deadline
      /\ \A j \in DOMAIN chain :
           t.err[j] = IF j >= i /\ s.err[j] = "live" THEN why ELSE s.err[j]
  BY <1>1, EndedIs DEF SameButTime
<1>3. \A j \in DOMAIN chain : j \in Int /\ s.deadline[j] \in Int /\ now \in Int
  BY DEF Shaped, Serving, Deadlines
<1>4. ASSUME NEW j \in DOMAIN chain
      PROVE  /\ t.err[j] # "none" => chain[j].mw = "timeout"
             /\ t.err[j] = "live" => j <= t.at
             /\ t.err[j] = "deadline" => t.deadline[j] <= now
  <2>1. /\ t.err[j] # "none" => chain[j].mw = "timeout"
        /\ t.err[j] = "live" => j <= t.at
    BY <1>2 DEF Contexts
  <2>2. ASSUME t.err[j] = "deadline", s.err[j] # "deadline"
        PROVE  s.deadline[j] <= now
    <3>1. why = "deadline" /\ j >= i /\ s.err[j] = "live" /\ i \in DOMAIN chain
      BY <1>2, <2>2
    <3>2. CASE j = i
      BY <3>1, <3>2
    <3>3. CASE j # i
      <4>1. s.deadline[j] < s.deadline[i] /\ s.deadline[i] <= now
        BY <1>3, <3>1, <3>3 DEF Contexts
      <4> QED BY <1>3, <3>1, <4>1
    <3> QED BY <3>2, <3>3
  <2>3. t.err[j] = "deadline" => t.deadline[j] <= now
    BY <1>2, <2>2 DEF Contexts
  <2> QED BY <2>1, <2>3
<1>5. \A j, k \in DOMAIN chain : j < k /\ t.err[j] # "none" /\ t.err[k] # "none"
                                 => t.deadline[k] < t.deadline[j]
  BY <1>2 DEF Contexts
<1> QED BY <1>1, <1>4, <1>5 DEF Contexts

\* A context that ends while the request is inside has not been told of.
LEMMA EndedKeeps ==
  ASSUME Shaped, NEW s \in Serving, Proper(s), NEW i \in Int, NEW why \in {"deadline", "canceled"},
         why = "deadline" => i \in DOMAIN chain /\ s.err[i] # "none" /\ s.deadline[i] <= now
  PROVE  Ended(s, i, why) \in Serving /\ Proper(Ended(s, i, why))
<1>1. PICK t : t = Ended(s, i, why)
  OBVIOUS
<1>2. /\ t \in Serving /\ SameButTime(s, t)
      /\ \A j \in DOMAIN chain :
           t.err[j] = IF j >= i /\ s.err[j] = "live" THEN why ELSE s.err[j]
  BY <1>1, EndedIs
<1>3. Contexts(t)
  BY <1>1, EndedContexts DEF Proper
<1>4. Told(t)
  <2>1. \A j \in DOMAIN chain : j > s.at => s.err[j] # "live"
    <3>1. \A j \in DOMAIN chain : j \in Int /\ s.at \in Int
      BY DEF Shaped, Serving, Places
    <3> QED BY <3>1 DEF Proper, Contexts
  <2>2. t.told = s.told /\ t.fate = s.fate /\ t.at = s.at /\ t.deadline = s.deadline
    BY <1>2 DEF SameSoFar, SameButTime
  <2>3. \A j : UnwoundBy(t, j) <=> UnwoundBy(s, j)
    BY <2>2 DEF UnwoundBy
  <2> QED BY <1>2, <2>1, <2>2, <2>3 DEF Proper, Told
<1>5. \A j \in DOMAIN chain : s.err[j] = "none" => t.err[j] = "none"
  BY <1>2
<1> QED BY <1>1, <1>2, <1>3, <1>4, <1>5, TimeKeeps

LEMMA DeadlineKeeps ==
  ASSUME Orderly, NEW r \in Requests, DeadlinePasses(r)
  PROVE  Orderly'
<1>1. PICK s : s = req[r]
  OBVIOUS
<1>2. Shaped /\ s \in Serving /\ Proper(s)
  BY <1>1, BeingServed DEF DeadlinePasses, Orderly
<1>3. PICK i \in DOMAIN chain : /\ s.err[i] = "live" /\ now >= s.deadline[i]
                                /\ Become(r, Ended(s, i, "deadline"))
  BY <1>1 DEF DeadlinePasses
<1>4. i \in Int /\ s.deadline[i] <= now /\ s.err[i] # "none"
  BY <1>2, <1>3 DEF Shaped, Serving, Deadlines
<1>5. Ended(s, i, "deadline") \in Serving /\ Proper(Ended(s, i, "deadline"))
  BY <1>2, <1>3, <1>4, EndedKeeps
<1> QED BY <1>3, <1>5, BecomeKeeps

LEMMA ClientLeavesKeeps ==
  ASSUME Orderly, NEW r \in Requests, ClientLeaves(r)
  PROVE  Orderly'
<1>1. PICK s : s = req[r]
  OBVIOUS
<1>2. Shaped /\ s \in Serving /\ Proper(s)
  BY <1>1, BeingServed DEF ClientLeaves, Orderly
<1>3. PICK u : u = [s EXCEPT !.left = TRUE]
  OBVIOUS
<1>4. u \in Serving /\ u.err = s.err
  BY <1>2, <1>3 DEF Serving
<1>5. SameButTime(s, u)
  BY <1>2, <1>3 DEF Serving, SameSoFar, SameButTime
<1>6. Contexts(u)
  BY <1>2, <1>4, <1>5 DEF Proper, Contexts, SameButTime
<1>7. Told(u)
  BY <1>2, <1>4, <1>5 DEF Proper, Told, UnwoundBy, SameButTime, SameSoFar
<1>8. Proper(u)
  BY <1>2, <1>4, <1>5, <1>6, <1>7, TimeKeeps
<1>9. Ended(u, 1, "canceled") \in Serving /\ Proper(Ended(u, 1, "canceled"))
  BY <1>2, <1>4, <1>8, EndedKeeps
<1>10. Become(r, Ended(u, 1, "canceled"))
  BY <1>1, <1>3 DEF ClientLeaves
<1> QED BY <1>9, <1>10, BecomeKeeps

-----------------------------------------------------------------------------
(* Up through the layers *)

\* A request on its way back, at a layer of this kind.
LEMMA AtLayerUp ==
  ASSUME Orderly, NEW r \in Requests, NEW mw, NEW way \in {"up", "panic"}, At(r, way, mw)
  PROVE  /\ Shaped /\ req[r] \in Serving /\ Proper(req[r])
         /\ req[r].way = way /\ req[r].at \in DOMAIN chain /\ chain[req[r].at].mw = mw
         /\ req[r].at > 0 /\ req[r].at <= Len(chain)
<1>1. /\ req[r].way = way /\ req[r].at \in DOMAIN chain /\ chain[req[r].at].mw = mw
  BY DEF At
<1>2. Shaped /\ req[r] \in Serving /\ Proper(req[r])
  BY <1>1, BeingServed DEF Orderly
<1> QED BY <1>1, <1>2 DEF Shaped

\* A layer without a context of its own that tells at most of a read it has refused.
LEMMA PassedBack ==
  ASSUME Orderly, NEW r \in Requests, NEW mw, At(r, "up", mw), mw # "timeout",
         NEW u \in Serving, Become(r, Up(u)), NEW told,
         u = [req[r] EXCEPT !.told = told],
         \/ told = req[r].told
         \/ req[r].at \in req[r].exceeded /\ told = req[r].told \cup {<<req[r].at, "read">>}
  PROVE  Orderly'
<1>1. PICK s : s = req[r]
  OBVIOUS
<1>2. /\ Shaped /\ s \in Serving /\ Proper(s) /\ s.way = "up" /\ s.at \in DOMAIN chain
      /\ s.at > 0 /\ s.at <= Len(chain) /\ chain[s.at].mw # "timeout"
  BY <1>1, AtLayerUp
<1>3. /\ u.told = told /\ u.at = s.at /\ u.ip = s.ip
      /\ u.limited = s.limited /\ u.err = s.err /\ u.deadline = s.deadline
      /\ u.headers = s.headers /\ u.vary = s.vary /\ u.q = s.q /\ u.got = s.got
      /\ u.exceeded = s.exceeded /\ u.fate = s.fate /\ u.before = s.before
      /\ u.informed = s.informed /\ u.status = s.status /\ u.authors = s.authors
      /\ u.wrote = s.wrote
  BY <1>1, <1>2 DEF Serving, SameSoFar
<1>4. PICK t : t = Up(u)
  OBVIOUS
<1>5. /\ t \in Serving /\ t.way = "up" /\ t.at = u.at - 1 /\ t.check = NoCheck /\ SameSoFar(u, t)
      /\ t.ip = u.ip /\ t.limited = u.limited /\ t.err = u.err /\ t.deadline = u.deadline
      /\ t.headers = u.headers /\ t.vary = u.vary
  <2>1. u.at > 0
    BY <1>2, <1>3
  <2> QED BY <1>2, <1>4, <2>1, OneUp
<1>6. /\ t.at = s.at - 1 /\ t.told = told /\ t.ip = s.ip /\ t.limited = s.limited
      /\ t.err = s.err /\ t.deadline = s.deadline /\ t.headers = s.headers /\ t.vary = s.vary
      /\ t.q = s.q /\ t.got = s.got /\ t.exceeded = s.exceeded /\ t.fate = s.fate
      /\ t.before = s.before /\ t.informed = s.informed /\ t.status = s.status
      /\ t.authors = s.authors /\ t.wrote = s.wrote
  BY <1>3, <1>5 DEF SameSoFar
<1>7. s.err[s.at] = "none" /\ s.at \in Int /\ \A i \in DOMAIN chain : i \in Int
  BY <1>2 DEF Proper, Contexts, Shaped
<1>8. Contexts(t)
  <2>1. \A i \in DOMAIN chain : s.err[i] = "live" /\ i <= s.at => i <= t.at
    BY <1>6, <1>7
  <2> QED BY <1>2, <1>6, <2>1, ContextsKept DEF Proper
<1>9. Told(t)
  <2>1. \A i : UnwoundBy(t, i) <=> UnwoundBy(s, i)
    BY <1>6 DEF UnwoundBy
  <2>2. \A i \in DOMAIN chain : <<i, "timeout">> \in t.told <=> <<i, "timeout">> \in s.told
    BY <1>1, <1>6
  <2>3. \A i \in DOMAIN chain : i > t.at => i > s.at \/ i = s.at
    BY <1>6, <1>7
  <2> QED BY <1>2, <1>6, <1>7, <2>1, <2>2, <2>3 DEF Proper, Told
<1>10. Body(t)
  <2>1. \A i : UsedUp(t, i) <=> UsedUp(s, i)
    BY <1>6 DEF UsedUp
  <2>2. \A i \in DOMAIN chain : <<i, "read">> \in t.told => <<i, "read">> \in s.told \/ i \in s.exceeded
    BY <1>1, <1>6
  <2> QED BY <1>2, <1>6, <2>1, <2>2 DEF Proper, Body
<1>11. t.check.layer = 0
  BY <1>5 DEF NoCheck
<1>12. Proper(t)
  BY <1>2, <1>5, <1>6, <1>8, <1>9, <1>10, <1>11, CameBack
<1> QED BY <1>4, <1>5, <1>12, BecomeKeeps

LEMMA LeaveLayerKeeps ==
  ASSUME Orderly, NEW r \in Requests, LeaveLayer(r)
  PROVE  Orderly'
<1>1. PICK mw \in {"recover", "requestid", "realip", "cors", "guard"} : At(r, "up", mw)
  BY DEF LeaveLayer
<1>2. req[r] \in Serving
  BY <1>1, AtLayerUp
<1>3. req[r] = [req[r] EXCEPT !.told = req[r].told]
  BY <1>2 DEF Serving
<1> QED BY <1>1, <1>2, <1>3, PassedBack DEF LeaveLayer

LEMMA LeaveBodyLimitKeeps ==
  ASSUME Orderly, NEW r \in Requests, LeaveBodyLimit(r)
  PROVE  Orderly'
<1>1. PICK s : s = req[r]
  OBVIOUS
<1>2. At(r, "up", "bodylimit")
  BY DEF LeaveBodyLimit
<1>3. Shaped /\ s \in Serving /\ s.at \in DOMAIN chain
  BY <1>1, <1>2, AtLayerUp
<1>4. PICK told : told = IF s.at \in s.exceeded THEN s.told \cup {<<s.at, "read">>} ELSE s.told
  OBVIOUS
<1>5. told \in Tellings
  <2>1. <<s.at, "read">> \in Tellable
    BY <1>1, <1>2, <1>3 DEF At, Tellable, LayersOf
  <2> QED BY <1>3, <1>4, <2>1 DEF Serving, Tellings
<1>6. PICK u : u = [s EXCEPT !.told = told]
  OBVIOUS
<1>7. u \in Serving
  BY <1>3, <1>5, <1>6 DEF Serving
<1>8. u = IF s.at \in s.exceeded THEN [s EXCEPT !.told = @ \cup {<<s.at, "read">>}] ELSE s
  BY <1>3, <1>4, <1>6 DEF Serving
<1>9. Become(r, Up(u))
  BY <1>1, <1>8 DEF LeaveBodyLimit
<1> QED BY <1>1, <1>2, <1>4, <1>6, <1>7, <1>9, PassedBack

LEMMA LeaveTimeoutKeeps ==
  ASSUME Orderly, NEW r \in Requests, LeaveTimeout(r)
  PROVE  Orderly'
<1>1. PICK s : s = req[r]
  OBVIOUS
<1>2. At(r, "up", "timeout")
  BY DEF LeaveTimeout
<1>3. /\ Shaped /\ s \in Serving /\ Proper(s) /\ s.way = "up" /\ s.at \in DOMAIN chain
      /\ s.at > 0 /\ s.at <= Len(chain)
  BY <1>1, <1>2, AtLayerUp
<1>4. PICK told : told = IF s.err[s.at] = "deadline" THEN s.told \cup {<<s.at, "timeout">>}
                         ELSE s.told
  OBVIOUS
<1>5. told \in Tellings
  <2>1. <<s.at, "timeout">> \in Tellable
    BY <1>1, <1>2, <1>3 DEF At, Tellable, LayersOf
  <2> QED BY <1>3, <1>4, <2>1 DEF Serving, Tellings
<1>6. PICK u : u = [s EXCEPT !.told = told]
  OBVIOUS
<1>7. u \in Serving
  BY <1>3, <1>5, <1>6 DEF Serving
<1>8. u = IF s.err[s.at] = "deadline" THEN [s EXCEPT !.told = @ \cup {<<s.at, "timeout">>}] ELSE s
  BY <1>3, <1>4, <1>6 DEF Serving
<1>9. /\ u.told = told /\ u.at = s.at /\ u.ip = s.ip
      /\ u.limited = s.limited /\ u.err = s.err /\ u.deadline = s.deadline
      /\ u.headers = s.headers /\ u.vary = s.vary /\ u.q = s.q /\ u.got = s.got
      /\ u.exceeded = s.exceeded /\ u.fate = s.fate /\ u.before = s.before
      /\ u.informed = s.informed /\ u.status = s.status /\ u.authors = s.authors
      /\ u.wrote = s.wrote
  BY <1>3, <1>6 DEF Serving
<1>10. PICK v : v = Ended(u, s.at, "canceled")
  OBVIOUS
<1>11. Become(r, Up(v))
  BY <1>1, <1>8, <1>10 DEF LeaveTimeout
<1>12. /\ v \in Serving /\ SameButTime(u, v)
       /\ \A j \in DOMAIN chain :
            v.err[j] = IF j >= s.at /\ u.err[j] = "live" THEN "canceled" ELSE u.err[j]
  BY <1>3, <1>7, <1>10, EndedIs
<1>13. Contexts(u)
  BY <1>3, <1>9, ContextsKept DEF Proper
<1>14. s.at \in Int /\ \A i \in DOMAIN chain : i \in Int
  BY <1>3 DEF Shaped
<1>15. Contexts(v)
  BY <1>3, <1>7, <1>10, <1>13, <1>14, EndedContexts
<1>16. PICK t : t = Up(v)
  OBVIOUS
<1>17. v.at = s.at /\ v.at > 0
  BY <1>3, <1>9, <1>12 DEF SameButTime
<1>18. /\ t \in Serving /\ t.way = "up" /\ t.at = v.at - 1 /\ t.check = NoCheck /\ SameSoFar(v, t)
       /\ t.ip = v.ip /\ t.limited = v.limited /\ t.err = v.err /\ t.deadline = v.deadline
       /\ t.headers = v.headers /\ t.vary = v.vary
  BY <1>3, <1>12, <1>16, <1>17, OneUp
<1>19. /\ t.told = u.told /\ t.ip = u.ip /\ t.limited = u.limited
       /\ t.deadline = u.deadline /\ t.headers = u.headers /\ t.vary = u.vary
       /\ t.q = u.q /\ t.got = u.got /\ t.exceeded = u.exceeded /\ t.fate = u.fate
       /\ t.before = u.before /\ t.informed = u.informed /\ t.status = u.status
       /\ t.authors = u.authors /\ t.wrote = u.wrote
  BY <1>12, <1>18 DEF SameButTime, SameSoFar
<1>20. /\ t.at = s.at - 1 /\ t.told = told /\ t.ip = s.ip /\ t.limited = s.limited
       /\ t.deadline = s.deadline /\ t.headers = s.headers /\ t.vary = s.vary
       /\ t.q = s.q /\ t.got = s.got /\ t.exceeded = s.exceeded /\ t.fate = s.fate
       /\ t.before = s.before /\ t.informed = s.informed /\ t.status = s.status
       /\ t.authors = s.authors /\ t.wrote = s.wrote
  BY <1>9, <1>17, <1>18, <1>19
<1>21. \A j \in DOMAIN chain :
         t.err[j] = IF j >= s.at /\ s.err[j] = "live" THEN "canceled" ELSE s.err[j]
  BY <1>9, <1>12, <1>18
<1>22. Contexts(t)
  <2>1. \A i \in DOMAIN chain : v.err[i] = "live" /\ i <= v.at => i <= t.at
    BY <1>14, <1>17, <1>18, <1>20, <1>21
  <2> QED BY <1>15, <1>18, <2>1, ContextsKept
<1>23. Told(t)
  <2>1. \A i : UnwoundBy(t, i) <=> UnwoundBy(s, i)
    BY <1>20 DEF UnwoundBy
  <2>2. \A i \in DOMAIN chain : <<i, "timeout">> \in t.told <=>
          <<i, "timeout">> \in s.told \/ (i = s.at /\ s.err[s.at] = "deadline")
    BY <1>4, <1>20
  <2>3. \A i \in DOMAIN chain : t.err[i] = "deadline" => s.err[i] = "deadline"
    BY <1>21
  <2>4. ~UnwoundBy(s, s.at)
    <3>1. \A j \in DOMAIN chain : j > s.at => j \in s.at..Len(chain)
      BY <1>3, <1>14 DEF Shaped
    <3> QED BY <1>3, <3>1 DEF Proper, Ending, UnwoundBy
  <2>5. s.err[s.at] = "deadline" => s.deadline[s.at] <= now
    BY <1>3 DEF Proper, Contexts
  <2>6. \A i \in DOMAIN chain : i > t.at => i > s.at \/ i = s.at
    BY <1>14, <1>20
  <2> QED BY <1>3, <1>20, <2>1, <2>2, <2>3, <2>4, <2>5, <2>6 DEF Proper, Told
<1>24. Body(t)
  <2>1. \A i : UsedUp(t, i) <=> UsedUp(s, i)
    BY <1>20 DEF UsedUp
  <2>2. \A i \in DOMAIN chain : <<i, "read">> \in t.told => <<i, "read">> \in s.told
    BY <1>4, <1>20
  <2> QED BY <1>3, <1>20, <2>1, <2>2 DEF Proper, Body
<1>25. t.check.layer = 0
  BY <1>18 DEF NoCheck
<1>26. Proper(t)
  BY <1>3, <1>18, <1>20, <1>22, <1>23, <1>24, <1>25, CameBack
<1> QED BY <1>11, <1>16, <1>18, <1>26, BecomeKeeps

-----------------------------------------------------------------------------
(* The handler *)

\* The request the handler works on.
LEMMA AtHandlerIs ==
  ASSUME Orderly, NEW r \in Requests, AtHandler(r)
  PROVE  LET s == req[r]
         IN /\ Shaped /\ s \in Serving /\ Proper(s) /\ s.way = "down" /\ s.at = Len(chain) + 1
            /\ \A i \in DOMAIN chain : i \in Int /\ i < s.at /\ i <= Len(chain)
            /\ s.told = {} /\ s.fate = "none" /\ s.before = 0
            /\ "Allow-Methods" \notin s.headers /\ Sent(s)
<1>1. PICK s : s = req[r]
  OBVIOUS
<1>2. s.way = "down" /\ s.at = Len(chain) + 1
  BY <1>1 DEF AtHandler
<1>3. Shaped /\ s \in Serving /\ Proper(s)
  BY <1>1, <1>2, BeingServed DEF Orderly
<1>4. \A i \in DOMAIN chain : i \in Int /\ i < s.at /\ i <= Len(chain)
  BY <1>2, <1>3 DEF Shaped
<1>5. /\ s.told = {} /\ s.fate = "none" /\ s.before = 0
      /\ "Allow-Methods" \notin s.headers
  BY <1>2, <1>3 DEF Proper, Untouched
<1>6. Sent(s)
  BY <1>2, <1>3 DEF Proper, Written
<1> QED BY <1>1, <1>2, <1>3, <1>4, <1>5, <1>6

\* A handler that goes on: what it has read and what it has sent remains to be shown.
LEMMA HandlesOn ==
  ASSUME Orderly, NEW r \in Requests, AtHandler(r), NEW s, s = req[r], NEW t \in Serving,
         Become(r, t), t.q = s.q, t.at = s.at, t.way = s.way, t.ip = s.ip, t.err = s.err,
         t.deadline = s.deadline, t.told = s.told, t.headers = s.headers, t.vary = s.vary,
         t.check = s.check, t.fate = s.fate, t.before = s.before, Body(t),
         Sent(t)
  PROVE  Orderly'
<1>1. /\ Shaped /\ s \in Serving /\ Proper(s) /\ s.way = "down" /\ s.at = Len(chain) + 1
      /\ \A i \in DOMAIN chain : i \in Int /\ i < s.at /\ i <= Len(chain)
      /\ s.told = {} /\ s.fate = "none" /\ s.before = 0
      /\ "Allow-Methods" \notin s.headers
  BY AtHandlerIs
<1>2. Untouched(t)
  <2>1. ~(t.at <= Len(chain)) /\ t.at > 0
    BY <1>1 DEF Shaped
  <2> QED BY <1>1, <2>1 DEF Proper, Untouched
<1>3. Contexts(t)
  BY <1>1, ContextsKept DEF Proper
<1>4. Told(t)
  BY <1>1 DEF Told
<1>5. Ending(t) /\ Looks(t)
  BY <1>1 DEF Ending, Looks
<1>6. Written(t)
  BY <1>1 DEF Written, Sent, Writers
<1>7. Judged(t) /\ Granted(t) /\ Vouched(t)
  BY <1>1, JudgedKept, GrantedKept, VouchedKept DEF Proper
<1>8. Proper(t)
  BY <1>2, <1>3, <1>4, <1>5, <1>6, <1>7 DEF Proper
<1> QED BY <1>8, BecomeKeeps

LEMMA HandlerReadsKeeps ==
  ASSUME Orderly, NEW r \in Requests, HandlerReads(r)
  PROVE  Orderly'
<1>1. PICK s : s = req[r]
  OBVIOUS
<1>2. AtHandler(r) /\ s.got < s.q.body /\ s.exceeded = {}
  BY <1>1 DEF HandlerReads
<1>3. /\ Shaped /\ s \in Serving /\ Proper(s) /\ s.way = "down" /\ s.told = {} /\ Sent(s)
  BY <1>1, <1>2, AtHandlerIs
<1>4. PICK full : full = {i \in s.limited : s.got >= chain[i].limit}
  OBVIOUS
<1>5. Refusing(s) = {i \in s.limited : \E j \in full : i >= j}
  BY <1>4 DEF Refusing
<1>6. /\ s.got \in Nat /\ s.q.body \in Nat
      /\ \A i \in s.limited : /\ i \in DOMAIN chain /\ i \in Int /\ chain[i].limit \in Int
                              /\ s.got <= chain[i].limit
  <2>1. s.got \in Nat /\ s.q \in Inputs /\ s.limited \in Limiting
    BY <1>3 DEF Serving
  <2>2. s.q.body \in Nat
    BY <2>1, HttpAssumption DEF IsRequest
  <2>3. \A i \in s.limited : i \in DOMAIN chain /\ chain[i].mw = "bodylimit"
    BY <2>1 DEF Limiting, LayersOf
  <2>4. \A i \in s.limited : i \in Int /\ chain[i].limit \in Int
    BY <1>3, <2>3 DEF Shaped, IsLayer
  <2>5. \A i \in s.limited : s.got <= chain[i].limit
    BY <1>3 DEF Proper, Body
  <2> QED BY <2>1, <2>2, <2>3, <2>4, <2>5
<1>7. CASE Refusing(s) # {}
  <2>1. PICK x : x = Refusing(s)
    OBVIOUS
  <2>2. PICK t : t = [s EXCEPT !.exceeded = x]
    OBVIOUS
  <2>3. Become(r, t)
    BY <1>1, <1>7, <2>1, <2>2 DEF HandlerReads
  <2>4. x \in Limiting
    <3>1. s.limited \in Limiting
      BY <1>3 DEF Serving
    <3> QED BY <1>5, <2>1, <3>1 DEF Limiting
  <2>5. t \in Serving
    BY <1>3, <2>2, <2>4 DEF Serving
  <2>6. /\ t.q = s.q /\ t.at = s.at /\ t.way = s.way /\ t.ip = s.ip /\ t.err = s.err
        /\ t.deadline = s.deadline /\ t.told = s.told /\ t.headers = s.headers
        /\ t.vary = s.vary /\ t.check = s.check /\ t.fate = s.fate /\ t.before = s.before
        /\ t.status = s.status /\ t.authors = s.authors /\ t.wrote = s.wrote
        /\ t.informed = s.informed /\ t.got = s.got /\ t.limited = s.limited /\ t.exceeded = x
    BY <1>3, <2>2 DEF Serving
  <2>7. \A i \in x : UsedUp(t, i)
    <3> SUFFICES ASSUME NEW i \in x PROVE UsedUp(t, i)
      OBVIOUS
    <3>1. PICK j \in full : i >= j
      BY <1>5, <2>1
    <3>2. j \in s.limited /\ s.got >= chain[j].limit
      BY <1>4
    <3>3. s.got = chain[j].limit /\ j <= i
      BY <1>5, <1>6, <2>1, <3>1, <3>2
    <3> QED BY <1>2, <2>6, <3>2, <3>3 DEF UsedUp
  <2>8. Body(t)
    <3>1. t.got <= t.q.body
      BY <1>6, <1>2, <2>6
    <3> QED BY <1>3, <1>6, <2>6, <2>7, <3>1 DEF Body
  <2>9. Sent(t)
    BY <1>3, <2>6 DEF Sent
  <2> QED BY <1>1, <1>2, <2>3, <2>5, <2>6, <2>8, <2>9, HandlesOn
<1>8. CASE Refusing(s) = {}
  <2>1. PICK n : n = s.got + 1
    OBVIOUS
  <2>2. PICK t : t = [s EXCEPT !.got = n]
    OBVIOUS
  <2>3. Become(r, t)
    BY <1>1, <1>8, <2>1, <2>2 DEF HandlerReads
  <2>4. n \in Nat /\ n <= s.q.body
    BY <1>2, <1>6, <2>1
  <2>5. t \in Serving
    BY <1>3, <2>2, <2>4 DEF Serving
  <2>6. /\ t.q = s.q /\ t.at = s.at /\ t.way = s.way /\ t.ip = s.ip /\ t.err = s.err
        /\ t.deadline = s.deadline /\ t.told = s.told /\ t.headers = s.headers
        /\ t.vary = s.vary /\ t.check = s.check /\ t.fate = s.fate /\ t.before = s.before
        /\ t.status = s.status /\ t.authors = s.authors /\ t.wrote = s.wrote
        /\ t.informed = s.informed /\ t.got = n /\ t.limited = s.limited
        /\ t.exceeded = s.exceeded
    BY <1>3, <2>2 DEF Serving
  <2>7. \A i \in s.limited : n <= chain[i].limit
    <3> SUFFICES ASSUME NEW i \in s.limited PROVE n <= chain[i].limit
      OBVIOUS
    <3>1. i \notin full
      BY <1>5, <1>6, <1>8
    <3>2. ~(s.got >= chain[i].limit)
      BY <1>4, <3>1
    <3> QED BY <1>6, <2>1, <3>2
  <2>8. Body(t)
    BY <1>2, <1>3, <2>4, <2>6, <2>7 DEF Body
  <2>9. Sent(t)
    BY <1>3, <2>6 DEF Sent
  <2> QED BY <1>1, <1>2, <2>3, <2>5, <2>6, <2>8, <2>9, HandlesOn
<1> QED BY <1>7, <1>8

LEMMA HandlerInformsKeeps ==
  ASSUME Orderly, NEW r \in Requests, HandlerInforms(r)
  PROVE  Orderly'
<1>1. PICK s : s = req[r]
  OBVIOUS
<1>2. AtHandler(r) /\ s.status = 0
  BY <1>1 DEF HandlerInforms
<1>3. /\ Shaped /\ s \in Serving /\ Proper(s) /\ Sent(s)
      /\ \A i \in DOMAIN chain : i < s.at
  BY <1>1, <1>2, AtHandlerIs
<1>4. PICK m : m = Marked(s)
  OBVIOUS
<1>5. /\ m \in Serving
      /\ m.wrote = s.wrote \cup {i \in DOMAIN chain : i < s.at /\ chain[i].mw = "recover"}
      /\ m.q = s.q /\ m.at = s.at /\ m.way = s.way /\ m.ip = s.ip /\ m.err = s.err
      /\ m.deadline = s.deadline /\ m.told = s.told /\ m.headers = s.headers
      /\ m.vary = s.vary /\ m.check = s.check /\ m.fate = s.fate /\ m.before = s.before
      /\ m.status = s.status /\ m.authors = s.authors /\ m.got = s.got
      /\ m.limited = s.limited /\ m.exceeded = s.exceeded
  BY <1>3, <1>4, MarkedIs
<1>6. PICK t : t = [m EXCEPT !.informed = TRUE]
  OBVIOUS
<1>7. Become(r, t)
  BY <1>1, <1>4, <1>6 DEF HandlerInforms
<1>8. t \in Serving
  BY <1>5, <1>6 DEF Serving
<1>9. /\ t.q = m.q /\ t.at = m.at /\ t.way = m.way /\ t.ip = m.ip /\ t.err = m.err
      /\ t.deadline = m.deadline /\ t.told = m.told /\ t.headers = m.headers
      /\ t.vary = m.vary /\ t.check = m.check /\ t.fate = m.fate /\ t.before = m.before
      /\ t.status = m.status /\ t.authors = m.authors /\ t.wrote = m.wrote
      /\ t.informed = TRUE /\ t.got = m.got /\ t.limited = m.limited /\ t.exceeded = m.exceeded
  BY <1>5, <1>6 DEF Serving
<1>10. Sent(t)
  BY <1>3, <1>5, <1>9 DEF Sent
<1>11. Body(t)
  BY <1>3, <1>5, <1>9 DEF Proper, Body, UsedUp
<1> QED BY <1>1, <1>2, <1>5, <1>7, <1>8, <1>9, <1>10, <1>11, HandlesOn

LEMMA HandlerWritesKeeps ==
  ASSUME Orderly, NEW r \in Requests, HandlerWrites(r)
  PROVE  Orderly'
<1>1. PICK s : s = req[r]
  OBVIOUS
<1>2. AtHandler(r) /\ s.status = 0
  BY <1>1 DEF HandlerWrites
<1>3. /\ Shaped /\ s \in Serving /\ Proper(s) /\ Sent(s)
      /\ \A i \in DOMAIN chain : i < s.at
  BY <1>1, <1>2, AtHandlerIs
<1>4. 200 \in Statuses /\ "handler" \in Writers
  BY DEF Statuses, Writers
<1>5. PICK t : t = Answered(s, 200, "handler")
  OBVIOUS
<1>6. Become(r, t)
  BY <1>1, <1>5 DEF HandlerWrites
<1>7. /\ t \in Serving /\ t.wrote = Marked(s).wrote /\ t.status = 200
      /\ t.authors = s.authors \cup {"handler"}
      /\ t.q = s.q /\ t.at = s.at /\ t.way = s.way /\ t.ip = s.ip /\ t.err = s.err
      /\ t.deadline = s.deadline /\ t.told = s.told /\ t.headers = s.headers
      /\ t.vary = s.vary /\ t.check = s.check /\ t.fate = s.fate /\ t.before = s.before
      /\ t.got = s.got /\ t.limited = s.limited /\ t.exceeded = s.exceeded
  BY <1>2, <1>3, <1>4, <1>5, AnsweredIs
<1>8. \A i \in DOMAIN chain : chain[i].mw = "recover" => i \in t.wrote
  BY <1>3, <1>7, MarkedIs
<1>9. Sent(t)
  BY <1>3, <1>7, <1>8 DEF Sent
<1>10. Body(t)
  BY <1>3, <1>7 DEF Proper, Body, UsedUp
<1> QED BY <1>1, <1>2, <1>6, <1>7, <1>9, <1>10, HandlesOn

\* The handler ends: what that says of the way back and of the answer remains to be shown.
LEMMA HandlerEnds ==
  ASSUME Orderly, NEW r \in Requests, AtHandler(r), NEW s, s = req[r], NEW t \in Serving,
         Become(r, t), t.q = s.q, t.at = s.at - 1, t.ip = s.ip, t.err = s.err,
         t.deadline = s.deadline, t.told = s.told, t.headers = s.headers, t.vary = s.vary,
         t.got = s.got, t.limited = s.limited, t.exceeded = s.exceeded,
         t.way \in {"up", "panic", "abort"}, Judged(t), Ending(t), Written(t)
  PROVE  Orderly'
<1>1. /\ Shaped /\ s \in Serving /\ Proper(s) /\ s.at = Len(chain) + 1
      /\ \A i \in DOMAIN chain : i \in Int /\ i < s.at /\ i <= Len(chain)
      /\ s.told = {} /\ "Allow-Methods" \notin s.headers
  BY AtHandlerIs
<1>2. t.at = Len(chain)
  BY <1>1 DEF Shaped
<1>3. Untouched(t) /\ Looks(t)
  BY DEF Untouched, Looks
<1>4. Contexts(t)
  BY <1>1, <1>2, ContextsKept DEF Proper
<1>5. Told(t)
  <2>1. \A i \in DOMAIN chain : ~(i > t.at)
    BY <1>1, <1>2 DEF Shaped
  <2> QED BY <1>1, <2>1 DEF Told
<1>6. Body(t)
  BY <1>1 DEF Proper, Body, UsedUp
<1>7. Granted(t) /\ Vouched(t)
  BY <1>1, GrantedKept, VouchedKept DEF Proper
<1>8. Proper(t)
  BY <1>3, <1>4, <1>5, <1>6, <1>7 DEF Proper
<1> QED BY <1>8, BecomeKeeps

LEMMA HandlerReturnsKeeps ==
  ASSUME Orderly, NEW r \in Requests, HandlerReturns(r)
  PROVE  Orderly'
<1>1. PICK s : s = req[r]
  OBVIOUS
<1>2. AtHandler(r)
  BY DEF HandlerReturns
<1>3. /\ Shaped /\ s \in Serving /\ Proper(s) /\ Sent(s) /\ s.at = Len(chain) + 1
  BY <1>1, <1>2, AtHandlerIs
<1>4. PICK u : u = [s EXCEPT !.fate = "returned"]
  OBVIOUS
<1>5. u \in Serving
  <2>1. "returned" \in Fates
    BY DEF Fates
  <2> QED BY <1>3, <1>4, <2>1 DEF Serving
<1>6. /\ u.q = s.q /\ u.at = s.at /\ u.ip = s.ip /\ u.err = s.err
      /\ u.deadline = s.deadline /\ u.told = s.told /\ u.headers = s.headers /\ u.vary = s.vary
      /\ u.got = s.got /\ u.limited = s.limited /\ u.exceeded = s.exceeded
      /\ u.authors = s.authors /\ u.fate = "returned"
  BY <1>3, <1>4 DEF Serving
<1>7. PICK t : t = Up(u)
  OBVIOUS
<1>8. Become(r, t)
  BY <1>1, <1>4, <1>7 DEF HandlerReturns
<1>9. /\ t \in Serving /\ t.way = "up" /\ t.at = u.at - 1 /\ t.check = NoCheck /\ SameSoFar(u, t)
      /\ t.ip = u.ip /\ t.limited = u.limited /\ t.err = u.err /\ t.deadline = u.deadline
      /\ t.headers = u.headers /\ t.vary = u.vary
  <2>1. u.at > 0
    BY <1>3, <1>6 DEF Shaped
  <2> QED BY <1>3, <1>5, <1>7, <2>1, OneUp
<1>10. /\ t.q = s.q /\ t.at = s.at - 1 /\ t.ip = s.ip /\ t.err = s.err
       /\ t.deadline = s.deadline /\ t.told = s.told /\ t.headers = s.headers /\ t.vary = s.vary
       /\ t.got = s.got /\ t.limited = s.limited /\ t.exceeded = s.exceeded
       /\ t.authors = s.authors /\ t.fate = "returned"
  BY <1>6, <1>9 DEF SameSoFar
<1>11. Judged(t)
  BY <1>9, NothingJudged DEF NoCheck
<1>12. Ending(t)
  BY <1>3, <1>9, <1>10 DEF Ending, Shaped
<1>13. Written(t)
  BY <1>3, <1>9, <1>10 DEF Written, Sent, Writers
<1> QED BY <1>1, <1>2, <1>8, <1>9, <1>10, <1>11, <1>12, <1>13, HandlerEnds

LEMMA HandlerPanicsKeeps ==
  ASSUME Orderly, NEW r \in Requests, HandlerPanics(r)
  PROVE  Orderly'
<1>1. PICK s : s = req[r]
  OBVIOUS
<1>2. AtHandler(r)
  BY DEF HandlerPanics
<1>3. /\ Shaped /\ s \in Serving /\ Proper(s) /\ Sent(s) /\ s.at = Len(chain) + 1
      /\ \A i \in DOMAIN chain : i \in Int /\ i < s.at /\ i <= Len(chain)
  BY <1>1, <1>2, AtHandlerIs
<1>4. PICK way \in {"panic", "abort"} :
        Become(r, [s EXCEPT !.at = @ - 1, !.way = way, !.fate = way, !.before = s.status])
  BY <1>1 DEF HandlerPanics
<1>5. PICK at, before : at = s.at - 1 /\ before = s.status
  OBVIOUS
<1>6. PICK t : t = [s EXCEPT !.at = at, !.way = way, !.fate = way, !.before = before]
  OBVIOUS
<1>7. Become(r, t)
  <2>1. s.at = s.at /\ t = [s EXCEPT !.at = @ - 1, !.way = way, !.fate = way, !.before = s.status]
    BY <1>3, <1>5, <1>6 DEF Serving
  <2> QED BY <1>4, <2>1
<1>8. at \in Places /\ way \in Ways /\ way \in Fates /\ before \in Befores
  <2>1. at = Len(chain) /\ Len(chain) \in Nat
    BY <1>3, <1>5 DEF Shaped
  <2>2. s.status \in {0, 200}
    BY <1>3 DEF Sent
  <2> QED BY <1>5, <2>1, <2>2 DEF Places, Ways, Fates, Befores
<1>9. t \in Serving
  BY <1>3, <1>6, <1>8 DEF Serving
<1>10. /\ t.q = s.q /\ t.at = s.at - 1 /\ t.ip = s.ip /\ t.err = s.err
       /\ t.deadline = s.deadline /\ t.told = s.told /\ t.headers = s.headers /\ t.vary = s.vary
       /\ t.got = s.got /\ t.limited = s.limited /\ t.exceeded = s.exceeded
       /\ t.authors = s.authors /\ t.informed = s.informed /\ t.status = s.status
       /\ t.wrote = s.wrote /\ t.check = s.check
       /\ t.fate = way /\ t.way = way /\ t.before = s.status
  BY <1>3, <1>5, <1>6 DEF Serving
<1>11. Judged(t)
  BY <1>3, <1>10, JudgedKept DEF Proper
<1>12. Ending(t)
  <2>1. t.at = Len(chain) /\ \A i \in DOMAIN chain : ~(i > t.at)
    BY <1>3, <1>10 DEF Shaped
  <2>2. t.at <= Len(chain)
    BY <1>3, <2>1 DEF Shaped
  <2> QED BY <1>10, <2>1, <2>2 DEF Ending
<1>13. Written(t)
  <2>1. Sent(t)
    BY <1>3, <1>10 DEF Sent
  <2> QED BY <1>10, <2>1 DEF Written, Sent, Writers
<1>14. t.way \in {"up", "panic", "abort"}
  BY <1>10
<1> QED BY <1>1, <1>2, <1>7, <1>9, <1>10, <1>11, <1>12, <1>13, <1>14, HandlerEnds

-----------------------------------------------------------------------------
(* The way of a panic *)

\* What a Recover, or what is deferred, leaves alone of a request that panics or aborts; what it
\* does to the contexts, the way back and the answer remains to be shown.
LEMMA PanicGoesOut ==
  ASSUME Shaped, NEW s \in Serving, NEW t \in Serving, Proper(s),
         s.way \in {"up", "panic", "abort"}, t.way \notin {"down", "guard"},
         t.q = s.q, t.ip = s.ip, t.got = s.got, t.fate = s.fate, t.limited = s.limited,
         t.exceeded = s.exceeded, \A i : <<i, "read">> \in t.told => <<i, "read">> \in s.told,
         t.headers = s.headers, t.vary = s.vary, t.check = s.check \/ t.check.layer = 0,
         Contexts(t), Told(t), Ending(t), Written(t)
  PROVE  Proper(t)
<1>1. Untouched(t) /\ Looks(t)
  BY DEF Untouched, Looks
<1>2. Body(t)
  BY DEF Proper, Body, UsedUp
<1>3. Judged(t)
  BY NothingJudged, JudgedKept DEF Proper
<1>4. Granted(t) /\ Vouched(t)
  BY GrantedKept, VouchedKept DEF Proper
<1> QED BY <1>1, <1>2, <1>3, <1>4 DEF Proper

LEMMA RecoversKeeps ==
  ASSUME Orderly, NEW r \in Requests, Recovers(r)
  PROVE  Orderly'
<1>1. PICK s : s = req[r]
  OBVIOUS
<1>2. At(r, "panic", "recover")
  BY DEF Recovers
<1>3. /\ Shaped /\ s \in Serving /\ Proper(s) /\ s.way = "panic" /\ s.at \in DOMAIN chain
      /\ s.at > 0 /\ s.at <= Len(chain) /\ chain[s.at].mw = "recover"
  BY <1>1, <1>2, AtLayerUp
<1>4. PICK told : told = s.told \cup {<<s.at, "panic">>}
  OBVIOUS
<1>5. told \in Tellings
  <2>1. <<s.at, "panic">> \in Tellable
    BY <1>1, <1>2, <1>3 DEF At, Tellable, LayersOf
  <2> QED BY <1>3, <1>4, <2>1 DEF Serving, Tellings
<1>6. PICK u : u = [s EXCEPT !.told = told]
  OBVIOUS
<1>7. u \in Serving
  BY <1>3, <1>5, <1>6 DEF Serving
<1>8. /\ u.told = told /\ u.at = s.at /\ u.ip = s.ip
      /\ u.limited = s.limited /\ u.err = s.err /\ u.deadline = s.deadline
      /\ u.headers = s.headers /\ u.vary = s.vary /\ u.q = s.q /\ u.got = s.got
      /\ u.exceeded = s.exceeded /\ u.fate = s.fate /\ u.before = s.before
      /\ u.informed = s.informed /\ u.status = s.status /\ u.authors = s.authors
      /\ u.wrote = s.wrote
  BY <1>3, <1>6 DEF Serving
<1>9. PICK v : v = IF s.at \in s.wrote THEN u ELSE Answered(u, 500, "recover")
  OBVIOUS
<1>10. PICK t : t = Up(v)
  OBVIOUS
<1>11. Become(r, t)
  BY <1>1, <1>4, <1>6, <1>8, <1>9, <1>10 DEF Recovers
<1>12. /\ v \in Serving /\ v.told = u.told /\ v.at = u.at /\ v.ip = u.ip
       /\ v.limited = u.limited /\ v.err = u.err /\ v.deadline = u.deadline
       /\ v.headers = u.headers /\ v.vary = u.vary /\ v.q = u.q /\ v.got = u.got
       /\ v.exceeded = u.exceeded /\ v.fate = u.fate /\ v.before = u.before
       /\ v.informed = u.informed
       /\ v.status = (IF s.at \in s.wrote \/ u.status # 0 THEN u.status ELSE 500)
       /\ v.authors = (IF s.at \in s.wrote THEN u.authors ELSE u.authors \cup {"recover"})
  <2>1. 500 \in Statuses /\ "recover" \in Writers
    BY DEF Statuses, Writers
  <2>2. CASE s.at \in s.wrote
    BY <1>7, <1>9, <2>2
  <2>3. CASE s.at \notin s.wrote
    <3>1. v = Answered(u, 500, "recover")
      BY <1>9, <2>3
    <3> QED BY <1>3, <1>7, <2>1, <2>3, <3>1, AnsweredIs
  <2> QED BY <2>2, <2>3
<1>13. v.at = s.at /\ v.at > 0
  BY <1>3, <1>8, <1>12
<1>14. /\ t \in Serving /\ t.way = "up" /\ t.at = v.at - 1 /\ t.check = NoCheck /\ SameSoFar(v, t)
       /\ t.ip = v.ip /\ t.limited = v.limited /\ t.err = v.err /\ t.deadline = v.deadline
       /\ t.headers = v.headers /\ t.vary = v.vary
  BY <1>3, <1>10, <1>12, <1>13, OneUp
<1>15. /\ t.told = v.told /\ t.q = v.q /\ t.got = v.got /\ t.exceeded = v.exceeded
       /\ t.fate = v.fate /\ t.before = v.before /\ t.informed = v.informed
       /\ t.status = v.status /\ t.authors = v.authors
  BY <1>14 DEF SameSoFar
<1>16. /\ t.at = s.at - 1 /\ t.told = told /\ t.ip = s.ip /\ t.limited = s.limited
       /\ t.err = s.err /\ t.deadline = s.deadline /\ t.headers = s.headers /\ t.vary = s.vary
       /\ t.q = s.q /\ t.got = s.got /\ t.exceeded = s.exceeded /\ t.fate = s.fate
       /\ t.before = s.before /\ t.informed = s.informed
       /\ t.status = (IF s.at \in s.wrote \/ s.status # 0 THEN s.status ELSE 500)
       /\ t.authors = (IF s.at \in s.wrote THEN s.authors ELSE s.authors \cup {"recover"})
  BY <1>8, <1>12, <1>13, <1>14, <1>15
<1>17. s.err[s.at] = "none" /\ s.at \in Int /\ \A i \in DOMAIN chain : i \in Int
  BY <1>3 DEF Proper, Contexts, Shaped
<1>18. Contexts(t)
  <2>1. \A i \in DOMAIN chain : s.err[i] = "live" /\ i <= s.at => i <= t.at
    BY <1>16, <1>17
  <2> QED BY <1>3, <1>16, <2>1, ContextsKept DEF Proper
<1>19. Told(t)
  <2>1. \A i : UnwoundBy(t, i) <=> UnwoundBy(s, i)
    BY <1>16 DEF UnwoundBy
  <2>2. \A i \in DOMAIN chain : <<i, "timeout">> \in t.told <=> <<i, "timeout">> \in s.told
    BY <1>4, <1>16
  <2>3. \A i \in DOMAIN chain : i > t.at => i > s.at \/ i = s.at
    BY <1>16, <1>17
  <2>4. Told(s) /\ t.err = s.err /\ t.deadline = s.deadline /\ s.err[s.at] = "none"
    BY <1>3, <1>16, <1>17 DEF Proper
  <2>5. ASSUME NEW i \in DOMAIN chain, i > t.at, t.err[i] = "deadline", ~UnwoundBy(t, i)
        PROVE  <<i, "timeout">> \in t.told
    <3>1. i > s.at /\ s.err[i] = "deadline" /\ ~UnwoundBy(s, i)
      BY <2>1, <2>3, <2>4, <2>5
    <3> QED BY <2>2, <2>4, <3>1 DEF Told
  <2>6. ASSUME NEW i \in DOMAIN chain, <<i, "timeout">> \in t.told
        PROVE  t.deadline[i] <= now /\ ~UnwoundBy(t, i)
    BY <2>1, <2>2, <2>4, <2>6 DEF Told
  <2> QED BY <2>5, <2>6 DEF Told
<1>20. s.fate = "panic"
  BY <1>3 DEF Proper, Ending
<1>21. Ending(t)
  <2>1. s.at > t.at /\ t.at <= Len(chain)
    BY <1>3, <1>16, <1>17 DEF Shaped
  <2> QED BY <1>3, <1>14, <1>16, <1>20, <2>1 DEF Ending
<1>22. Written(t)
  <2>1. Sent(s) /\ s.before = s.status
    BY <1>3 DEF Proper, Written
  <2>2. CASE s.at \in s.wrote
    <3>1. s.authors # {} \/ s.informed
      BY <2>1, <2>2 DEF Sent
    <3>2. t.authors \subseteq {"handler"} /\ "handler" \in Writers
      BY <1>16, <2>1, <2>2 DEF Sent, Writers
    <3>3. t.status = s.status /\ (s.status = 0 => s.informed)
      BY <1>16, <2>1, <2>2, <3>1 DEF Sent
    <3> QED BY <1>14, <1>16, <2>1, <3>2, <3>3 DEF Written
  <2>3. CASE s.at \notin s.wrote
    <3>1. s.authors = {} /\ ~s.informed /\ s.status = 0
      BY <1>3, <2>1, <2>3 DEF Sent
    <3>2. t.authors = {"recover"} /\ t.status = 500 /\ "recover" \in Writers
      BY <1>16, <2>3, <3>1 DEF Writers
    <3> QED BY <1>14, <1>16, <2>1, <3>1, <3>2 DEF Written
  <2> QED BY <2>2, <2>3
<1>23. /\ t.check.layer = 0
       /\ \A i : <<i, "read">> \in t.told => <<i, "read">> \in s.told
  BY <1>4, <1>14, <1>16 DEF NoCheck
<1>24. Proper(t)
  BY <1>3, <1>14, <1>16, <1>18, <1>19, <1>21, <1>22, <1>23, PanicGoesOut
<1> QED BY <1>11, <1>14, <1>24, BecomeKeeps

LEMMA UnwindKeeps ==
  ASSUME Orderly, NEW r \in Requests, Unwind(r)
  PROVE  Orderly'
<1>1. PICK s : s = req[r]
  OBVIOUS
<1>2. /\ s.way \in {"panic", "abort"} /\ s.at > 0
      /\ s.way = "abort" \/ chain[s.at].mw # "recover"
  BY <1>1 DEF Unwind
<1>3. Shaped /\ s \in Serving /\ Proper(s)
  BY <1>1, <1>2, BeingServed DEF Orderly
<1>4. /\ s.at \in Int /\ s.at <= Len(chain) /\ s.at \in DOMAIN chain /\ s.fate = s.way
      /\ \A i \in DOMAIN chain : i \in Int
  <2>1. s.at <= Len(chain) /\ s.fate = s.way
    BY <1>2, <1>3 DEF Proper, Ending
  <2>2. s.at \in Int /\ DOMAIN chain = 1..Len(chain)
    BY <1>3 DEF Shaped, Serving, Places
  <2> QED BY <1>2, <1>3, <2>1, <2>2 DEF Shaped
<1>5. PICK u : u = IF chain[s.at].mw = "timeout" THEN Ended(s, s.at, "canceled") ELSE s
  OBVIOUS
<1>6. /\ u \in Serving /\ SameButTime(s, u) /\ Contexts(u) /\ u.err[s.at] # "live"
      /\ \A j \in DOMAIN chain : j > s.at => s.err[j] # "live" /\ u.err[j] = s.err[j]
  <2>1. \A j \in DOMAIN chain : j > s.at => s.err[j] # "live"
    BY <1>3, <1>4 DEF Proper, Contexts
  <2>2. CASE chain[s.at].mw = "timeout"
    <3>1. u = Ended(s, s.at, "canceled")
      BY <1>5, <2>2
    <3>2. /\ u \in Serving /\ SameButTime(s, u)
          /\ \A j \in DOMAIN chain :
               u.err[j] = IF j >= s.at /\ s.err[j] = "live" THEN "canceled" ELSE s.err[j]
      BY <1>3, <3>1, EndedIs
    <3>3. Contexts(u)
      BY <1>3, <1>4, <3>1, EndedContexts DEF Proper
    <3> QED BY <1>4, <2>1, <3>2, <3>3
  <2>3. CASE chain[s.at].mw # "timeout"
    <3>1. u = s
      BY <1>5, <2>3
    <3>2. s.err[s.at] = "none"
      BY <1>3, <1>4, <2>3 DEF Proper, Contexts
    <3> QED BY <1>3, <2>1, <3>1, <3>2 DEF Proper, SameButTime, SameSoFar
  <2> QED BY <2>2, <2>3
<1>7. PICK at : at = s.at - 1
  OBVIOUS
<1>8. PICK t : t = [u EXCEPT !.at = at]
  OBVIOUS
<1>9. Become(r, t)
  <2>1. u.at = s.at
    BY <1>6 DEF SameButTime
  <2>2. t = [u EXCEPT !.at = @ - 1]
    BY <1>6, <1>7, <1>8, <2>1 DEF Serving
  <2> QED BY <1>1, <1>5, <2>2 DEF Unwind
<1>10. t \in Serving
  <2>1. at \in Places
    BY <1>2, <1>3, <1>4, <1>7 DEF Places, Shaped
  <2> QED BY <1>6, <1>8, <2>1 DEF Serving
<1>11. /\ t.at = at /\ t.told = u.told /\ t.ip = u.ip /\ t.limited = u.limited
       /\ t.err = u.err /\ t.deadline = u.deadline /\ t.headers = u.headers /\ t.vary = u.vary
       /\ t.q = u.q /\ t.got = u.got /\ t.exceeded = u.exceeded /\ t.fate = u.fate
       /\ t.before = u.before /\ t.informed = u.informed /\ t.status = u.status
       /\ t.authors = u.authors /\ t.wrote = u.wrote /\ t.check = u.check /\ t.way = u.way
  BY <1>6, <1>8 DEF Serving
<1>12. /\ t.at = s.at - 1 /\ t.told = s.told /\ t.ip = s.ip /\ t.limited = s.limited
       /\ t.deadline = s.deadline /\ t.headers = s.headers /\ t.vary = s.vary
       /\ t.q = s.q /\ t.got = s.got /\ t.exceeded = s.exceeded /\ t.fate = s.fate
       /\ t.before = s.before /\ t.informed = s.informed /\ t.status = s.status
       /\ t.authors = s.authors /\ t.wrote = s.wrote /\ t.check = s.check /\ t.way = s.way
  BY <1>6, <1>7, <1>11 DEF SameButTime, SameSoFar
<1>13. Contexts(t)
  <2>1. u.at = s.at
    BY <1>6 DEF SameButTime
  <2>2. \A i \in DOMAIN chain : u.err[i] = "live" /\ i <= u.at => i <= t.at
    BY <1>4, <1>6, <1>12, <2>1
  <2> QED BY <1>6, <1>11, <2>2, ContextsKept
<1>14. UnwoundBy(s, s.at)
  <2>1. CASE s.way = "abort"
    BY <1>4, <2>1 DEF UnwoundBy
  <2>2. CASE s.way = "panic"
    <3>1. \A j \in DOMAIN chain : j > s.at => chain[j].mw # "recover"
      BY <1>3, <2>2 DEF Proper, Ending
    <3>2. \A j \in s.at..Len(chain) : j \in DOMAIN chain /\ (j > s.at \/ j = s.at)
      BY <1>2, <1>3, <1>4 DEF Shaped
    <3>3. chain[s.at].mw # "recover"
      BY <1>2, <2>2
    <3>4. \A j \in s.at..Len(chain) : chain[j].mw # "recover"
      BY <3>1, <3>2, <3>3
    <3> QED BY <1>4, <2>2, <3>4 DEF UnwoundBy
  <2> QED BY <1>2, <2>1, <2>2
<1>15. Told(t)
  <2>1. \A i : UnwoundBy(t, i) <=> UnwoundBy(s, i)
    BY <1>12 DEF UnwoundBy
  <2>2. Told(s)
    BY <1>3 DEF Proper
  <2>3. ASSUME NEW i \in DOMAIN chain, i > t.at, t.err[i] = "deadline", ~UnwoundBy(t, i)
        PROVE  <<i, "timeout">> \in t.told
    <3>1. i # s.at /\ ~UnwoundBy(s, i)
      BY <1>14, <2>1, <2>3
    <3>2. i > s.at
      BY <1>4, <1>12, <2>3, <3>1
    <3>3. s.err[i] = "deadline"
      BY <1>6, <1>11, <2>3, <3>2
    <3> QED BY <1>12, <2>2, <3>1, <3>2, <3>3 DEF Told
  <2>4. ASSUME NEW i \in DOMAIN chain, <<i, "timeout">> \in t.told
        PROVE  t.deadline[i] <= now /\ ~UnwoundBy(t, i)
    BY <1>12, <2>1, <2>2, <2>4 DEF Told
  <2> QED BY <2>3, <2>4 DEF Told
<1>16. Ending(t)
  <2>1. t.at <= Len(chain) /\ Len(chain) \in Nat
    BY <1>3, <1>4, <1>12 DEF Shaped
  <2>2. t.way = "panic" => \A j \in DOMAIN chain : j > t.at => chain[j].mw # "recover"
    <3> SUFFICES ASSUME t.way = "panic", NEW j \in DOMAIN chain, j > t.at
                 PROVE  chain[j].mw # "recover"
      OBVIOUS
    <3>1. j > s.at \/ j = s.at
      BY <1>4, <1>12
    <3> QED BY <1>2, <1>3, <1>12, <3>1 DEF Proper, Ending
  <2> QED BY <1>2, <1>4, <1>12, <2>1, <2>2 DEF Ending
<1>17. Written(t)
  <2>1. Written(s)
    BY <1>3 DEF Proper
  <2> QED BY <1>2, <1>12, <2>1 DEF Written, Sent
<1>18. s.way \in {"up", "panic", "abort"} /\ t.way \notin {"down", "guard"}
  BY <1>2, <1>12
<1>19. Proper(t)
  BY <1>3, <1>10, <1>12, <1>13, <1>15, <1>16, <1>17, <1>18, PanicGoesOut
<1> QED BY <1>9, <1>10, <1>19, BecomeKeeps

LEMMA FinishKeeps ==
  ASSUME Orderly, NEW r \in Requests, Finish(r)
  PROVE  Orderly'
<1>1. PICK s : s = req[r]
  OBVIOUS
<1>2. s.way \in {"up", "panic", "abort"} /\ s.at = 0
  BY <1>1 DEF Finish
<1>3. Shaped /\ s \in Serving /\ Proper(s)
  BY <1>1, <1>2, BeingServed DEF Orderly
<1>4. PICK way, status : /\ way = IF s.way = "up" THEN "done" ELSE "aborted"
                         /\ status = IF s.way = "up" /\ s.status = 0 THEN 200 ELSE s.status
  OBVIOUS
<1>5. PICK t : t = [s EXCEPT !.way = way, !.status = status]
  OBVIOUS
<1>6. Become(r, t)
  <2>1. CASE s.way = "up"
    <3>1. t = [s EXCEPT !.way = "done", !.status = IF @ = 0 THEN 200 ELSE @]
      BY <1>3, <1>4, <1>5, <2>1 DEF Serving
    <3> QED BY <1>1, <2>1, <3>1 DEF Finish
  <2>2. CASE s.way # "up"
    <3>1. t = [s EXCEPT !.way = "aborted"]
      BY <1>3, <1>4, <1>5, <2>2 DEF Serving
    <3> QED BY <1>1, <2>2, <3>1 DEF Finish
  <2> QED BY <2>1, <2>2
<1>7. t \in Serving
  <2>1. s.status \in Statuses
    BY <1>3 DEF Serving
  <2>2. way \in Ways /\ status \in Statuses
    BY <1>4, <2>1 DEF Ways, Statuses
  <2> QED BY <1>3, <1>5, <2>2 DEF Serving
<1>8. /\ t.at = s.at /\ t.told = s.told /\ t.ip = s.ip /\ t.limited = s.limited
      /\ t.err = s.err /\ t.deadline = s.deadline /\ t.headers = s.headers /\ t.vary = s.vary
      /\ t.q = s.q /\ t.got = s.got /\ t.exceeded = s.exceeded /\ t.fate = s.fate
      /\ t.before = s.before /\ t.informed = s.informed /\ t.status = status
      /\ t.authors = s.authors /\ t.wrote = s.wrote /\ t.check = s.check /\ t.way = way
  BY <1>3, <1>5 DEF Serving
<1>9. Contexts(t)
  BY <1>3, <1>8, ContextsKept DEF Proper
<1>10. Told(t)
  BY <1>3, <1>8 DEF Proper, Told, UnwoundBy
<1>11. Ending(t)
  <2>1. Ending(s) /\ \A j \in DOMAIN chain : j > s.at
    BY <1>2, <1>3 DEF Proper, Shaped
  <2>2. CASE s.way = "up"
    BY <1>2, <1>4, <1>8, <2>1, <2>2 DEF Ending
  <2>3. CASE s.way = "panic"
    BY <1>2, <1>4, <1>8, <2>1, <2>3 DEF Ending
  <2>4. CASE s.way = "abort"
    BY <1>2, <1>4, <1>8, <2>1, <2>4 DEF Ending
  <2> QED BY <1>2, <2>2, <2>3, <2>4
<1>12. Written(t)
  <2>1. Written(s)
    BY <1>3 DEF Proper
  <2> QED BY <1>2, <1>4, <1>8, <2>1 DEF Written, Befores
<1>13. t.way \notin {"down", "guard"}
  BY <1>4, <1>8
<1>14. Proper(t)
  BY <1>2, <1>3, <1>7, <1>8, <1>9, <1>10, <1>11, <1>12, <1>13, PanicGoesOut
<1> QED BY <1>6, <1>7, <1>14, BecomeKeeps

-----------------------------------------------------------------------------
(* Requests, snapshots and time arrive *)

LEMMA ArriveKeeps ==
  ASSUME Orderly, NEW r \in Requests, Arrive(r)
  PROVE  Orderly'
<1>1. PICK q \in Inputs : Become(r, NewRequest(q))
  BY DEF Arrive
<1>2. PICK t : t = NewRequest(q)
  OBVIOUS
<1>3. Shaped
  BY DEF Orderly
<1>4. /\ t.q = q /\ t.at = 1 /\ t.way = "down" /\ t.left = FALSE /\ t.ip = NoIP /\ t.id = "none"
      /\ t.err = [i \in DOMAIN chain |-> "none"] /\ t.deadline = [i \in DOMAIN chain |-> 0]
      /\ t.limited = {} /\ t.exceeded = {} /\ t.got = 0 /\ t.told = {} /\ t.wrote = {}
      /\ t.informed = FALSE /\ t.status = 0 /\ t.authors = {} /\ t.headers = {} /\ t.vary = {}
      /\ t.check = NoCheck /\ t.fate = "none" /\ t.before = 0
  BY <1>2 DEF NewRequest
<1>5. t \in Serving
  <2>1. /\ 1 \in Places /\ "down" \in Ways /\ NoIP \in Addresses /\ "none" \in IDs
        /\ "none" \in Fates /\ 0 \in Befores /\ 0 \in Statuses
    BY <1>3 DEF Places, Ways, Addresses, IDs, Fates, Befores, Statuses, Shaped
  <2>2. [i \in DOMAIN chain |-> "none"] \in Errs /\ [i \in DOMAIN chain |-> 0] \in Deadlines
    BY DEF Errs, Deadlines
  <2>3. /\ {} \in Limiting /\ {} \in Noticed /\ {} \in Tellings
        /\ {} \in Authors /\ {} \in Names /\ {} \in Varying
    BY DEF Limiting, Noticed, Tellings, Authors, Names, Varying
  <2>4. NoCheck \in Looking
    BY <1>3, NoCheckIsLooking
  <2> QED BY <1>2, <2>1, <2>2, <2>3, <2>4 DEF Serving, NewRequest
<1>6. Untouched(t)
  BY <1>4 DEF Untouched
<1>7. Contexts(t)
  BY <1>4 DEF Contexts
<1>8. Told(t) /\ Ending(t)
  BY <1>4 DEF Told, Ending
<1>9. Body(t)
  <2>1. q.body \in Nat
    BY HttpAssumption DEF IsRequest
  <2> QED BY <1>4, <2>1 DEF Body
<1>10. Written(t)
  BY <1>4 DEF Written, Sent, Writers
<1>11. Looks(t) /\ Judged(t)
  BY <1>4, NothingJudged DEF Looks, NoCheck
<1>12. Granted(t) /\ Vouched(t)
  BY <1>4 DEF Granted, Vouched
<1>13. Proper(t)
  BY <1>6, <1>7, <1>8, <1>9, <1>10, <1>11, <1>12 DEF Proper
<1> QED BY <1>1, <1>2, <1>5, <1>13, BecomeKeeps

\* A guard that looks may have seen what has come into force.
LEMMA SeenIs ==
  ASSUME Shaped, NEW s \in Serving, NEW T \in SUBSET TokenSnaps, NEW A \in SUBSET IPSnaps
  PROVE  LET t == Seen(s, T, A)
         IN /\ t \in Serving /\ (s.way # "guard" => t = s)
            /\ SameSoFar(s, t) /\ t.at = s.at /\ t.way = s.way /\ t.ip = s.ip
            /\ t.limited = s.limited /\ t.err = s.err /\ t.deadline = s.deadline
            /\ t.headers = s.headers /\ t.vary = s.vary
            /\ t.check.layer = s.check.layer /\ t.check.verdict = s.check.verdict
            /\ t.check.token = s.check.token /\ t.check.ip = s.check.ip
            /\ s.check.sawTokens \subseteq t.check.sawTokens
            /\ s.check.sawIPs \subseteq t.check.sawIPs
            /\ s.way = "guard" => T \subseteq t.check.sawTokens /\ A \subseteq t.check.sawIPs
<1>1. CASE s.way # "guard"
  BY <1>1 DEF Seen, SameSoFar
<1>2. CASE s.way = "guard"
  <2>1. s.check \in Looking
    BY DEF Serving
  <2>2. PICK sawTokens, sawIPs : /\ sawTokens = s.check.sawTokens \cup T
                                 /\ sawIPs = s.check.sawIPs \cup A
    OBVIOUS
  <2>3. PICK c : c = [s.check EXCEPT !.sawTokens = sawTokens, !.sawIPs = sawIPs]
    OBVIOUS
  <2>4. c \in Looking
    <3>1. sawTokens \in SUBSET TokenSnaps /\ sawIPs \in SUBSET IPSnaps
      BY <2>1, <2>2 DEF Looking
    <3> QED BY <2>1, <2>3, <3>1 DEF Looking
  <2>5. PICK t : t = [s EXCEPT !.check = c]
    OBVIOUS
  <2>6. t = Seen(s, T, A)
    BY <1>2, <2>1, <2>2, <2>3, <2>5 DEF Seen, Serving, Looking
  <2>7. t \in Serving /\ t.check = c
    BY <2>4, <2>5 DEF Serving
  <2>8. SameSoFar(s, t)
    BY <2>5 DEF Serving, SameSoFar
  <2>9. /\ t.at = s.at /\ t.way = s.way /\ t.ip = s.ip
        /\ t.limited = s.limited /\ t.err = s.err /\ t.deadline = s.deadline
        /\ t.headers = s.headers /\ t.vary = s.vary
    BY <2>5 DEF Serving
  <2>10. /\ c.layer = s.check.layer /\ c.verdict = s.check.verdict
         /\ c.token = s.check.token /\ c.ip = s.check.ip
         /\ c.sawTokens = sawTokens /\ c.sawIPs = sawIPs
    BY <2>1, <2>3 DEF Looking
  <2> QED BY <1>2, <2>2, <2>6, <2>7, <2>8, <2>9, <2>10
<1> QED BY <1>1, <1>2

\* What one snapshot says remains said when others are seen as well.
LEMMA SaysMore ==
  ASSUME NEW s, NEW t, t.q = s.q, t.ip = s.ip,
         s.check.sawTokens \subseteq t.check.sawTokens, s.check.sawIPs \subseteq t.check.sawIPs
  PROVE  /\ \A v \in BOOLEAN : (TokenSays(s, v) => TokenSays(t, v)) /\ (IPSays(s, v) => IPSays(t, v))
         /\ ResolvedIP(t) = ResolvedIP(s)
BY DEF TokenSays, IPSays, ResolvedIP

\* The sets are replaced while guards look into them.
LEMMA SnapshotKeeps ==
  ASSUME Orderly, NEW T \in SUBSET TokenSnaps, NEW A \in SUBSET IPSnaps,
         tokens' \in T \/ tokens' = tokens, ips' \in A \/ ips' = ips,
         req' = [r \in Requests |-> Seen(req[r], T, A)], UNCHANGED <<chain, now>>
  PROVE  Orderly'
<1>1. Shaped /\ chain' = chain /\ now' = now
  BY DEF Orderly
<1>2. Seen(Idle, T, A) = Idle
  BY DEF Seen, Idle
<1>3. ASSUME NEW r \in Requests
      PROVE  req'[r] \in Serving \cup {Idle}
  <2>1. req'[r] = Seen(req[r], T, A) /\ req[r] \in Serving \cup {Idle}
    BY <1>1 DEF Shaped
  <2> QED BY <1>1, <1>2, <2>1, SeenIs
<1>4. Shaped'
  <2>1. Serving' = Serving
    BY <1>1 DEF Serving, Looking, Places, Errs, Deadlines, Limiting, Noticed, Tellings, LayersOf,
                Tellable
  <2>2. req' \in [Requests -> Serving \cup {Idle}]
    BY <1>3
  <2>3. tokens' \in TokenSnaps /\ ips' \in IPSnaps
    BY <1>1 DEF Shaped
  <2> QED BY <1>1, <2>1, <2>2, <2>3 DEF Shaped
<1>5. ASSUME NEW r \in Requests, NEW t, t = req'[r], t.way # "idle"
      PROVE  Proper(t)'
  <2>1. PICK s : s = req[r]
    OBVIOUS
  <2>2. t = Seen(s, T, A)
    BY <1>5, <2>1
  <2>3. s \in Serving /\ Proper(s)
    <3>1. s # Idle
      BY <1>2, <1>5, <2>1, <2>2 DEF Idle
    <3>2. s \in Serving
      BY <1>1, <2>1, <3>1 DEF Shaped
    <3>3. s.way # "idle"
      BY <3>2 DEF Serving, Ways
    <3> QED BY <2>1, <3>2, <3>3, BeingServed
  <2>4. CASE s.way # "guard"
    <3>1. t = s
      BY <1>1, <2>2, <2>3, <2>4, SeenIs
    <3>2. Looks(s)'
      BY <2>4 DEF Looks
    <3>3. Proper(s)'
      BY <1>1, <2>3, <3>2, ChainOnly DEF Proper
    <3> QED BY <3>1, <3>3
  <2>5. CASE s.way = "guard"
    <3>1. /\ t \in Serving
          /\ SameSoFar(s, t) /\ t.at = s.at /\ t.way = s.way /\ t.ip = s.ip
          /\ t.limited = s.limited /\ t.err = s.err /\ t.deadline = s.deadline
          /\ t.headers = s.headers /\ t.vary = s.vary
          /\ t.check.layer = s.check.layer /\ t.check.verdict = s.check.verdict
          /\ t.check.token = s.check.token /\ t.check.ip = s.check.ip
          /\ s.check.sawTokens \subseteq t.check.sawTokens
          /\ s.check.sawIPs \subseteq t.check.sawIPs
          /\ T \subseteq t.check.sawTokens /\ A \subseteq t.check.sawIPs
      BY <1>1, <2>2, <2>3, <2>5, SeenIs
    <3>2. t.q = s.q
      BY <3>1 DEF SameSoFar
    <3>3. /\ \A v \in BOOLEAN : (TokenSays(s, v) => TokenSays(t, v)) /\ (IPSays(s, v) => IPSays(t, v))
          /\ ResolvedIP(t) = ResolvedIP(s)
      BY <3>1, <3>2, SaysMore
    <3>4. Looks(s) /\ Kind(s.at, "guard") /\ s.check.verdict = "none"
      BY <2>3, <2>5 DEF Proper, Looks, Untouched
    <3>5. tokens' \in t.check.sawTokens /\ ips' \in t.check.sawIPs
      BY <2>5, <3>1, <3>4 DEF Looks
    <3>6. /\ TokenSays(t, TRUE)' <=> TokenSays(t, TRUE)
          /\ TokenSays(t, FALSE)' <=> TokenSays(t, FALSE)
          /\ IPSays(t, TRUE)' <=> IPSays(t, TRUE)
          /\ IPSays(t, FALSE)' <=> IPSays(t, FALSE)
      BY DEF TokenSays, IPSays
    <3>7. Looks(t)'
      <4>1. Guard(t)' = Guard(s)
        BY <1>1, <3>1 DEF Guard
      <4>2. /\ t.check.layer = t.at /\ t.check.verdict = "none" /\ ~Guard(s).check
        BY <2>5, <3>1, <3>4 DEF Looks
      <4>3. /\ t.check.token = "off" <=> ~Guard(s).token
            /\ t.check.token \in {"asked", "nonempty"} => Len(t.q.token) = 1 /\ t.q.token[1] # ""
            /\ t.check.token = "ok" => TokenSays(t, TRUE)
            /\ t.check.token \notin {"off", "asked", "nonempty", "ok"} => TokenSays(t, FALSE)
        BY <2>5, <3>1, <3>2, <3>3, <3>4 DEF Looks
      <4>4. /\ t.check.ip = "off" <=> ~Guard(s).ip
            /\ t.check.ip \in {"asked", "nonempty"} => ResolvedIP(t) # NoIP
            /\ t.check.ip = "ok" => IPSays(t, TRUE)
            /\ t.check.ip \notin {"off", "asked", "nonempty", "ok"} => IPSays(t, FALSE)
        BY <2>5, <3>1, <3>3, <3>4 DEF Looks
      <4> QED BY <3>5, <3>6, <4>1, <4>2, <4>3, <4>4 DEF Looks
    <3>8. /\ Untouched(t) /\ Contexts(t) /\ Told(t) /\ Ending(t) /\ Body(t) /\ Written(t)
          /\ Judged(t) /\ Granted(t) /\ Vouched(t)
      <4>1. Untouched(t) /\ Ending(t)
        BY <2>3, <3>1 DEF Proper, Untouched, Ending, SameSoFar
      <4>2. Contexts(t) /\ Granted(t) /\ Vouched(t)
        BY <2>3, <3>1, <3>2, ContextsKept, GrantedKept, VouchedKept DEF Proper, SameSoFar
      <4>3. Told(t)
        BY <2>3, <3>1 DEF Proper, Told, UnwoundBy, SameSoFar
      <4>4. Body(t) /\ Written(t)
        BY <2>3, <3>1 DEF Proper, Body, UsedUp, Written, Sent, SameSoFar
      <4>5. Judged(t)
        BY <3>1, <3>4 DEF Judged
      <4> QED BY <4>1, <4>2, <4>3, <4>4, <4>5
    <3> QED BY <1>1, <3>7, <3>8, ChainOnly DEF Proper
  <2> QED BY <2>4, <2>5
<1>6. ASSUME NEW r \in Served'
      PROVE  Proper(req[r])'
  BY <1>5, <1>6 DEF Served
<1> QED BY <1>4, <1>6 DEF Orderly

LEMMA UpdatesKeep ==
  ASSUME Orderly, UpdateTokens \/ UpdateIPs
  PROVE  Orderly'
<1>1. CASE UpdateTokens
  <2>1. PICK snap \in {Updated(entries) : entries \in TokenUpdates} \cup {AllowAll} :
           tokens' = snap /\ req' = [r \in Requests |-> Seen(req[r], {snap}, {})]
    BY <1>1 DEF UpdateTokens
  <2>2. UNCHANGED <<chain, now, ips>>
    BY <1>1 DEF UpdateTokens
  <2>3. {snap} \in SUBSET TokenSnaps /\ {} \in SUBSET IPSnaps
    BY DEF TokenSnaps
  <2>4. tokens' \in {snap}
    BY <2>1
  <2> QED BY <2>1, <2>2, <2>3, <2>4, SnapshotKeeps
<1>2. CASE UpdateIPs
  <2>1. PICK snap \in {Updated(entries) : entries \in IPUpdates} \cup {AllowAll} :
           ips' = snap /\ req' = [r \in Requests |-> Seen(req[r], {}, {snap})]
    BY <1>2 DEF UpdateIPs
  <2>2. UNCHANGED <<chain, now, tokens>>
    BY <1>2 DEF UpdateIPs
  <2>3. {snap} \in SUBSET IPSnaps /\ {} \in SUBSET TokenSnaps
    BY DEF IPSnaps
  <2>4. ips' \in {snap}
    BY <2>1
  <2> QED BY <2>1, <2>2, <2>3, <2>4, SnapshotKeeps
<1> QED BY <1>1, <1>2

\* Deadlines that are over stay over.
LEMMA TickKeeps ==
  ASSUME Orderly, Tick
  PROVE  Orderly'
<1>1. /\ now \in Int /\ now' = now + 1 /\ now < MaxTime /\ chain' = chain /\ tokens' = tokens
      /\ ips' = ips /\ req' = req /\ Shaped
  BY DEF Tick, Orderly, Shaped
<1>2. Shaped'
  <2>1. Serving' = Serving
    BY <1>1 DEF Serving, Looking, Places, Errs, Deadlines, Limiting, Noticed, Tellings, LayersOf,
                Tellable
  <2>2. now' \in 0..MaxTime
    BY <1>1, HttpAssumption DEF Shaped
  <2> QED BY <1>1, <2>1, <2>2 DEF Shaped
<1>3. ASSUME NEW x \in Serving, Proper(x)
      PROVE  Proper(x)'
  <2>1. \A i \in DOMAIN chain : x.deadline[i] \in Int
    BY <1>3 DEF Serving, Deadlines
  <2>2. \A i \in DOMAIN chain : x.deadline[i] <= now => x.deadline[i] <= now'
    BY <1>1, <2>1
  <2>3. Contexts(x)'
    BY <1>1, <1>3, <2>2 DEF Proper, Contexts
  <2>4. Told(x)'
    BY <1>1, <1>3, <2>2 DEF Proper, Told, UnwoundBy
  <2> QED BY <1>1, <1>3, <2>3, <2>4, ChainOnly DEF Proper
<1>4. ASSUME NEW r \in Served'
      PROVE  Proper(req[r])'
  <2>1. r \in Requests /\ req[r].way # "idle"
    BY <1>1, <1>4 DEF Served
  <2>2. req[r] \in Serving /\ Proper(req[r])
    BY <2>1, BeingServed
  <2>3. PICK x : x = req[r]
    OBVIOUS
  <2>4. Proper(x)'
    BY <1>3, <2>2, <2>3
  <2> QED BY <1>1, <2>3, <2>4
<1> QED BY <1>2, <1>4 DEF Orderly

LEMMA InitOrderly == Init => Orderly
<1> SUFFICES ASSUME Init PROVE Orderly
  OBVIOUS
<1>1. PICK layers \in Chains : chain = Chain(layers)
  BY DEF Init
<1>2. /\ Len(chain) \in Nat /\ DOMAIN chain = 1..Len(chain)
      /\ \A i \in DOMAIN chain : IsLayer(chain[i])
  BY <1>1, HttpAssumption
<1>3. now \in 0..MaxTime
  BY HttpAssumption DEF Init
<1>4. tokens \in TokenSnaps /\ ips \in IPSnaps
  BY DEF Init, TokenSnaps, IPSnaps
<1>5. req \in [Requests -> Serving \cup {Idle}]
  BY DEF Init
<1>6. Served = {}
  BY DEF Init, Served, Idle
<1> QED BY <1>2, <1>3, <1>4, <1>5, <1>6 DEF Orderly, Shaped

\* Nothing happens.
LEMMA StutterOrderly ==
  ASSUME Orderly, UNCHANGED vars
  PROVE  Orderly'
<1>1. /\ now' = now /\ chain' = chain /\ tokens' = tokens /\ ips' = ips /\ req' = req
      /\ Shaped
  BY DEF vars, Orderly
<1>2. Shaped'
  <2>1. Serving' = Serving
    BY <1>1 DEF Serving, Looking, Places, Errs, Deadlines, Limiting, Noticed, Tellings, LayersOf,
                Tellable
  <2> QED BY <1>1, <2>1 DEF Shaped
<1>3. ASSUME NEW x, Proper(x)
      PROVE  Proper(x)'
  BY <1>1, <1>3, ChainOnly DEF Proper
<1>4. ASSUME NEW r \in Served'
      PROVE  Proper(req[r])'
  <2>1. r \in Requests /\ req[r].way # "idle"
    BY <1>1, <1>4 DEF Served
  <2>2. PICK x : x = req[r]
    OBVIOUS
  <2>3. Proper(x)'
    BY <1>3, <2>1, <2>2, BeingServed
  <2> QED BY <1>1, <2>2, <2>3
<1> QED BY <1>2, <1>4 DEF Orderly

LEMMA StepOrderly == Orderly /\ [Next]_vars => Orderly'
<1> SUFFICES ASSUME Orderly, [Next]_vars PROVE Orderly'
  OBVIOUS
<1>1. ASSUME NEW r \in Requests, Arrive(r) PROVE Orderly'
  BY <1>1, ArriveKeeps
<1>2. ASSUME NEW r \in Requests, GoesDown(r) PROVE Orderly'
  BY <1>2, RequestIDKeeps, RealIPKeeps, PreflightKeeps, CorsKeeps, GuardBeginsKeeps,
     CustomCheckKeeps, EnterTimeoutKeeps, RejectLengthKeeps, EnterBodyLimitKeeps,
     EnterRecoverKeeps, Zenon DEF GoesDown
<1>3. ASSUME NEW r \in Requests, Checks(r) PROVE Orderly'
  BY <1>3, LooksAtSetsKeep, GuardDecidesKeeps, Zenon DEF Checks
<1>4. ASSUME NEW r \in Requests, Handles(r) PROVE Orderly'
  BY <1>4, HandlerReadsKeeps, HandlerInformsKeeps, HandlerWritesKeeps, HandlerReturnsKeeps,
     HandlerPanicsKeeps, Zenon DEF Handles
<1>5. ASSUME NEW r \in Requests, GoesUp(r) PROVE Orderly'
  BY <1>5, LeaveTimeoutKeeps, LeaveBodyLimitKeeps, LeaveLayerKeeps, RecoversKeeps, UnwindKeeps,
     FinishKeeps, Zenon DEF GoesUp
<1>6. ASSUME NEW r \in Requests, DeadlinePasses(r) \/ ClientLeaves(r) PROVE Orderly'
  BY <1>6, DeadlineKeeps, ClientLeavesKeeps
<1>7. CASE UpdateTokens \/ UpdateIPs
  BY <1>7, UpdatesKeep
<1>8. CASE Tick
  BY <1>8, TickKeeps
<1>9. CASE UNCHANGED vars
  BY <1>9, StutterOrderly
<1> QED BY <1>1, <1>2, <1>3, <1>4, <1>5, <1>6, <1>7, <1>8, <1>9, Zenon DEF Next

LEMMA AlwaysOrderly == Spec => []Orderly
BY InitOrderly, StepOrderly, PTL DEF Spec

-----------------------------------------------------------------------------
(* What follows from it *)

\* A request that is served, and what it says.
LEMMA ServedProper ==
  ASSUME Orderly, NEW r \in Served
  PROVE  /\ Shaped /\ req[r] \in Serving /\ Proper(req[r]) /\ req[r].at \in Int
         /\ \A i \in DOMAIN chain : i \in Int /\ i > 0
<1>1. r \in Requests /\ req[r].way # "idle"
  BY DEF Served
<1>2. Shaped /\ req[r] \in Serving /\ Proper(req[r])
  BY <1>1, BeingServed DEF Orderly
<1> QED BY <1>2 DEF Shaped, Serving, Places

\* Every request is at a layer of its chain on a known way, its contexts end as contexts end, and
\* contexts, readers, writers and hooks are those of layers of the right kind (all the middlewares).
THEOREM HttpTypeCorrect == Spec => []TypeOK
<1>1. ASSUME Orderly PROVE TypeOK
  <2>1. now \in 0..MaxTime
    BY <1>1 DEF Orderly, Shaped
  <2>2. ASSUME NEW r \in Served, NEW s, s = req[r]
        PROVE  /\ s.at \in 0..Len(chain) + 1
               /\ s.way \in {"down", "guard", "up", "panic", "abort", "done", "aborted"}
               /\ s.status \in {0, 200, 204, 403, 404, 413, 500}
               /\ \A i \in DOMAIN chain :
                    /\ s.err[i] \in {"none", "live", "deadline", "canceled"}
                    /\ s.err[i] = "live" => i <= s.at /\ chain[i].mw = "timeout"
               /\ s.wrote \subseteq LayersOf("recover")
               /\ s.limited \subseteq LayersOf("bodylimit")
               /\ s.exceeded \subseteq LayersOf("bodylimit")
               /\ s.told \subseteq Tellable
               /\ s.way = "guard" => s.check.layer = s.at
               /\ s.got <= s.q.body
    <3>1. s \in Serving /\ Proper(s)
      BY <1>1, <2>2, ServedProper
    <3>2. s.at \in 0..Len(chain) + 1
      BY <3>1 DEF Serving, Places
    <3>3. s.way \in {"down", "guard", "up", "panic", "abort", "done", "aborted"}
      BY <3>1 DEF Serving, Ways
    <3>4. s.status \in {0, 200, 204, 403, 404, 413, 500}
      BY <3>1 DEF Serving, Statuses
    <3>5. \A i \in DOMAIN chain : s.err[i] \in {"none", "live", "deadline", "canceled"}
      BY <3>1 DEF Serving, Errs
    <3>6. \A i \in DOMAIN chain : s.err[i] = "live" => i <= s.at /\ chain[i].mw = "timeout"
      BY <3>1 DEF Proper, Contexts
    <3>7. /\ s.wrote \subseteq LayersOf("recover")
          /\ s.limited \subseteq LayersOf("bodylimit") /\ s.exceeded \subseteq LayersOf("bodylimit")
          /\ s.told \subseteq Tellable
      BY <3>1 DEF Serving, Noticed, Limiting, Tellings
    <3>8. s.way = "guard" => s.check.layer = s.at
      BY <3>1 DEF Proper, Looks
    <3>9. s.got <= s.q.body
      BY <3>1 DEF Proper, Body
    <3> QED BY <3>2, <3>3, <3>4, <3>5, <3>6, <3>7, <3>8, <3>9
  <2> QED BY <2>1, <2>2 DEF TypeOK
<1> QED BY <1>1, AlwaysOrderly, PTL

\* A request whose handler panics under a Recover is answered, with 500 unless something was sent
\* before; an abort is never answered; and no answer has two authors (Recover in every chain).
THEOREM PanicsAreAnswered == Spec => []PanicAnswered
<1>1. ASSUME Orderly PROVE PanicAnswered
  <2> SUFFICES ASSUME NEW r \in Over, NEW s, s = req[r]
               PROVE  /\ Cardinality(s.authors) <= 1
                      /\ s.fate = "abort" => s.way = "aborted"
                      /\ (s.fate = "panic" /\ \E i \in DOMAIN chain : chain[i].mw = "recover") =>
                           /\ s.way = "done"
                           /\ s.status = IF s.before # 0 THEN s.before
                                         ELSE IF s.informed THEN 200 ELSE 500
    BY DEF PanicAnswered
  <2>1. r \in Served /\ s.way \in {"done", "aborted"}
    BY DEF Over, Served
  <2>2. /\ s \in Serving /\ Proper(s)
    BY <1>1, <2>1, ServedProper
  <2>3. Cardinality(s.authors) <= 1
    <3>1. PICK a \in Writers : s.authors \subseteq {a}
      BY <2>2 DEF Proper, Written
    <3>2. IsFiniteSet({a}) /\ Cardinality({a}) = 1
      BY FS_Singleton
    <3>3. Cardinality(s.authors) <= Cardinality({a})
      BY <3>1, <3>2, FS_Subset
    <3> QED BY <3>2, <3>3
  <2>4. s.fate = "abort" => s.way = "aborted"
    BY <2>1, <2>2 DEF Proper, Ending
  <2>5. ASSUME s.fate = "panic", \E i \in DOMAIN chain : chain[i].mw = "recover"
        PROVE  /\ s.way = "done"
               /\ s.status = IF s.before # 0 THEN s.before ELSE IF s.informed THEN 200 ELSE 500
    <3>1. s.way = "done"
      BY <2>1, <2>2, <2>5 DEF Proper, Ending
    <3> QED BY <2>2, <2>5, <3>1 DEF Proper, Written
  <2> QED BY <2>3, <2>4, <2>5
<1> QED BY <1>1, AlwaysOrderly, PTL

\* However many Timeouts and BodyLimits nest, and wherever they stand: a hook is told of every deadline
\* its layer returned after and of no other, no handler reads past the tightest limit, and a refused
\* read is reported by a limit inside one that is used up.
THEOREM LimitsAreHeld == Spec => []LimitsHold
<1>1. ASSUME Orderly PROVE LimitsHold
  <2>1. ASSUME NEW r \in Served, NEW i \in DOMAIN chain, NEW s, s = req[r]
        PROVE  /\ <<i, "timeout">> \in s.told => s.deadline[i] <= now /\ ~UnwoundBy(s, i)
               /\ (s.way = "done" /\ s.err[i] = "deadline" /\ ~UnwoundBy(s, i))
                    => <<i, "timeout">> \in s.told
    <3>1. s \in Serving /\ Proper(s) /\ i > 0
      BY <1>1, <2>1, ServedProper
    <3>2. s.way = "done" => i > s.at
      BY <3>1 DEF Proper, Ending
    <3> QED BY <3>1, <3>2 DEF Proper, Told
  <2>2. ASSUME NEW r \in Served, NEW s, s = req[r]
        PROVE  /\ \A i \in s.limited : s.got <= chain[i].limit
               /\ \A i \in DOMAIN chain : <<i, "read">> \in s.told =>
                    s.got < s.q.body /\ \E j \in s.limited : j <= i /\ s.got = chain[j].limit
    <3>1. Proper(s)
      BY <1>1, <2>2, ServedProper
    <3> QED BY <3>1 DEF Proper, Body, UsedUp
  <2>3. TimeoutTold
    BY <2>1 DEF TimeoutTold
  <2>4. BodyBounded
    BY <2>2 DEF BodyBounded
  <2> QED BY <2>3, <2>4 DEF LimitsHold
<1> QED BY <1>1, AlwaysOrderly, PTL

\* Whatever a guard decides, and however often the sets are replaced while it looks into them, a
\* snapshot that was in force meanwhile says it for each check that decided (AccessGuard).
THEOREM GuardsAreJustified == Spec => []GuardJustified
<1>1. ASSUME Orderly PROVE GuardJustified
  <2> SUFFICES ASSUME NEW r \in Served, NEW s, s = req[r]
               PROVE  Judged(s)
    BY DEF GuardJustified, Judged, TokenSays, IPSays
  <2> QED BY <1>1, ServedProper DEF Proper
<1> QED BY <1>1, AlwaysOrderly, PTL

\* Whatever headers a client sends through whatever proxies, the address it is given is its peer's, or
\* one a trusted peer vouches for (RealIP).
THEOREM AddressesAreVouched == Spec => []AddressVouched
<1>1. ASSUME Orderly PROVE AddressVouched
  <2> SUFFICES ASSUME NEW r \in Served, req[r].ip \notin {NoIP, ParseIP(req[r].q.peer)}
               PROVE  \E i \in DOMAIN chain :
                        /\ chain[i].mw = "realip" /\ req[r].q.peer \in chain[i].cfg.trusted
                        /\ Gives(chain[i].cfg, req[r].q, req[r].ip)
    BY Zenon DEF AddressVouched, Gives, ReachedBy
  <2>1. PICK i \in DOMAIN chain : Vouches(i, req[r].q, req[r].ip)
    BY <1>1, ServedProper DEF Proper, Vouched
  <2> QED BY <2>1 DEF Vouches, Kind
<1> QED BY <1>1, AlwaysOrderly, PTL

\* Whatever layers answer, access is granted to the one origin of the request only, if a configured
\* pattern covers it, and no handler sees a preflight that is answered (CORS).
THEOREM GrantsAreAllowed == Spec => []CorsGrantsAllowed
<1>1. ASSUME Orderly PROVE CorsGrantsAllowed
  <2>1. ASSUME NEW r \in Served, NEW s, s = req[r]
        PROVE  Granted(s)
    BY <1>1, <2>1, ServedProper DEF Proper
  <2> QED BY <2>1 DEF CorsGrantsAllowed, Granted, Allows, Kind
<1> QED BY <1>1, AlwaysOrderly, PTL
=============================================================================
