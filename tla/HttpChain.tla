------------------------------ MODULE HttpChain ------------------------------
(***************************************************************************)
(* A chain of httpx middlewares around a handler.  A request goes down the *)
(* layers to the handler and its return, or a panic, comes back up through *)
(* them; meanwhile deadlines pass, the client may leave, and the token and *)
(* address sets that AccessGuard looks into are replaced.                  *)
(*                                                                         *)
(* req[r] is what the goroutine that serves r holds: the request, the      *)
(* layer it is at (Len(chain) + 1: the handler) and the way it goes, what  *)
(* the layers have put in the context, and the response so far.            *)
(***************************************************************************)
EXTENDS Integers, Sequences, FiniteSets, SequencesExt, RealIP, AccessGuard, Cors

CONSTANTS
  Requests,
  Inputs,        \* what may arrive: method, origin, acrm, acrh, peer, headers, token, ids, length, body
  Chains,        \* the lists of layers the program may build, nil ones included
  NoLayer,       \* a nil middleware
  ValidIDs,      \* the incoming request ids the validator accepts
  TokenUpdates, IPUpdates,     \* the lists the sets may be updated to
  MaxTime        \* bound: the clock stops there

VARIABLES chain, now, tokens, ips, req

vars == <<chain, now, tokens, ips, req>>

\* Chain drops nil middlewares; the first one given is the outermost.
Chain(layers) == SelectSeq(layers, LAMBDA l : l # NoLayer)

\* What the constructors of the middlewares take and return: no one builds a guard that is refused.
\* Its logic and status are what the fold of any options gives.
IsLayer(l) ==
  /\ l.mw \in {"recover", "requestid", "realip", "cors", "guard", "timeout", "bodylimit"}
  /\ l.mw = "timeout" => l.d \in Int
  /\ l.mw = "bodylimit" => l.limit \in Int
  /\ l.mw = "requestid" => l.incoming \in Seq(STRING)
  /\ l.mw = "guard" =>
       /\ ~GuardRefused(l.options)
       /\ GuardOf(l.options).logic \in {"all", "any"} /\ GuardOf(l.options).status \in {403, 404}
  /\ l.mw = "realip" =>
       /\ l.cfg.trusted \subseteq IPs /\ l.cfg.headers \in Seq(STRING)
       /\ \A q \in Inputs : \A k \in DOMAIN l.cfg.headers :
            q.headers[l.cfg.headers[k]] \in Seq(STRING \cup IPs)
  /\ l.mw = "cors" =>
       \/ l.cfg.origins = AnyValue
       \/ \A p \in l.cfg.origins : p.base \in Seq(STRING)

IsRequest(q) ==
  /\ q.body \in Nat /\ q.length \in Int /\ q.token \in Seq(STRING)
  /\ Len(q.origin) = 1 => q.origin[1] \in {NoHost, NullOrigin, NoOrigin} \/ q.origin[1] \in Seq(STRING)

ASSUME HttpAssumption ==
  /\ MaxTime \in Nat
  /\ \A q \in Inputs : IsRequest(q)
  /\ \A layers \in Chains :
       /\ Len(Chain(layers)) \in Nat /\ DOMAIN Chain(layers) = 1..Len(Chain(layers))
       /\ \A i \in DOMAIN Chain(layers) : IsLayer(Chain(layers)[i])

NoCheck == [layer |-> 0, token |-> "off", ip |-> "off", verdict |-> "none",
            sawTokens |-> {}, sawIPs |-> {}]

NewRequest(q) ==
  [q |-> q, at |-> 1, way |-> "down", left |-> FALSE, ip |-> NoIP, id |-> "none",
   err |-> [i \in DOMAIN chain |-> "none"], deadline |-> [i \in DOMAIN chain |-> 0],
   limited |-> {}, exceeded |-> {}, got |-> 0, told |-> {},
   wrote |-> {}, informed |-> FALSE, status |-> 0, authors |-> {},
   headers |-> {}, vary |-> {}, check |-> NoCheck, fate |-> "none", before |-> 0]

Idle == [way |-> "idle"]

Init ==
  /\ chain \in {Chain(layers) : layers \in Chains}
  /\ now = 0
  /\ tokens = EmptySet
  /\ ips = EmptySet
  /\ req = [r \in Requests |-> Idle]

Become(r, s) == req' = [req EXCEPT ![r] = s] /\ UNCHANGED <<chain, now, tokens, ips>>

\* What a guard looked at is forgotten with the next layer.
Down(s) == [s EXCEPT !.at = @ + 1, !.way = "down", !.check = NoCheck]
Up(s)   == [s EXCEPT !.at = @ - 1, !.way = "up", !.check = NoCheck]

\* r is at a layer of this kind, on this way.
At(r, way, mw) ==
  req[r].way = way /\ req[r].at \in DOMAIN chain /\ chain[req[r].at].mw = mw

AtHandler(r) == req[r].way = "down" /\ req[r].at = Len(chain) + 1

\* The flags of the recoverResponseWriters that a write by the layer s is at goes through.
Marked(s) == [s EXCEPT !.wrote = @ \cup {i \in DOMAIN chain : i < s.at /\ chain[i].mw = "recover"}]

\* A final status; only the first one counts.
Answered(s, code, author) ==
  [Marked(s) EXCEPT !.status = IF @ = 0 THEN code ELSE @, !.authors = @ \cup {author}]

Arrive(r) ==
  /\ req[r].way = "idle"
  /\ \E q \in Inputs : Become(r, NewRequest(q))

-----------------------------------------------------------------------------
(* RequestID, RealIP, CORS *)

\* The id of the first of the headers l looks at that has exactly one value and a valid one, else a
\* generated one.
RequestIDOf(l, ids) ==
  LET valid == {n \in DOMAIN l.incoming :
                  Len(ids[l.incoming[n]]) = 1 /\ ids[l.incoming[n]][1] \in ValidIDs \ {""}}
  IN IF ~l.trust \/ valid = {} THEN "generated"
     ELSE ids[l.incoming[CHOOSE n \in valid : \A m \in valid : n <= m]][1]

EnterRequestID(r) ==
  /\ At(r, "down", "requestid")
  /\ LET s == req[r]
         l == chain[s.at]
     IN Become(r, Down([s EXCEPT !.id = RequestIDOf(l, s.q.ids),
                                 !.headers = @ \cup (IF l.set THEN {"X-Request-ID"} ELSE {})]))

\* WithRealIP keeps the context as it is when no address is found.
EnterRealIP(r) ==
  /\ At(r, "down", "realip")
  /\ LET s  == req[r]
         ip == ExtractRealIP(chain[s.at].cfg, s.q.peer, s.q.headers)
     IN Become(r, Down(IF ip = NoIP THEN s ELSE [s EXCEPT !.ip = ip]))

WithCorsHeaders(s) ==
  LET given == CorsHeaders(chain[s.at].cfg, s.q)
  IN [s EXCEPT !.headers = @ \cup given.names, !.vary = Vary(@, given.vary)]

\* The downstream layers never see a preflight that is allowed.
AnswerPreflight(r) ==
  /\ At(r, "down", "cors")
  /\ LET s == req[r]
     IN /\ AnswersPreflight(chain[s.at].cfg, s.q)
        /\ Become(r, Up(Answered(WithCorsHeaders(s), 204, "cors")))

EnterCors(r) ==
  /\ At(r, "down", "cors")
  /\ LET s == req[r]
         cfg == chain[s.at].cfg
     IN /\ ~AnswersPreflight(cfg, s.q)
        /\ Become(r, Down(IF GrantsAccess(cfg, s.q) THEN WithCorsHeaders(s) ELSE s))

-----------------------------------------------------------------------------
(* AccessGuard: each look into a set is a load of its own. *)

Guard(s) == GuardOf(chain[s.at].options)

\* The default resolver: the context's real IP, else the peer.
ResolvedIP(s) == IF s.ip # NoIP THEN s.ip ELSE ParseIP(s.q.peer)

GuardBegins(r) ==
  /\ At(r, "down", "guard")
  /\ ~Guard(req[r]).check
  /\ LET s    == req[r]
         why  == TokenHeaderWhy(s.q.token)
         token == IF ~Guard(s).token THEN "off" ELSE IF why = "ok" THEN "asked" ELSE why
         ip    == IF ~Guard(s).ip THEN "off"
                  ELSE IF ResolvedIP(s) = NoIP THEN "ip-parse-failed" ELSE "asked"
     IN Become(r, [s EXCEPT !.way = "guard",
                            !.check = [layer |-> s.at, token |-> token, ip |-> ip,
                                       verdict |-> "none",
                                       sawTokens |-> {tokens}, sawIPs |-> {ips}]])

LookIfTokensEmpty(r) ==
  /\ req[r].way = "guard" /\ req[r].check.token = "asked"
  /\ Become(r, [req[r] EXCEPT !.check.token =
                  IF IsEmpty(tokens) THEN "token-set-empty" ELSE "nonempty"])

LookForToken(r) ==
  /\ req[r].way = "guard" /\ req[r].check.token = "nonempty"
  /\ Become(r, [req[r] EXCEPT !.check.token =
                  IF Holds(tokens, req[r].q.token[1]) THEN "ok" ELSE "token-not-allowed"])

TokenChecked(r) == req[r].way = "guard" /\ req[r].check.token \notin {"asked", "nonempty"}

LookIfListEmpty(r) ==
  /\ TokenChecked(r) /\ req[r].check.ip = "asked"
  /\ Become(r, [req[r] EXCEPT !.check.ip =
                  IF IsEmpty(ips) THEN "ip-allowlist-empty" ELSE "nonempty"])

LookForIP(r) ==
  /\ TokenChecked(r) /\ req[r].check.ip = "nonempty"
  /\ Become(r, [req[r] EXCEPT !.check.ip =
                  IF Holds(ips, ResolvedIP(req[r])) THEN "ok" ELSE "ip-not-allowed"])

Denied(s, why) ==
  [Up(Answered(s, Guard(s).status, "guard")) EXCEPT !.check = [s.check EXCEPT !.verdict = why]]

GuardDecides(r) ==
  /\ TokenChecked(r) /\ req[r].check.ip \notin {"asked", "nonempty"}
  /\ LET s == req[r]
     IN Become(r, IF Combine(Guard(s).logic, s.check.token, s.check.ip)
                  THEN [Down(s) EXCEPT !.check = [s.check EXCEPT !.verdict = "allowed"]]
                  ELSE Denied(s, DenyReason(s.check.token, s.check.ip)))

\* A guard with a custom check has no other.
CustomCheck(r) ==
  /\ At(r, "down", "guard") /\ Guard(req[r]).check
  /\ \/ Become(r, Down(req[r]))
     \/ Become(r, Denied([req[r] EXCEPT !.check = NoCheck], "custom-check-denied"))

\* Every request that is being checked may now be judged by the new snapshot as well.
Seen(s, tokenSets, ipLists) ==
  IF s.way # "guard" THEN s
  ELSE [s EXCEPT !.check.sawTokens = @ \cup tokenSets, !.check.sawIPs = @ \cup ipLists]

\* Bound: the sets change while a guard may still look into them.
GuardAhead ==
  \E r \in Requests : \E i \in DOMAIN chain :
     /\ chain[i].mw = "guard"
     /\ \/ req[r].way = "idle"
        \/ req[r].way \in {"down", "guard"} /\ i >= req[r].at

UpdateTokens ==
  /\ GuardAhead
  /\ \E snap \in {Updated(entries) : entries \in TokenUpdates} \cup {AllowAll} :
        /\ tokens' = snap
        /\ req' = [r \in Requests |-> Seen(req[r], {snap}, {})]
  /\ UNCHANGED <<chain, now, ips>>

UpdateIPs ==
  /\ GuardAhead
  /\ \E snap \in {Updated(entries) : entries \in IPUpdates} \cup {AllowAll} :
        /\ ips' = snap
        /\ req' = [r \in Requests |-> Seen(req[r], {}, {snap})]
  /\ UNCHANGED <<chain, now, tokens>>

-----------------------------------------------------------------------------
(* Timeout *)

\* The contexts around layer i that an outer Timeout has derived; the nearest one's error.
Derived(s, i) == {j \in 1..i - 1 : s.err[j] # "none"}

ContextErr(s, i) ==
  LET outer == Derived(s, i)
  IN IF outer # {} THEN s.err[CHOOSE j \in outer : \A k \in outer : k <= j]
     ELSE IF s.left THEN "canceled" ELSE "live"

\* The parent's deadline is tighter: the layer leaves the request alone.
ParentTighter(s, want) == \E j \in Derived(s, s.at) : want >= s.deadline[j]

\* Mutant: a tighter deadline of the parent is not looked at.
EnterTimeoutUnchecked(r) ==
  /\ At(r, "down", "timeout")
  /\ LET s == req[r]
         d == chain[s.at].d
     IN Become(r, Down(IF d <= 0 THEN s
                       ELSE [s EXCEPT !.err[s.at] = ContextErr(s, s.at), !.deadline[s.at] = now + d]))

EnterTimeout(r) ==
  /\ At(r, "down", "timeout")
  /\ LET s    == req[r]
         d    == chain[s.at].d
         want == now + d
     IN Become(r, Down(IF d <= 0 \/ ParentTighter(s, want) THEN s
                       ELSE [s EXCEPT !.err[s.at] = ContextErr(s, s.at), !.deadline[s.at] = want]))

\* A context that ends ends those derived from it.
Ended(s, i, why) ==
  [s EXCEPT !.err = [j \in DOMAIN chain |-> IF j >= i /\ @[j] = "live" THEN why ELSE @[j]]]

DeadlinePasses(r) ==
  /\ req[r].way \notin {"idle", "done", "aborted"}
  /\ \E i \in DOMAIN chain :
        /\ req[r].err[i] = "live" /\ now >= req[r].deadline[i]
        /\ Become(r, Ended(req[r], i, "deadline"))

ClientLeaves(r) ==
  /\ req[r].way \notin {"idle", "done", "aborted"} /\ ~req[r].left
  /\ Become(r, Ended([req[r] EXCEPT !.left = TRUE], 1, "canceled"))

\* Mutant: the derived context is not cancelled.
LeaveTimeoutUncancelled(r) ==
  /\ At(r, "up", "timeout")
  /\ LET s == req[r]
     IN Become(r, Up(IF s.err[s.at] = "deadline"
                     THEN [s EXCEPT !.told = @ \cup {<<s.at, "timeout">>}] ELSE s))

\* onTimeout is called before the deferred cancel; a panic of its own is swallowed.
LeaveTimeout(r) ==
  /\ At(r, "up", "timeout")
  /\ LET s == req[r]
         t == IF s.err[s.at] = "deadline" THEN [s EXCEPT !.told = @ \cup {<<s.at, "timeout">>}] ELSE s
     IN Become(r, Up(Ended(t, s.at, "canceled")))

\* Bound: the clock goes on while a deadline may pass, as nothing else reads it.
Tick ==
  /\ now < MaxTime
  /\ \E r \in Requests : req[r].way # "idle" /\ \E i \in DOMAIN chain : req[r].err[i] = "live"
  /\ now' = now + 1
  /\ UNCHANGED <<chain, tokens, ips, req>>

-----------------------------------------------------------------------------
(* BodyLimit: a length of -1 is not known. *)

RejectLength(r) ==
  /\ At(r, "down", "bodylimit")
  /\ LET s == req[r]
     IN /\ chain[s.at].limit > 0 /\ s.q.length > chain[s.at].limit
        /\ Become(r, Up([Answered(s, 413, "bodylimit") EXCEPT
                           !.told = @ \cup {<<s.at, "content-length">>},
                           !.headers = @ \cup {"Connection: close"}]))

EnterBodyLimit(r) ==
  /\ At(r, "down", "bodylimit")
  /\ LET s == req[r]
         limit == chain[s.at].limit
     IN /\ limit <= 0 \/ s.q.length <= limit
        /\ Become(r, Down(IF limit <= 0 THEN s ELSE [s EXCEPT !.limited = @ \cup {s.at}]))

LeaveBodyLimit(r) ==
  /\ At(r, "up", "bodylimit")
  /\ LET s == req[r]
     IN Become(r, Up(IF s.at \in s.exceeded THEN [s EXCEPT !.told = @ \cup {<<s.at, "read">>}] ELSE s))

\* The reader that refuses, the outermost of the tightest, and those that pass its error on.
Refusing(s) ==
  LET full == {i \in s.limited : s.got >= chain[i].limit}
  IN {i \in s.limited : \E j \in full : i >= j}

HandlerReads(r) ==
  /\ AtHandler(r)
  /\ LET s == req[r]
     IN /\ s.got < s.q.body /\ s.exceeded = {}
        /\ Become(r, IF Refusing(s) # {} THEN [s EXCEPT !.exceeded = Refusing(s)]
                     ELSE [s EXCEPT !.got = @ + 1])

-----------------------------------------------------------------------------
(* The handler, and Recover *)

HandlerInforms(r) ==
  /\ AtHandler(r) /\ req[r].status = 0 /\ ~req[r].informed
  /\ Become(r, [Marked(req[r]) EXCEPT !.informed = TRUE])

HandlerWrites(r) ==
  /\ AtHandler(r) /\ req[r].status = 0
  /\ Become(r, Answered(req[r], 200, "handler"))

HandlerReturns(r) ==
  AtHandler(r) /\ Become(r, Up([req[r] EXCEPT !.fate = "returned"]))

\* panic, or panic(http.ErrAbortHandler).
HandlerPanics(r) ==
  /\ AtHandler(r)
  /\ \E way \in {"panic", "abort"} :
        Become(r, [req[r] EXCEPT !.at = @ - 1, !.way = way, !.fate = way,
                          !.before = req[r].status])

EnterRecover(r) == At(r, "down", "recover") /\ Become(r, Down(req[r]))

\* Mutant: 500 is written whatever was written before.
RecoversAlways(r) ==
  /\ At(r, "panic", "recover")
  /\ Become(r, Up(Answered([req[r] EXCEPT !.told = @ \cup {<<req[r].at, "panic">>}], 500, "recover")))

\* The hook is told (its own panic is swallowed), and 500 is written unless something was.
Recovers(r) ==
  /\ At(r, "panic", "recover")
  /\ LET s == [req[r] EXCEPT !.told = @ \cup {<<req[r].at, "panic">>}]
     IN Become(r, Up(IF s.at \in s.wrote THEN s ELSE Answered(s, 500, "recover")))

\* What is deferred runs: a Timeout cancels its context. No hook does.
Unwind(r) ==
  /\ req[r].way \in {"panic", "abort"} /\ req[r].at > 0
  /\ req[r].way = "abort" \/ chain[req[r].at].mw # "recover"
  /\ LET s == req[r]
         t == IF chain[s.at].mw = "timeout" THEN Ended(s, s.at, "canceled") ELSE s
     IN Become(r, [t EXCEPT !.at = @ - 1])

LeaveLayer(r) ==
  /\ \E mw \in {"recover", "requestid", "realip", "cors", "guard"} : At(r, "up", mw)
  /\ Become(r, Up(req[r]))

\* net/http sends an answer nobody wrote as 200, and drops the connection after a panic.
Finish(r) ==
  /\ req[r].way \in {"up", "panic", "abort"} /\ req[r].at = 0
  /\ Become(r, IF req[r].way # "up" THEN [req[r] EXCEPT !.way = "aborted"]
               ELSE [req[r] EXCEPT !.way = "done", !.status = IF @ = 0 THEN 200 ELSE @])

-----------------------------------------------------------------------------
GoesDown(r) ==
  \/ EnterRequestID(r) \/ EnterRealIP(r) \/ AnswerPreflight(r) \/ EnterCors(r)
  \/ GuardBegins(r) \/ CustomCheck(r) \/ EnterTimeout(r)
  \/ RejectLength(r) \/ EnterBodyLimit(r) \/ EnterRecover(r)

Checks(r) ==
  LookIfTokensEmpty(r) \/ LookForToken(r) \/ LookIfListEmpty(r) \/ LookForIP(r) \/ GuardDecides(r)

Handles(r) ==
  HandlerReads(r) \/ HandlerInforms(r) \/ HandlerWrites(r) \/ HandlerReturns(r) \/ HandlerPanics(r)

GoesUp(r) ==
  \/ LeaveTimeout(r) \/ LeaveBodyLimit(r) \/ LeaveLayer(r)
  \/ Recovers(r) \/ Unwind(r) \/ Finish(r)

Next ==
  \/ \E r \in Requests :
        \/ Arrive(r) \/ GoesDown(r) \/ Checks(r) \/ Handles(r) \/ GoesUp(r)
        \/ DeadlinePasses(r) \/ ClientLeaves(r)
  \/ UpdateTokens \/ UpdateIPs \/ Tick

Spec == Init /\ [][Next]_vars

-----------------------------------------------------------------------------
Served == {r \in Requests : req[r].way # "idle"}
Over   == {r \in Requests : req[r].way \in {"done", "aborted"}}

\* The layers a panic of the handler passes: those inside the innermost Recover, all for an abort.
UnwoundBy(s, i) ==
  /\ i \in DOMAIN chain
  /\ \/ s.fate = "abort"
     \/ s.fate = "panic" /\ \A j \in i..Len(chain) : chain[j].mw # "recover"

LayersOf(mw) == {i \in DOMAIN chain : chain[i].mw = mw}

\* Which layers have a hook, and what it is told.
Tellable == LayersOf("timeout") \X {"timeout"} \cup LayersOf("recover") \X {"panic"}
              \cup LayersOf("bodylimit") \X {"content-length", "read"}

\* Every request is at a layer of its chain on a known way, its contexts end as contexts end, and
\* contexts, readers, writers and hooks are those of layers of the right kind (all the middlewares).
TypeOK ==
  /\ now \in 0..MaxTime
  /\ \A r \in Served :
       LET s == req[r]
       IN /\ s.at \in 0..Len(chain) + 1
          /\ s.way \in {"down", "guard", "up", "panic", "abort", "done", "aborted"}
          /\ s.status \in {0, 200, 204, 403, 404, 413, 500}
          /\ \A i \in DOMAIN chain :
               /\ s.err[i] \in {"none", "live", "deadline", "canceled"}
               /\ s.err[i] = "live" => i <= s.at /\ chain[i].mw = "timeout"
          /\ s.wrote \subseteq LayersOf("recover")
          /\ s.limited \subseteq LayersOf("bodylimit") /\ s.exceeded \subseteq LayersOf("bodylimit")
          /\ s.told \subseteq Tellable
          /\ s.way = "guard" => s.check.layer = s.at
          /\ s.got <= s.q.body

\* A request whose handler panics under a Recover is answered: with 500 when nothing, not even an
\* informational status, was sent before, else with what was; an abort is never answered; and no
\* answer is written by two layers (mw_recover.go with every layer around and inside it).
PanicAnswered ==
  \A r \in Over :
    LET s == req[r]
    IN /\ Cardinality(s.authors) <= 1
       /\ s.fate = "abort" => s.way = "aborted"
       /\ (s.fate = "panic" /\ \E i \in DOMAIN chain : chain[i].mw = "recover") =>
            /\ s.way = "done"
            /\ s.status = IF s.before # 0 THEN s.before ELSE IF s.informed THEN 200 ELSE 500

\* onTimeout is told of a deadline only once that layer's own deadline is over, however the Timeouts
\* nest, and of every one whose downstream returned after it (mw_timeout.go).
TimeoutTold ==
  \A r \in Served : \A i \in DOMAIN chain :
    LET s == req[r]
    IN /\ <<i, "timeout">> \in s.told => s.deadline[i] <= now /\ ~UnwoundBy(s, i)
       /\ (s.way = "done" /\ s.err[i] = "deadline" /\ ~UnwoundBy(s, i)) => <<i, "timeout">> \in s.told

\* No handler is given more than the tightest of the limits around it, and a limit reports a refused
\* read only if it, or one outside it, is used up and the body goes on (mw_body_limit.go).
BodyBounded ==
  \A r \in Served :
    LET s == req[r]
    IN /\ \A i \in s.limited : s.got <= chain[i].limit
       /\ \A i \in DOMAIN chain : <<i, "read">> \in s.told =>
            s.got < s.q.body /\ \E j \in s.limited : j <= i /\ s.got = chain[j].limit

\* The limits on time and on the body hold and are reported as they were met.
LimitsHold == TimeoutTold /\ BodyBounded

\* What a guard decides is what some snapshot that was in force while it looked says: a request is
\* let through only if one held its token (and, unless either is enough, one its address), and
\* turned away only if one did not; a check that is off never lets a request through
\* (tokenSetValidator.Validate reads the set twice).
GuardJustified ==
  \A r \in Served :
    LET s == req[r]
        c == s.check
        g == GuardOf(chain[c.layer].options)
        token(v) == IF Len(s.q.token) = 1 /\ s.q.token[1] # ""
                    THEN \E t \in c.sawTokens : Holds(t, s.q.token[1]) = v ELSE ~v
        ip(v)    == IF ResolvedIP(s) # NoIP
                    THEN \E a \in c.sawIPs : Holds(a, ResolvedIP(s)) = v ELSE ~v
        both     == g.logic = "all"
    IN c.layer # 0 =>
         /\ c.verdict = "allowed" =>
              IF both THEN (g.token => token(TRUE)) /\ (g.ip => ip(TRUE))
              ELSE (g.token /\ token(TRUE)) \/ (g.ip /\ ip(TRUE))
         /\ c.verdict \notin {"none", "allowed"} =>
              IF both THEN (g.token /\ token(FALSE)) \/ (g.ip /\ ip(FALSE))
              ELSE (g.token => token(FALSE)) /\ (g.ip => ip(FALSE))

\* The client's address is the peer's own unless the peer is a trusted proxy; then every hop to the
\* right of the address taken from X-Forwarded-For is a trusted one or an entry the policy passes
\* over, no trusted proxy is taken for the client, and another header gives the one address it holds
\* (extractRealIP, extractFromXFF).
AddressVouched ==
  \A r \in Served :
    LET s == req[r]
    IN s.ip \notin {NoIP, ParseIP(s.q.peer)} =>
         \E i \in DOMAIN chain :
           /\ chain[i].mw = "realip" /\ s.q.peer \in chain[i].cfg.trusted
           /\ \E n \in DOMAIN chain[i].cfg.headers :
                LET cfg   == chain[i].cfg
                    parts == s.q.headers[cfg.headers[n]]
                IN IF cfg.headers[n] # "X-Forwarded-For" THEN parts = <<s.ip>>
                   ELSE \E k \in DOMAIN parts :
                          /\ parts[k] = s.ip /\ s.ip \notin cfg.trusted
                          /\ \A h \in k + 1..Len(parts) :
                               \/ parts[h] \in cfg.trusted \/ parts[h] = ""
                               \/ cfg.policy = "skip" /\ parts[h] \notin IPs
                               \/ cfg.policy = "skipUnknown" /\ parts[h] = "unknown"

\* An answer grants cross-origin access only to the request's one origin, which is a configured host
\* or, for a pattern that asks for one, a subdomain of it; it says that it varies with the origin; and
\* a preflight that was answered reached no handler (CORS, also when Recover writes the answer).
CorsGrantsAllowed ==
  \A r \in Served :
    LET s == req[r]
        host == s.q.origin[1]
    IN /\ "Allow-Methods" \in s.headers => s.fate = "none" /\ s.got = 0
       /\ "Allow-Origin" \in s.headers =>
            /\ "Origin" \in s.vary /\ Len(s.q.origin) = 1
            /\ \E i \in DOMAIN chain :
                 /\ chain[i].mw = "cors"
                 /\ IF chain[i].cfg.origins = AnyValue THEN TRUE
                    ELSE IF host = NullOrigin THEN chain[i].cfg.nullAllowed
                    ELSE \E p \in chain[i].cfg.origins : \E k \in 1..Len(host) :
                           p.base = SubSeq(host, 1, k) /\ (p.sub => k < Len(host))
=============================================================================
