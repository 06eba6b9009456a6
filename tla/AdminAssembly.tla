--------------------------- MODULE AdminAssembly ---------------------------
(***************************************************************************)
(* How the admin subtree is put together: which capabilities are mounted   *)
(* where and behind which guard, who may touch which key, and what the     *)
(* report shows.                                                           *)
(*                                                                         *)
(* A capability is a record: cap, guard, path ("" for its default), source *)
(* (whether it is there), access, checks.  Paths are abstract; BadPaths    *)
(* are those normalizePathOrPanic refuses.                                 *)
(***************************************************************************)
EXTENDS Integers, Sequences, SequencesExt

CONSTANTS Nobody,    \* a nil Guard
          NoFunc,    \* a nil AllowFunc
          BadPaths

Reads  == {"report", "healthz", "readyz", "buildinfo", "runtime", "log.level", "tuning.snapshot",
           "tuning.overrides", "tuning.lookup", "tasks.snapshot", "provided"}
Writes == {"log.level.set", "tuning.set", "tuning.reset_default", "tuning.reset_last",
           "tasks.trigger", "tasks.trigger_and_wait"}

NeedsSource == (Reads \cup Writes) \ {"report", "healthz", "readyz", "buildinfo", "runtime", "provided"}
Filtered    == NeedsSource \ {"log.level", "log.level.set"}

-----------------------------------------------------------------------------
(* Access lists of keys or names *)

AnyKey == [func |-> NoFunc, prefixes |-> <<>>, keys |-> <<>>]

AccessRefused(a) == a.func # NoFunc /\ (a.prefixes # <<>> \/ a.keys # <<>>)

\* A list that is given but has nothing in it: no key passes, whatever the other list says.
AllBlank(list) == list # <<>> /\ ToSet(list) = {""}

Unfiltered(a) == a.func = NoFunc /\ a.prefixes = <<>> /\ a.keys = <<>>

Listed(a, key, prefixesOf) ==
  IF a.func # NoFunc THEN key \in a.func
  ELSE /\ ~AllBlank(a.prefixes) /\ ~AllBlank(a.keys)
       /\ key # ""
       /\ key \in ToSet(a.keys) \/ prefixesOf[key] \cap (ToSet(a.prefixes) \ {""}) # {}

\* Nothing given lets every read through and no write.
AccessAllows(cap, a, key, prefixesOf) ==
  IF Unfiltered(a) THEN cap \in Reads ELSE Listed(a, key, prefixesOf)

-----------------------------------------------------------------------------
(* Assembly *)

PathOf(o) == IF o.path = "" THEN o.cap ELSE o.path

CheckRefused(check) == check.name = "" \/ ~check.func

OptionRefused(o) ==
  \/ o.guard = Nobody
  \/ o.cap \in NeedsSource /\ ~o.source
  \/ o.cap \in Filtered /\ AccessRefused(o.access)
  \/ o.cap = "readyz" /\ \E i \in DOMAIN o.checks : CheckRefused(o.checks[i])
  \/ PathOf(o) \in BadPaths

\* Two capabilities at one path, or two reports, wherever they are.
Clash(o, p) == PathOf(o) = PathOf(p) \/ (o.cap = "report" /\ p.cap = "report")

AdminRefused(options) ==
  \E i \in DOMAIN options :
    \/ OptionRefused(options[i])
    \/ \E j \in DOMAIN options \ {i} : Clash(options[i], options[j])

Mounts(options) ==
  {[path |-> PathOf(options[i]), cap |-> options[i].cap, guard |-> options[i].guard] : i \in DOMAIN options}

AdminChain(realIP) ==
  << [mw |-> "recover"],
     [mw |-> "requestid", trust |-> TRUE, incoming |-> <<"X-Request-ID">>, set |-> TRUE],
     [mw |-> "realip", cfg |-> realIP] >>

\* The options of AccessGuard behind each guard; DenyAll and AllowAll have none.
GuardOptions(kind) ==
  CASE kind \in {"Tokens", "HotTokens"}                           -> <<"token">>
    [] kind = "IPAllowList"                                       -> <<"ip">>
    [] kind \in {"TokensOrIPAllowList", "HotTokensOrIPAllowList"}   -> <<"token", "ip", "or">>
    [] kind \in {"TokensAndIPAllowList", "HotTokensAndIPAllowList"} -> <<"token", "ip">>
    [] kind = "Check"                                             -> <<"check">>

-----------------------------------------------------------------------------
(* The default admin *)

Capability(cap, guard) ==
  [cap |-> cap, guard |-> guard, path |-> "", source |-> TRUE, access |-> AnyKey, checks |-> <<>>]

With(guard, access, caps) == [i \in DOMAIN caps |-> [Capability(caps[i], guard) EXCEPT !.access = access]]

If(condition, options) == IF condition THEN options ELSE <<>>

\* The nil write guard switches all write groups off, also those that are enabled.
WriteOn(sp, group) == sp.writeGuard # Nobody /\ group \in sp.writes

DefaultOptions(sp) ==
  With(sp.readGuard, AnyKey, <<"report", "healthz">>)
  \o << [Capability("readyz", sp.readGuard) EXCEPT !.checks = sp.readyChecks] >>
  \o With(sp.readGuard, AnyKey, <<"buildinfo", "runtime">>)
  \o If("log" \in sp.sources, With(sp.readGuard, AnyKey, <<"log.level">>))
  \o If("tuning" \in sp.sources,
        With(sp.readGuard, sp.tuningRead, <<"tuning.snapshot", "tuning.overrides", "tuning.lookup">>))
  \o If("tasks" \in sp.sources, With(sp.readGuard, sp.taskRead, <<"tasks.snapshot">>))
  \o If(sp.provided, With(sp.readGuard, AnyKey, <<"provided">>))
  \o If(WriteOn(sp, "log"), With(sp.writeGuard, AnyKey, <<"log.level.set">>))
  \o If(WriteOn(sp, "tuning"),
        With(sp.writeGuard, sp.tuningWrite, <<"tuning.set", "tuning.reset_default", "tuning.reset_last">>))
  \o If(WriteOn(sp, "tasks"),
        With(sp.writeGuard, sp.taskWrite, <<"tasks.trigger", "tasks.trigger_and_wait">>))

DefaultAdminRefused(sp) ==
  \/ sp.readGuard = Nobody
  \/ \E g \in {"log", "tuning", "tasks"} : WriteOn(sp, g) /\ g \notin sp.sources
  \/ AdminRefused(DefaultOptions(sp))

-----------------------------------------------------------------------------
(* The report *)

ReportOrder == <<"buildinfo", "runtime", "log.level", "tuning.snapshot", "tuning.overrides",
                 "tasks.snapshot", "provided">>

\* Enabled twice at two paths, a capability is shown as it was enabled last; its guard plays no part.
Sections(options) ==
  LET Enabled(cap) == \E i \in DOMAIN options : options[i].cap = cap
      Source(cap) == CHOOSE i \in DOMAIN options :
                       options[i].cap = cap /\ \A j \in DOMAIN options : options[j].cap = cap => j <= i
      caps == SelectSeq(ReportOrder, Enabled)
  IN [n \in DOMAIN caps |-> options[Source(caps[n])]]

\* writes: the lengths a handler wrote; nothing beyond the limit is kept, and that it was dropped is told.
Captured(writes, limit) ==
  LET Add(c, n) ==
        IF limit <= 0 THEN [c EXCEPT !.kept = @ + n]
        ELSE IF c.kept + n <= limit /\ c.kept < limit THEN [c EXCEPT !.kept = @ + n]
        ELSE [kept |-> limit, truncated |-> TRUE]
  IN FoldLeft(Add, [kept |-> 0, truncated |-> FALSE], writes)

Succeeded(status) == status \in 200 .. 299

\* answers: for each section the status and the writes of its handler; provided is limited.
ReportAnswer(method, sections, answers, providedLimit) ==
  CASE method = "HEAD"  -> [status |-> 200, ok |-> TRUE, sections |-> <<>>]
    [] method = "GET"   ->
         [status |-> 200,
          ok |-> \A n \in DOMAIN sections : Succeeded(answers[n].status),
          sections |-> [n \in DOMAIN sections |->
             [name |-> sections[n].cap, failed |-> ~Succeeded(answers[n].status),
              text |-> Captured(answers[n].writes,
                                IF sections[n].cap = "provided" THEN providedLimit ELSE 0)]]]
    [] OTHER            -> [status |-> 405, ok |-> FALSE, sections |-> <<>>]
=============================================================================
