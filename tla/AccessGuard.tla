----------------------------- MODULE AccessGuard -----------------------------
(***************************************************************************)
(* How AccessGuard is configured and decides (httpx/mw_access_guard.go),   *)
(* and the token and address sets it looks into.                           *)
(***************************************************************************)
EXTENDS Sequences, SequencesExt

\* A set's snapshot; Update drops blank (and, for addresses, invalid) entries.
EmptySet         == [all |-> FALSE, of |-> {}]
AllowAll         == [all |-> TRUE, of |-> {}]
Updated(entries) == [all |-> FALSE, of |-> entries \ {""}]
IsEmpty(snap)    == ~snap.all /\ snap.of = {}
Holds(snap, x)   == snap.all \/ x \in snap.of

-----------------------------------------------------------------------------
(* Configuration: the options applied in order; one of them may panic. *)

NoGuard == [token |-> FALSE, ip |-> FALSE, check |-> FALSE, logic |-> "all", status |-> 403,
            refused |-> FALSE]

GuardOption(c, o) ==
  LET refuse(bad, ok) == IF bad THEN [c EXCEPT !.refused = TRUE] ELSE ok
  IN CASE o = "token"  -> refuse(c.check \/ c.token, [c EXCEPT !.token = TRUE])
       [] o = "ip"     -> refuse(c.check \/ c.ip, [c EXCEPT !.ip = TRUE])
       [] o = "or"     -> refuse(c.check, [c EXCEPT !.logic = "any"])
       [] o = "check"  -> refuse(c.logic = "any" \/ c.token \/ c.ip, [c EXCEPT !.check = TRUE])
       [] o = "status" -> [c EXCEPT !.status = 404]

GuardOf(options) == FoldLeft(GuardOption, NoGuard, options)

GuardRefused(options) ==
  LET c == GuardOf(options) IN c.refused \/ ~(c.token \/ c.ip \/ c.check)

-----------------------------------------------------------------------------
(* Decision *)

\* What is wrong with the token header before any set is asked; "ok": nothing.
TokenHeaderWhy(values) ==
  CASE Len(values) = 0 -> "token-missing"
    [] Len(values) > 1 -> "token-ambiguous"
    [] Len(values) = 1 -> IF values[1] = "" THEN "token-empty" ELSE "ok"

\* Mutant: a check that is off counts as passed.
CombineDefaults(logic, token, ip) ==
  LET tokenOK == token \in {"ok", "off"}
      ipOK    == ip \in {"ok", "off"}
  IN IF logic = "any" THEN tokenOK \/ ipOK ELSE tokenOK /\ ipOK

\* A check that is not enabled is "off".
Combine(logic, token, ip) ==
  IF "off" \in {token, ip} THEN token = "ok" \/ ip = "ok"
  ELSE IF logic = "any" THEN token = "ok" \/ ip = "ok" ELSE token = "ok" /\ ip = "ok"

\* The reason given for a refusal: the token's first.
DenyReason(token, ip) == IF token \in {"ok", "off"} THEN ip ELSE token
=============================================================================
