------------------------------- MODULE Safego -------------------------------
(***************************************************************************)
(* What RunErr does around one call of a function: what is reported, to    *)
(* whom, in which order, and what goes on to the caller.                   *)
(*                                                                         *)
(* A configuration has the panic policy, reportContextCancel, the two      *)
(* handlers ("unset", "returns" or "panics") and the finalizers ("returns" *)
(* or "panics") in the order of their options.                             *)
(***************************************************************************)
EXTENDS Sequences, SequencesExt

Outcomes == {"nil", "error", "contextCancel", "panic", "goexit"}

\* A report goes to the handler, or to stderr; a panic of the handler goes to stderr after it.
Reported(what, handler) ==
  CASE handler = "unset"   -> << <<what, "stderr">> >>
    [] handler = "returns" -> << <<what, "handler">> >>
    [] handler = "panics"  -> << <<what, "handler">>, <<"handlerPanic", "stderr">> >>

\* An unknown policy recovers and reports.
PanicReports(c) == IF c.panicPolicy = "RecoverOnly" THEN <<>> ELSE Reported("panic", c.onPanic)

ErrorReports(c, outcome) ==
  IF outcome = "contextCancel" /\ ~c.reportContextCancel THEN <<>> ELSE Reported(outcome, c.onError)

FunctionReports(c, outcome) ==
  CASE outcome \in {"nil", "goexit"} -> <<>>
    [] outcome = "panic"             -> PanicReports(c)
    [] OTHER                         -> ErrorReports(c, outcome)

Finalized(c, finalizer) ==
  << <<"finalizer", "runs">> >> \o
  (IF finalizer = "panics" THEN Reported("finalizerPanic", c.onPanic) ELSE <<>>)

\* Last in, first out, whatever became of the function; nil finalizers were never registered.
FinalizerReports(c) ==
  FlattenSeq([i \in DOMAIN c.finally |-> Finalized(c, Reverse(c.finally)[i])])

RunErr(c, outcome) ==
  [events |-> FunctionReports(c, outcome) \o FinalizerReports(c),
   escapes |-> outcome = "panic" /\ c.panicPolicy = "RepanicAfterReport"]

\* Go and GoErr run it in a goroutine of its own: what escapes ends the program.
GoErr(c, outcome) == [RunErr(c, outcome) EXCEPT !.escapes = IF @ THEN "crash" ELSE "contained"]

-----------------------------------------------------------------------------
(* Reference *)

Configs(finalizers) ==
  [panicPolicy : {"RecoverAndReport", "RecoverOnly", "RepanicAfterReport", "unknown"},
   reportContextCancel : BOOLEAN,
   onError : {"unset", "returns", "panics"}, onPanic : {"unset", "returns", "panics"},
   finally : finalizers]

\* Nothing is lost: every finalizer runs, and a panic or an error that no option silences is
\* reported once.
NothingLost(c, outcome) ==
  LET events == RunErr(c, outcome).events
      Count(e) == Len(SelectSeq(events, LAMBDA x : x[1] = e))
      silenced == \/ outcome = "panic" /\ c.panicPolicy = "RecoverOnly"
                  \/ outcome = "contextCancel" /\ ~c.reportContextCancel
                  \/ outcome \in {"nil", "goexit"}
  IN /\ Count("finalizer") = Len(c.finally)
     /\ Count(outcome) = IF silenced THEN 0 ELSE 1
     /\ Count("finalizerPanic") = Len(SelectSeq(c.finally, LAMBDA f : f = "panics"))
=============================================================================
