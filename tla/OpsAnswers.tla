----------------------------- MODULE OpsAnswers -----------------------------
(***************************************************************************)
(* What the ops handlers answer.  A handler goes through its checks in     *)
(* order and the first that fails decides the status.                      *)
(***************************************************************************)
EXTENDS Integers, Sequences, FiniteSets

CONSTANTS NoText       \* a query parameter that is not there

\* checks: a sequence of <<failed, status>>.
FirstFailed(checks, otherwise) ==
  LET failed == {i \in DOMAIN checks : checks[i][1]}
  IN IF failed = {} THEN otherwise
     ELSE checks[CHOOSE i \in failed : \A j \in failed : i <= j][2]

Missing(text) == text \in {NoText, ""}

ReadMethods == {"GET", "HEAD"}

\* ?format=json or text overrides the handler's own format, which is text unless it is json.
Format(option, query) ==
  IF query \in {"json", "text"} THEN query ELSE IF option = "json" THEN "json" ELSE "text"

\* A body goes with every answer except that of a HEAD request.
HasBody(method) == method # "HEAD"

-----------------------------------------------------------------------------
(* Tuning *)

\* A guard is a set of keys or a set of prefixes, empty ones left out; several must all agree.
Passes(guard, key, prefixesOf) ==
  LET named == guard.of \ {""}
  IN IF guard.by = "key" THEN key \in named ELSE prefixesOf[key] \cap named # {}

GuardAllows(guards, key, prefixesOf) == \A g \in guards : Passes(g, key, prefixesOf)

TuningReadStatus(method) == FirstFailed(<< <<method \notin ReadMethods, 405>> >>, 200)

TuningLookupStatus(method, key, malformed, allowed, known) ==
  FirstFailed(<< <<method \notin ReadMethods, 405>>, <<Missing(key), 400>>, <<malformed, 400>>,
                 <<~allowed, 403>>, <<~known, 404>> >>, 200)

\* The checks of a write before it looks at the variable; value is only asked for by a set.
TuningWriteRefusal(op, method, key, malformed, allowed, value) ==
  FirstFailed(<< <<method # "POST", 405>>, <<Missing(key), 400>>, <<malformed, 400>>,
                 <<~allowed, 403>>, <<op = "SetFromString" /\ value = NoText, 400>> >>, 200)

TuningWriteStatus(err) ==
  CASE err = "ok" -> 200
    [] err \in {"invalidKey", "invalidValue", "typeMismatch"} -> 400
    [] err = "notFound" -> 404
    [] err = "noLastValue" -> 409
    [] OTHER -> 500

\* The error of a write on a variable that looks redacted is reduced to its kind.
ErrorShown(err, redacted) == IF redacted THEN [kind |-> err] ELSE [kind |-> err, echoes |-> "value"]
-----------------------------------------------------------------------------
(* Tasks *)

\* A name is asked for trimmed.  Several guards must all agree; the snapshot drops what they refuse,
\* and unnamed tasks as soon as there is a guard.
TaskShown(guards, name, prefixesOf) ==
  guards # {} => name # "" /\ GuardAllows(guards, name, prefixesOf)

ShownTasks(tasks, guards, prefixesOf) ==
  LET shown == {i \in DOMAIN tasks : TaskShown(guards, tasks[i].name, prefixesOf)}
      At(n) == CHOOSE i \in shown : Cardinality({j \in shown : j <= i}) = n
  IN [n \in 1 .. Cardinality(shown) |->
        [task |-> tasks[At(n)],
         display |-> IF tasks[At(n)].name = "" THEN <<"unnamed", At(n) - 1>> ELSE <<tasks[At(n)].name>>]]

TaskRefusal(method, name, allowed, known) ==
  FirstFailed(<< <<method # "POST", 405>>, <<Missing(name), 400>>, <<~allowed, 403>>, <<~known, 404>> >>, 200)

\* The reason of a refused trigger is told from a status read after the refusal.
Reason(statusAfter) ==
  CASE statusAfter = "NotStarted"              -> "manager not running"
    [] statusAfter \in {"Stopping", "Stopped"} -> "task closed"
    [] statusAfter = "Running"                 -> "task busy"
    [] OTHER                                   -> "trigger not accepted"

TriggerAnswer(refusal, accepted, statusAfter) ==
  IF refusal # 200 THEN [status |-> refusal, error |-> "refused"]
  ELSE IF accepted THEN [status |-> 200, error |-> ""]
  ELSE [status |-> 409, error |-> Reason(statusAfter)]

\* timeout: NoText, or the duration the parameter names, 0 when it names none.
ValidTimeout(timeout) == timeout = NoText \/ timeout > 0

TriggerAndWaitStatus(err) ==
  CASE err = "nil"                              -> 200
    [] err \in {"ErrNotRunning", "ErrSkipped"}  -> 409
    [] err = "ErrClosed"                        -> 503
    [] err \in {"Canceled", "DeadlineExceeded"} -> 408
    [] OTHER                                    -> 500

TriggerAndWaitAnswer(refusal, validTimeout, err) ==
  IF refusal # 200 \/ ~validTimeout
    THEN [status |-> IF refusal # 200 THEN refusal ELSE 400, timedOut |-> FALSE, canceled |-> FALSE]
    ELSE [status |-> TriggerAndWaitStatus(err),
          timedOut |-> err = "DeadlineExceeded", canceled |-> err = "Canceled"]

-----------------------------------------------------------------------------
(* Health *)

\* A check has an outcome, "nil", "error" or "panic", and the state of its context when it is over:
\* "open", "Canceled" or "DeadlineExceeded", by its own time-out or the request's deadline.
CheckPasses(check) == check.outcome = "nil" /\ check.ctx # "DeadlineExceeded"

CheckError(check) ==
  IF check.outcome # "nil" THEN check.outcome
  ELSE IF check.ctx = "DeadlineExceeded" THEN "timeout" ELSE ""

CheckResult(check) ==
  [ok |-> CheckPasses(check), error |-> CheckError(check), timedOut |-> check.ctx = "DeadlineExceeded"]

\* Every check is run, also after one has failed.
ReadyzAnswer(method, checks) ==
  IF method \notin ReadMethods THEN [status |-> 405, checks |-> <<>>]
  ELSE [status |-> IF \A i \in DOMAIN checks : CheckPasses(checks[i]) THEN 200 ELSE 503,
        checks |-> [i \in DOMAIN checks |-> CheckResult(checks[i])]]

HealthzStatus(method) == IF method \in ReadMethods THEN 200 ELSE 405

-----------------------------------------------------------------------------
(* Log level *)

LevelNames == {"debug", "info", "warn", "error"}

\* A text, trimmed and in lower case; "" when it names no level.
NormalizeLevelEnum(text) ==
  CASE text = "warning"      -> "warn"
    [] text = "err"          -> "error"
    [] text \in LevelNames   -> text
    [] OTHER                 -> ""

EnumToLevel(name) ==
  CASE name = "debug" -> -4 [] name = "warn" -> 4 [] name = "error" -> 8 [] OTHER -> 0

LevelToEnum(level) ==
  IF level < 0 THEN "debug" ELSE IF level < 4 THEN "info" ELSE IF level < 8 THEN "warn" ELSE "error"

LogLevelGetAnswer(method, level) ==
  IF method \in ReadMethods THEN [status |-> 200, level |-> LevelToEnum(level)] ELSE [status |-> 405]

\* now is the level, after what it is read back as: another write may come in between.
LogLevelSetAnswer(method, text, now, after) ==
  CASE method # "POST"                 -> [status |-> 405, level |-> now]
    [] NormalizeLevelEnum(text) = ""   -> [status |-> 400, level |-> now]
    [] OTHER -> [status |-> 200, level |-> EnumToLevel(NormalizeLevelEnum(text)),
                 old |-> LevelToEnum(now), new |-> LevelToEnum(after)]
=============================================================================
