------------------------------ MODULE MCTuning ------------------------------
(* A TLC instance of OpsTuning: one variable of each type, a handler, a     *)
(* direct writer, and LevelVar registering the enum beside them.            *)
EXTENDS OpsTuning

CONSTANTS h1, w1

Base(kind, def) == [kind |-> kind, def |-> def, redact |-> FALSE, callbacks |-> <<>>]
Bounded(c, lo, hi) == c @@ [min |-> lo, max |-> hi]

Float(n, neg) == [class |-> "finite", num |-> n, negZero |-> neg]

MCConfig ==
  "b" :> Base("bool", FALSE) @@
  "d" :> Bounded(Base("duration", 1), 1, NoBound) @@
  "f" :> Bounded(Base("float64", Float(0, FALSE)), NoBound, NoBound) @@
  "l" :> (Base("enum", "info") @@
          [allowed |-> <<"debug", "info", "warn", "error">>, normalized |-> TRUE,
           normalize |-> [t \in {"debug", "info", "warn", "error", "err"} |-> IF t = "err" THEN "error" ELSE t]]) @@
  "n" :> Bounded(Base("int64", 0), 0, 1) @@
  "s" :> (Base("string", "x") @@ [nonEmpty |-> TRUE])

\* The level variable sets the level, then calls a user's callback; the integer's first one panics.
WithCallbacks ==
  [k \in DOMAIN MCConfig |->
    [MCConfig[k] EXCEPT !.redact = (k = "s"),
                        !.callbacks = CASE k = "l" -> <<"level", "write">>
                                        [] k = "n" -> <<"panic", "write">>
                                        [] OTHER   -> <<>>]]

KeysInOrder == <<"b", "d", "f", "l", "n", "s">>

Ints   == "0" :> 0 @@ "1" :> 1 @@ "7" :> 7
Floats == "-0" :> Float(0, TRUE) @@ "NaN" :> [class |-> "nan", num |-> 0, negZero |-> FALSE]

C(op, key, arg) == [op |-> op, key |-> key, arg |-> arg]
R(op, method, key, arg) == [op |-> op, method |-> method, key |-> key, arg |-> arg]
Typed(t, v) == [type |-> t, value |-> v]

MCDirectCalls ==
  { C("Set", "n", Typed("int64", 1)), C("SetAny", "n", Typed("string", "1")),
    C("SetFromString", "l", "err") }

MCRequests ==
  { R("SetFromString", "POST", "n", "7"), R("SetFromString", "GET", "n", "1"),
    R("SetFromString", "POST", "b", "on"), R("SetFromString", "POST", "s", ""),
    R("SetFromString", "POST", "f", "-0"), R("SetFromString", "POST", "d", "0"),
    R("SetFromString", "POST", "l", "debug"),
    R("ResetToLastValue", "POST", "l", NoText), R("ResetToDefault", "POST", "l", NoText),
    R("Lookup", "GET", "l", NoText), R("ExportOverrides", "GET", NoText, NoText) }

MCBudget == h1 :> 1 @@ w1 :> 2
MCProcs == {h1, w1}
MCHandlers == {h1}
MCAnonymous == {w1}
MCGuards == {[by |-> "prefix", of |-> {"", "a", "b"}]}
MCPrefixes == [k \in ToSet(KeysInOrder) |-> IF k = "b" THEN {"b"} ELSE {"a", "ab"}]

\* The names of the levels survive the way to a level and back; other levels get the name below.
ASSUME LevelAssumption ==
  /\ \A name \in LevelNames : LevelToEnum(EnumToLevel(name)) = name /\ NormalizeLevelEnum(name) = name
  /\ \A l \in -9 .. 12 : EnumToLevel(LevelToEnum(l)) <= l \/ l < -4
  /\ LogLevelSetAnswer("POST", "err", 0, 4).level = 8 /\ LogLevelSetAnswer("POST", "x", 0, 4).status = 400

\* A check that timed out is never ready, and one bad check is enough.
ASSUME ReadyAssumption ==
  LET Checks == [outcome : {"nil", "error", "panic"}, ctx : {"open", "Canceled", "DeadlineExceeded"}]
  IN \A a1 \in Checks, a2 \in Checks :
       LET a == ReadyzAnswer("GET", <<a1, a2>>)
       IN /\ Len(a.checks) = 2
          /\ (a.status = 200) = (\A i \in 1 .. 2 : a.checks[i].ok)
          /\ \A i \in 1 .. 2 : a.checks[i].ok = (a.checks[i].error = "" /\ ~a.checks[i].timedOut)

\* A guard hides unnamed tasks, and the number of one that is shown counts the hidden ones.
ASSUME TasksAssumption ==
  LET tasks == << [name |-> ""], [name |-> "b"], [name |-> ""] >>
  IN /\ [i \in 1 .. 3 |-> ShownTasks(tasks, {}, MCPrefixes)[i].display] =
          << <<"unnamed", 0>>, <<"b">>, <<"unnamed", 2>> >>
     /\ Len(ShownTasks(tasks, {[by |-> "key", of |-> {"b", ""}]}, MCPrefixes)) = 1
     /\ Len(ShownTasks(tasks, MCGuards, MCPrefixes)) = 1
     /\ ShownTasks(tasks, {[by |-> "key", of |-> {""}]}, MCPrefixes) = <<>>
     /\ \A known \in BOOLEAN, ok \in BOOLEAN, err \in {"nil", "ErrClosed", "Canceled"} :
          (TriggerAndWaitAnswer(TaskRefusal("POST", "b", TRUE, known), ok, err).status = 200) =
            (known /\ ok /\ err = "nil")
     /\ TriggerAnswer(200, FALSE, "Idle").status = 409
=============================================================================
