----------------------------- MODULE OpsTuning -----------------------------
(***************************************************************************)
(* The tuning handlers of ops on top of a Tuning registry.  A write is     *)
(* three calls, none of them under a lock of the handler: a lookup for the *)
(* old item, the write, a lookup for the new one.  Other goroutines call   *)
(* the registry directly.                                                  *)
(***************************************************************************)
EXTENDS Tuning, OpsAnswers

CONSTANTS
  Handlers,            \* the goroutines of Procs that serve requests
  Requests,            \* requests each of them may get
  DirectCalls,         \* calls each of the others may make
  Guards, PrefixesOf   \* the key guards of the handlers, and the prefixes of each key

VARIABLES stage, request, answer
hvars == <<stage, request, answer>>
vars  == <<tvars, hvars>>

NoAnswer == [status |-> 0, error |-> <<>>, items |-> <<>>]

Init ==
  /\ TInit
  /\ stage = [p \in Procs |-> "none"]
  /\ request = [p \in Procs |-> NoCall]
  /\ answer = [p \in Procs |-> NoAnswer]

Allowed(k) == GuardAllows(Guards, k, PrefixesOf)

Asks(p, op)  == request[p].op = op
AskedKey(p)  == request[p].key
Writing      == {"SetFromString", "ResetToDefault", "ResetToLastValue"}
Setting      == {"Set", "SetAny"}

\* The static types of Go: Set on a handle takes a value of the variable's type, a bool is a bool.
ASSUME OpsTuningAssumption ==
  /\ Handlers \subseteq Procs
  /\ \A r \in Requests : r.op \in Writing \cup Reading
  /\ \A c \in DirectCalls :
       /\ c.op \in Writing \cup Reading \cup Setting
       /\ c.op = "Set" => c.key \in Keys /\ c.arg.type = GoType(Config[c.key])
       /\ c.op \in Setting /\ c.arg.type = "bool" => c.arg.value \in BOOLEAN

-----------------------------------------------------------------------------
Receive(p, r) ==
  /\ stage[p] = "none" /\ pc[p] = "idle" /\ calls[p] > 0
  /\ calls' = [calls EXCEPT ![p] = @ - 1]
  /\ stage' = [stage EXCEPT ![p] = "checking"]
  /\ request' = [request EXCEPT ![p] = r]
  /\ UNCHANGED <<values, gate, locals, reads, bound, answer>>

Answers(p, a) ==
  /\ stage' = [stage EXCEPT ![p] = "answered"]
  /\ answer' = [answer EXCEPT ![p] = a]

\* The status the checks of a request come to, before the registry is looked at.
Checked(p) ==
  LET r == request[p]
      malformed == r.key \in Malformed
      allowed == r.key \in Keys => Allowed(r.key)
  IN CASE r.op \in Writing  -> TuningWriteRefusal(r.op, r.method, r.key, malformed, allowed, r.arg)
       [] r.op = "Lookup"   -> TuningLookupStatus(r.method, r.key, malformed, allowed, TRUE)
       [] OTHER             -> TuningReadStatus(r.method)

Refuse(p) ==
  /\ stage[p] = "checking" /\ Checked(p) # 200
  /\ Answers(p, [NoAnswer EXCEPT !.status = Checked(p)])
  /\ UNCHANGED <<tvars, request>>

\* The handler calls the registry and goes on when the call has returned.
Calls(p, next, c) ==
  /\ stage' = [stage EXCEPT ![p] = next]
  /\ Begin(p, c)
  /\ UNCHANGED <<calls, request, answer>>

AskedFor(p, op) == [op |-> op, key |-> AskedKey(p), arg |-> request[p].arg]

LookupOld(p) ==
  /\ stage[p] = "checking" /\ Checked(p) = 200 /\ request[p].op \in Writing
  /\ Calls(p, "old", AskedFor(p, "Lookup"))

ReadOnly(p) ==
  /\ stage[p] = "checking" /\ Checked(p) = 200 /\ request[p].op \notin Writing
  /\ Calls(p, "read", AskedFor(p, request[p].op))

NotFound(p) ==
  /\ stage[p] \in {"old", "read"} /\ pc[p] = "returned" /\ res[p] # "ok"
  /\ Answers(p, [NoAnswer EXCEPT !.status = 404])
  /\ UNCHANGED <<tvars, request>>

\* A snapshot and an export drop the keys the guards refuse.
ReadAnswered(p) ==
  /\ stage[p] = "read" /\ pc[p] = "returned" /\ res[p] = "ok"
  /\ Answers(p, [NoAnswer EXCEPT !.status = 200,
                   !.items = SelectSeq(view[p], LAMBDA it : Allowed(it.key))])
  /\ UNCHANGED <<tvars, request>>

Write(p) ==
  /\ stage[p] = "old" /\ pc[p] = "returned" /\ res[p] = "ok"
  /\ Calls(p, "write", AskedFor(p, request[p].op))

\* isRedactedItem: the shown value or the shown default of the key decides, redacted or written
\* like that.
LooksRedacted(k, it) == it.value = Redacted \/ Shown(Config[k], Default(Config[k])) = Redacted

WriteFailed(p) ==
  /\ stage[p] = "write" /\ pc[p] = "returned" /\ res[p] # "ok"
  /\ Answers(p, [status |-> TuningWriteStatus(res[p]),
                 error  |-> ErrorShown(res[p], LooksRedacted(AskedKey(p), view[p][1])),
                 items  |-> view[p]])
  /\ UNCHANGED <<tvars, request>>

\* Mutant: the old item is answered as the new one.
LookupNewReused(p) ==
  /\ stage[p] = "write" /\ pc[p] = "returned" /\ res[p] = "ok"
  /\ Answers(p, [NoAnswer EXCEPT !.status = 200, !.items = <<view[p][1], view[p][1]>>])
  /\ UNCHANGED <<tvars, request>>

LookupNew(p) ==
  /\ stage[p] = "write" /\ pc[p] = "returned" /\ res[p] = "ok"
  /\ Calls(p, "new", AskedFor(p, "Lookup"))

WriteAnswered(p) ==
  /\ stage[p] = "new" /\ pc[p] = "returned"
  /\ Answers(p, [NoAnswer EXCEPT !.status = 200, !.items = view[p]])
  /\ UNCHANGED <<tvars, request>>

Deliver(p) ==
  /\ stage[p] = "answered"
  /\ stage' = [stage EXCEPT ![p] = "none"]
  /\ request' = [request EXCEPT ![p] = NoCall]
  /\ answer' = [answer EXCEPT ![p] = NoAnswer]
  /\ Forgets(p)
  /\ UNCHANGED <<values, gate, todo, calls, bound>>

-----------------------------------------------------------------------------
HandlerStep(p) ==
  \/ Refuse(p) \/ LookupOld(p) \/ ReadOnly(p) \/ NotFound(p) \/ ReadAnswered(p)
  \/ Write(p) \/ WriteFailed(p) \/ LookupNew(p) \/ WriteAnswered(p) \/ Deliver(p)

DirectStep(p) == p \notin Handlers /\ (Finish(p) \/ \E c \in DirectCalls : Call(p, c))

RegistryStep(p) == WriteStep(p) \/ ReadStep(p)

Next ==
  \/ \E p \in Procs : (RegistryStep(p) \/ DirectStep(p)) /\ UNCHANGED hvars
  \/ BindStep /\ UNCHANGED hvars
  \/ \E p \in Handlers : HandlerStep(p) \/ \E r \in Requests : Receive(p, r)

\* Every goroutine keeps running.  How sync.Mutex treats its waiters is not used: calls are finite.
Fairness ==
  \A p \in Procs : WF_vars(HandlerStep(p) \/ (UNCHANGED hvars /\ (RegistryStep(p) \/ (p \notin Handlers /\ Finish(p)))))

Spec == Init /\ [][Next]_vars /\ Fairness

-----------------------------------------------------------------------------
(* Properties *)

Steps == {"idle", "called", "typed", "locking", "checking", "blocked", "locked", "applying", "source",
          "stamp", "callbacks", "releasing", "unlocking", "looking", "reading", "returned", "selfBlocked"}

Results == {"none", "ok", "invalidKey", "notFound", "typeMismatch", "invalidValue", "reentrant", "noLastValue"}

\* Every variable has, at every moment and whatever was asked for, a value its validation accepts,
\* and so has what an undo would bring back.
TypeOK ==
  /\ \A k \in Keys : \A v \in {cur[k], last[k]} :
       StillValid(Config[k], v)
  /\ hasLast \in [Keys -> BOOLEAN] /\ stamp \in [Keys -> Nat]
  /\ held \in Procs \cup {None} /\ owner \in Procs \cup {None}
  /\ pc \in [Procs -> Steps] /\ res \in [Procs -> Results]

\* The answer to a successful write puts an older state of the variable before a newer one, though
\* others write between its three steps (ops/tuning.go: TuningSetHandler and the two resets).
AnswerOrdered ==
  \A p \in Handlers :
    stage[p] = "answered" /\ answer[p].status = 200 /\ request[p].op \in Writing =>
      answer[p].items[1].updatedAt < answer[p].items[2].updatedAt

Busy(p) == stage[p] # "none" \/ pc[p] \notin {"idle", "returned"}

\* Every call on the registry and every request is over at some time: whatever fails, panics in a
\* callback or is written from one, the gate is given back.
EveryCallReturns ==
  \A p \in Procs : []<>~Busy(p)
=============================================================================
