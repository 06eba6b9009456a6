--------------------------- MODULE TriggerContract ---------------------------
(***************************************************************************)
(* What a task handle promises its callers, without slots, merging, locks  *)
(* or Shutdown's stages: runs start one by one until the manager closes,   *)
(* and each TriggerAndWait is refused, abandoned, answered ErrClosed after *)
(* the close, or answered with the result of one run that started after    *)
(* the request.  TaskRuntime implements this.                              *)
(***************************************************************************)
EXTENDS Integers, Sequences

CONSTANTS Calls, Kinds  \* Kinds: what a finished run may answer

VARIABLES closed,   \* a Shutdown has begun
          results,  \* per run, in the order of starts: "running" or its answer
          call, answer, since

vars == <<closed, results, call, answer, since>>

NoAnswer == [kind |-> "none", run |-> 0]
Closed   == [kind |-> "ErrClosed", run |-> 0]

Init ==
  /\ closed = FALSE
  /\ results = <<>>
  /\ call = [c \in Calls |-> "idle"]
  /\ answer = [c \in Calls |-> NoAnswer]
  /\ since = [c \in Calls |-> 0]

StartRun ==
  /\ ~closed
  /\ results' = Append(results, "running")
  /\ UNCHANGED <<closed, call, answer, since>>

FinishRun(r) ==
  /\ results[r] = "running"
  /\ \E k \in Kinds : results' = [results EXCEPT ![r] = k]
  /\ UNCHANGED <<closed, call, answer, since>>

\* An accepted request may start a run of its own; one that a run will follow need not.
Accept(c) ==
  /\ ~closed
  /\ call[c] = "idle"
  /\ call' = [call EXCEPT ![c] = "waiting"]
  /\ since' = [since EXCEPT ![c] = Len(results)]
  /\ results' \in {results, Append(results, "running")}
  /\ UNCHANGED <<closed, answer>>

Refuse(c) ==
  /\ call[c] = "idle"
  /\ call' = [call EXCEPT ![c] = "returned"]
  /\ \E err \in {"ErrNotRunning", "ErrClosed", "ErrSkipped"} :
       /\ err = "ErrClosed" => closed
       /\ answer' = [answer EXCEPT ![c] = [kind |-> err, run |-> 0]]
  /\ UNCHANGED <<closed, results, since>>

MayAnswer(c, a) ==
  /\ call[c] = "waiting"
  /\ answer[c] = NoAnswer
  /\ \/ closed /\ a = Closed
     \/ \E r \in DOMAIN results : /\ r > since[c]
                                  /\ results[r] # "running"
                                  /\ a = [kind |-> results[r], run |-> r]

AnswerSome ==
  /\ \A c \in Calls : answer'[c] = answer[c] \/ MayAnswer(c, answer'[c])
  /\ DOMAIN answer' = Calls
  /\ UNCHANGED <<closed, results, call, since>>

Return(c) ==
  /\ call[c] = "waiting"
  /\ answer[c] # NoAnswer
  /\ call' = [call EXCEPT ![c] = "returned"]
  /\ UNCHANGED <<closed, results, answer, since>>

Abandon(c) ==
  /\ call[c] = "waiting"
  /\ call' = [call EXCEPT ![c] = "returned"]
  /\ answer' = [answer EXCEPT ![c] = [kind |-> "ctx", run |-> 0]]
  /\ UNCHANGED <<closed, results, since>>

Close == closed' = TRUE /\ UNCHANGED <<results, call, answer, since>>

Next ==
  \/ StartRun \/ AnswerSome \/ Close
  \/ \E r \in DOMAIN results : FinishRun(r)
  \/ \E c \in Calls : Accept(c) \/ Refuse(c) \/ Return(c) \/ Abandon(c)

Spec == Init /\ [][Next]_vars

=============================================================================
