---------------------------- MODULE TuningProofs ----------------------------
(***************************************************************************)
(* Theorems about the write gate of a Tuning registry, for every set of    *)
(* goroutines, with and without ids, every set of variables and every mix  *)
(* of handlers, direct calls, callbacks that write and a LevelVar.         *)
(***************************************************************************)
EXTENDS OpsTuning, SequenceTheorems, TLAPS

Inside == {"locked", "applying", "source", "stamp", "callbacks", "releasing", "unlocking"}
Owning == Inside \ {"locked", "unlocking"}

\* The gate agrees with where the goroutines are: its holder is the one inside, and the owner is
\* stored for as long as values are written and callbacks run, and never for anybody else.
Gated ==
  /\ pc \in [Procs -> Steps] /\ res \in [Procs -> Results]
  /\ \A p \in Procs : pc[p] # "selfBlocked"
  /\ \A p \in Procs : res[p] = "reentrant" => p \in Anonymous
  /\ \A p \in Procs : pc[p] \in Inside <=> held = p
  /\ \A p \in Procs : pc[p] \in Owning => owner = Gid(p)
  /\ \A p \in Procs : owner = p => pc[p] \in Owning

LEMMA GatedInitially ==
  ASSUME Init
  PROVE  Gated
BY TuningAssumption DEF Init, TInit, Gated, Inside, Owning, Steps, Results

\* A step that leaves the gate alone and does not cross its border.
LEMMA StaysOnItsSide ==
  ASSUME Gated, NEW p \in Procs, UNCHANGED gate,
         NEW s \in Steps \ {"selfBlocked"}, pc' = [pc EXCEPT ![p] = s],
         s \in Inside <=> pc[p] \in Inside, s \in Owning <=> pc[p] \in Owning,
         NEW r \in Results, r = "reentrant" => p \in Anonymous,
         res' = [res EXCEPT ![p] = r] \/ UNCHANGED res
  PROVE  Gated'
BY DEF Gated, gate, Gid

LEMMA LeavesGateAlone ==
  ASSUME Gated, UNCHANGED <<gate, pc, res>>
  PROVE  Gated'
BY DEF Gated, gate, Gid

LEMMA CallKeepsGated ==
  ASSUME Gated, NEW p \in Procs, NEW c, pc[p] \notin Inside, Begin(p, c)
  PROVE  Gated'
<1>1. FirstStep(c.op) \in Steps \ {"selfBlocked"} /\ FirstStep(c.op) \notin Inside
  BY DEF FirstStep, Steps, Inside
<1>2. pc' = [pc EXCEPT ![p] = FirstStep(c.op)] /\ res' = [res EXCEPT ![p] = "none"] /\ UNCHANGED gate
  BY DEF Begin
<1>3. "none" \in Results
  BY DEF Results
<1>4. QED
  BY <1>1, <1>2, <1>3, StaysOnItsSide DEF Owning

LEMMA ForgettingKeepsGated ==
  ASSUME Gated, NEW p \in Procs, pc[p] \notin Inside, Forgets(p), UNCHANGED gate
  PROVE  Gated'
<1>1. "idle" \in Steps \ {"selfBlocked"} /\ "idle" \notin Inside /\ "none" \in Results
  BY DEF Steps, Inside, Results
<1>2. pc' = [pc EXCEPT ![p] = "idle"] /\ res' = [res EXCEPT ![p] = "none"]
  BY DEF Forgets
<1>3. QED
  BY <1>1, <1>2, StaysOnItsSide DEF Owning

(***************************************************************************)
(* The steps of a write.                                                   *)
(***************************************************************************)

\* A step that returns outside the gate, or moves without a result.
LEMMA ReturnKeepsGated ==
  ASSUME Gated, NEW p \in Procs, pc[p] \notin Inside, UNCHANGED gate,
         NEW r \in Results, r = "reentrant" => p \in Anonymous, Returns(p, r)
  PROVE  Gated'
<1>1. "returned" \in Steps \ {"selfBlocked"} /\ "returned" \notin Inside
  BY DEF Steps, Inside
<1>2. QED
  BY <1>1, StaysOnItsSide DEF Returns, Owning

LEMMA MoveKeepsGated ==
  ASSUME Gated, NEW p \in Procs, NEW from, NEW to \in Steps \ {"selfBlocked"}, Moves(p, from, to),
         to \in Inside <=> from \in Inside, to \in Owning <=> from \in Owning,
         UNCHANGED <<gate, res>>
  PROVE  Gated'
<1>1. pc[p] = from /\ pc' = [pc EXCEPT ![p] = to] /\ UNCHANGED gate /\ UNCHANGED res
  BY DEF Moves
<1>2. "none" \in Results /\ "none" # "reentrant"
  BY DEF Results
<1>3. QED
  BY <1>1, <1>2, StaysOnItsSide

LEMMA ResolveKeepsGated ==
  ASSUME Gated, NEW p \in Procs, Resolve(p) PROVE Gated'
<1>1. pc[p] = "called" /\ UNCHANGED gate
  BY DEF Resolve
<1>2. CASE Moves(p, "called", "typed") /\ UNCHANGED res
  BY <1>1, <1>2, MoveKeepsGated DEF Steps, Inside, Owning
<1>3. CASE Returns(p, LookupError(Key(p))) /\ LookupError(Key(p)) # "none"
  <2>1. LookupError(Key(p)) \in Results /\ LookupError(Key(p)) # "reentrant"
    BY DEF LookupError, Results
  <2>2. QED
    BY <1>1, <1>3, <2>1, ReturnKeepsGated DEF Inside
<1>4. CASE Returns(p, "typeMismatch")
  BY <1>1, <1>4, ReturnKeepsGated DEF Inside, Results
<1>5. QED
  BY <1>2, <1>3, <1>4 DEF Resolve

LEMMA EnterKeepsGated ==
  ASSUME Gated, NEW p \in Procs, NEW valid, NEW v, pc[p] = "typed", Enter(p, valid, v)
  PROVE  Gated'
<1>1. UNCHANGED gate
  BY DEF Enter
<1>2. CASE Moves(p, "typed", "locking") /\ UNCHANGED res
  BY <1>1, <1>2, MoveKeepsGated DEF Steps, Inside, Owning
<1>3. CASE Returns(p, "invalidValue")
  BY <1>1, <1>3, ReturnKeepsGated DEF Inside, Results
<1>4. QED
  BY <1>2, <1>3 DEF Enter

LEMMA TryLockKeepsGated ==
  ASSUME Gated, NEW p \in Procs, TryLock(p) PROVE Gated'
<1>1. CASE held = None
  <2>1. pc[p] = "locking" /\ pc' = [pc EXCEPT ![p] = "locked"] /\ held' = p /\ UNCHANGED <<owner, res>>
    BY <1>1 DEF TryLock, Moves
  <2>2. QED
    BY <1>1, <2>1, TuningAssumption DEF Gated, Inside, Owning, Steps, Gid
<1>2. CASE held # None
  <2>1. Moves(p, "locking", "checking") /\ UNCHANGED <<gate, res>>
    BY <1>2 DEF TryLock, gate
  <2>2. QED
    BY <2>1, MoveKeepsGated DEF Steps, Inside, Owning
<1>3. QED
  BY <1>1, <1>2

\* A goroutine with an id finds its own id in the owner only when it is inside.
LEMMA CheckOwnerKeepsGated ==
  ASSUME Gated, NEW p \in Procs, CheckOwner(p) PROVE Gated'
<1>1. pc[p] = "checking" /\ UNCHANGED gate
  BY DEF CheckOwner
<1>2. CASE TakenForReentrant(p)
  <2>1. p \in Anonymous
    BY <1>1, <1>2 DEF Gated, TakenForReentrant, Gid, Owning, Inside
  <2>2. Returns(p, "reentrant")
    BY <1>2 DEF CheckOwner
  <2>3. QED
    BY <1>1, <2>1, <2>2, ReturnKeepsGated DEF Inside, Results
<1>3. CASE ~TakenForReentrant(p)
  <2>1. Moves(p, "checking", "blocked") /\ UNCHANGED res
    BY <1>3 DEF CheckOwner
  <2>2. QED
    BY <1>1, <2>1, MoveKeepsGated DEF Steps, Inside, Owning
<1>4. QED
  BY <1>2, <1>3

LEMMA LockKeepsGated ==
  ASSUME Gated, NEW p \in Procs, Lock(p) PROVE Gated'
<1>1. /\ pc[p] = "blocked" /\ pc' = [pc EXCEPT ![p] = "locked"]
      /\ held = None /\ held' = p /\ UNCHANGED <<owner, res>>
  BY DEF Lock, Moves
<1>2. QED
  BY <1>1, TuningAssumption DEF Gated, Inside, Owning, Steps, Gid

LEMMA StoreOwnerKeepsGated ==
  ASSUME Gated, NEW p \in Procs, StoreOwner(p) PROVE Gated'
<1>1. /\ pc[p] = "locked" /\ pc' = [pc EXCEPT ![p] = "applying"]
      /\ owner' = Gid(p) /\ UNCHANGED <<held, res>>
  BY DEF StoreOwner, Moves
<1>2. held = p /\ \A q \in Procs : q # p => pc[q] \notin Inside
  BY <1>1 DEF Gated, Inside
<1>3. QED
  BY <1>1, <1>2, TuningAssumption DEF Gated, Inside, Owning, Steps, Gid

LEMMA UnlockKeepsGated ==
  ASSUME Gated, NEW p \in Procs, Unlock(p) PROVE Gated'
<1>1. CASE pc[p] = "releasing"
  <2>1. pc' = [pc EXCEPT ![p] = "unlocking"] /\ owner' = None /\ UNCHANGED <<held, res>>
    BY <1>1 DEF Unlock, Moves
  <2>2. held = p /\ \A q \in Procs : q # p => pc[q] \notin Inside
    BY <1>1 DEF Gated, Inside
  <2>3. QED
    BY <1>1, <2>1, <2>2, TuningAssumption DEF Gated, Inside, Owning, Steps, Gid
<1>2. CASE pc[p] = "unlocking"
  <2>1. pc' = [pc EXCEPT ![p] = "returned"] /\ held' = None /\ UNCHANGED <<owner, res>>
    BY <1>2 DEF Unlock, Moves
  <2>2. held = p /\ \A q \in Procs : q # p => pc[q] \notin Inside
    BY <1>2 DEF Gated, Inside
  <2>3. QED
    BY <1>2, <2>1, <2>2, TuningAssumption DEF Gated, Inside, Owning, Steps, Gid
<1>3. QED
  BY <1>1, <1>2 DEF Unlock, Moves

\* The write from a callback finds its own goroutine as the owner.
LEMMA NestedWriteKeepsGated ==
  ASSUME Gated, NEW p \in Procs, NestedWrite(p) PROVE Gated'
<1>1. pc[p] = "callbacks" /\ UNCHANGED gate /\ UNCHANGED res
  BY DEF NestedWrite, Due
<1>2. TakenForReentrant(p)
  BY <1>1 DEF Gated, TakenForReentrant, Inside, Owning
<1>3. UNCHANGED pc
  BY <1>2 DEF NestedWrite
<1>4. QED
  BY <1>1, <1>3, LeavesGateAlone

LEMMA InsideKeepsGated ==
  ASSUME Gated, NEW p \in Procs,
         ApplySet(p) \/ NothingToRestore(p) \/ ApplyLast(p) \/ StoreSource(p) \/ StoreStamp(p)
         \/ Callback(p) \/ CallbacksOver(p)
  PROVE  Gated'
<1>1. CASE ApplySet(p)
  <2>1. Moves(p, "applying", "source") /\ UNCHANGED <<gate, res>>
    BY <1>1 DEF ApplySet
  <2>2. QED
    BY <2>1, MoveKeepsGated DEF Steps, Inside, Owning
<1>2. CASE NothingToRestore(p)
  <2>1. pc[p] = "applying" /\ pc' = [pc EXCEPT ![p] = "releasing"]
        /\ res' = [res EXCEPT ![p] = "noLastValue"] /\ UNCHANGED gate
    BY <1>2 DEF NothingToRestore, Moves
  <2>2. QED
    BY <2>1, StaysOnItsSide DEF Steps, Inside, Owning, Results
<1>3. CASE ApplyLast(p)
  <2>1. CASE StillValid(Conf(p), last[Key(p)])
    <3>1. Moves(p, "applying", "source") /\ UNCHANGED <<gate, res>>
      BY <1>3, <2>1 DEF ApplyLast
    <3>2. QED
      BY <3>1, MoveKeepsGated DEF Steps, Inside, Owning
  <2>2. CASE ~StillValid(Conf(p), last[Key(p)])
    <3>1. pc[p] = "applying" /\ pc' = [pc EXCEPT ![p] = "releasing"]
          /\ res' = [res EXCEPT ![p] = "invalidValue"] /\ UNCHANGED gate
      BY <1>3, <2>2 DEF ApplyLast, Moves
    <3>2. QED
      BY <3>1, StaysOnItsSide DEF Steps, Inside, Owning, Results
  <2>3. QED
    BY <2>1, <2>2
<1>4. CASE StoreSource(p)
  <2>1. Moves(p, "source", "stamp") /\ UNCHANGED <<gate, res>>
    BY <1>4 DEF StoreSource
  <2>2. QED
    BY <2>1, MoveKeepsGated DEF Steps, Inside, Owning
<1>5. CASE StoreStamp(p)
  <2>1. Moves(p, "stamp", "callbacks") /\ UNCHANGED <<gate, res>>
    BY <1>5 DEF StoreStamp
  <2>2. QED
    BY <2>1, MoveKeepsGated DEF Steps, Inside, Owning
<1>6. CASE Callback(p)
  BY <1>6, LeavesGateAlone DEF Callback
<1>7. CASE CallbacksOver(p)
  <2>1. pc[p] = "callbacks" /\ pc' = [pc EXCEPT ![p] = "releasing"]
        /\ res' = [res EXCEPT ![p] = "ok"] /\ UNCHANGED gate
    BY <1>7 DEF CallbacksOver, Moves
  <2>2. QED
    BY <2>1, StaysOnItsSide DEF Steps, Inside, Owning, Results
<1>8. QED
  BY <1>1, <1>2, <1>3, <1>4, <1>5, <1>6, <1>7

LEMMA SetKeepsGated ==
  ASSUME Gated, NEW p \in Procs,
         SetBool(p) \/ SetInt64(p) \/ SetDuration(p) \/ SetFloat64(p) \/ SetString(p) \/ SetEnum(p)
  PROVE  Gated'
<1>1. PICK valid, v : pc[p] = "typed" /\ Enter(p, valid, v)
  BY DEF SetBool, SetInt64, SetDuration, SetFloat64, SetString, SetEnum, Sets
<1>2. QED
  BY <1>1, EnterKeepsGated

LEMMA WriteKeepsGated ==
  ASSUME Gated, NEW p \in Procs, WriteStep(p) PROVE Gated'
<1>1. CASE ResetLast(p)
  <2>1. Moves(p, "typed", "locking") /\ UNCHANGED <<gate, res>>
    BY <1>1 DEF ResetLast
  <2>2. QED
    BY <2>1, MoveKeepsGated DEF Steps, Inside, Owning
<1>2. QED
  BY <1>1, ResolveKeepsGated, SetKeepsGated, TryLockKeepsGated, CheckOwnerKeepsGated, LockKeepsGated,
     StoreOwnerKeepsGated, UnlockKeepsGated, InsideKeepsGated, NestedWriteKeepsGated DEF WriteStep

(***************************************************************************)
(* Reads, handlers and LevelVar.                                           *)
(***************************************************************************)

LEMMA ReadKeepsGated ==
  ASSUME Gated, NEW p \in Procs, ReadStep(p) PROVE Gated'
<1>1. CASE Look(p)
  <2>1. pc[p] = "looking" /\ UNCHANGED gate
    BY <1>1 DEF Look
  <2>2. CASE Moves(p, "looking", "reading") /\ UNCHANGED res
    BY <2>1, <2>2, MoveKeepsGated DEF Steps, Inside, Owning
  <2>3. CASE Returns(p, LookupError(Key(p)))
    <3>1. LookupError(Key(p)) \in Results /\ LookupError(Key(p)) # "reentrant"
      BY DEF LookupError, Results
    <3>2. QED
      BY <2>1, <2>3, <3>1, ReturnKeepsGated DEF Inside
  <2>4. QED
    BY <1>1, <2>2, <2>3 DEF Look
<1>2. CASE ReadField(p)
  BY <1>2, LeavesGateAlone DEF ReadField
<1>3. CASE ReadOverride(p)
  BY <1>3, LeavesGateAlone DEF ReadOverride
<1>4. CASE ReadOver(p)
  <2>1. pc[p] = "reading" /\ pc' = [pc EXCEPT ![p] = "returned"]
        /\ res' = [res EXCEPT ![p] = "ok"] /\ UNCHANGED gate
    BY <1>4 DEF ReadOver, Moves
  <2>2. QED
    BY <2>1, StaysOnItsSide DEF Steps, Inside, Owning, Results
<1>5. QED
  BY <1>1, <1>2, <1>3, <1>4 DEF ReadStep

LEMMA BindKeepsGated ==
  ASSUME Gated, BindStep PROVE Gated'
BY LeavesGateAlone DEF BindStep, BindRegisters, BindReads, BindSyncs, locals

LEMMA DirectKeepsGated ==
  ASSUME Gated, NEW p \in Procs, DirectStep(p) PROVE Gated'
<1>1. CASE Finish(p)
  <2>1. pc[p] \notin Inside /\ Forgets(p) /\ UNCHANGED gate
    BY <1>1 DEF Finish, Inside
  <2>2. QED
    BY <2>1, ForgettingKeepsGated
<1>2. CASE \E c \in DirectCalls : Call(p, c)
  <2>1. PICK c \in DirectCalls : Begin(p, c) /\ pc[p] \notin Inside
    BY <1>2 DEF Call, Inside
  <2>2. QED
    BY <2>1, CallKeepsGated
<1>3. QED
  BY <1>1, <1>2 DEF DirectStep

Stages == {"none", "checking", "old", "read", "write", "new", "answered"}

\* A handler may only be between two calls, or waiting for its request or its answer to be taken.
HandlersWait ==
  /\ stage \in [Procs -> Stages]
  /\ \A p \in Handlers : stage[p] \in {"checking", "answered"} => pc[p] \in {"idle", "returned"}

LEMMA HandlerKeepsGated ==
  ASSUME Gated, HandlersWait, NEW p \in Handlers, HandlerStep(p) \/ \E r \in Requests : Receive(p, r)
  PROVE  Gated'
<1>1. p \in Procs
  BY OpsTuningAssumption
<1>2. CASE LookupOld(p) \/ ReadOnly(p) \/ Write(p) \/ LookupNew(p)
  <2>1. pc[p] \notin Inside
    BY <1>2 DEF LookupOld, ReadOnly, Write, LookupNew, HandlersWait, Inside
  <2>2. PICK c : Begin(p, c)
    BY <1>2 DEF LookupOld, ReadOnly, Write, LookupNew, Calls
  <2>3. QED
    BY <1>1, <2>1, <2>2, CallKeepsGated
<1>3. CASE Deliver(p)
  <2>1. pc[p] \notin Inside /\ Forgets(p) /\ UNCHANGED gate
    BY <1>3 DEF Deliver, HandlersWait, Inside
  <2>2. QED
    BY <1>1, <2>1, ForgettingKeepsGated
<1>4. CASE Refuse(p) \/ NotFound(p) \/ ReadAnswered(p) \/ WriteFailed(p) \/ WriteAnswered(p)
  <2>1. UNCHANGED tvars
    BY <1>4 DEF Refuse, NotFound, ReadAnswered, WriteFailed, WriteAnswered
  <2>2. QED
    BY <2>1, LeavesGateAlone DEF tvars, locals
<1>5. CASE \E r \in Requests : Receive(p, r)
  BY <1>5, LeavesGateAlone DEF Receive, locals
<1>6. QED
  BY <1>2, <1>3, <1>4, <1>5 DEF HandlerStep

\* A step in the registry is one of a goroutine that is in a call, and moves nobody else.
LEMMA RegistryStepsInCall ==
  ASSUME NEW p \in Procs, RegistryStep(p), pc \in [Procs -> Steps]
  PROVE  /\ pc[p] \notin {"idle", "returned"}
         /\ \A q \in Procs \ {p} : pc'[q] = pc[q]
<1> DEFINE Others == \A q \in Procs \ {p} : pc'[q] = pc[q]
<1>1. ASSUME NEW from \in Steps \ {"idle", "returned"}, NEW to, Moves(p, from, to)
      PROVE  pc[p] \notin {"idle", "returned"} /\ Others
  BY <1>1 DEF Moves
<1>2. ASSUME NEW r, Returns(p, r) PROVE Others
  BY <1>2 DEF Returns
<1>3. CASE Resolve(p)
  BY <1>3, <1>2, <1>1 DEF Resolve, Steps
<1>4. CASE SetBool(p) \/ SetInt64(p) \/ SetDuration(p) \/ SetFloat64(p) \/ SetString(p) \/ SetEnum(p)
  <2>1. PICK valid, v : pc[p] = "typed" /\ Enter(p, valid, v)
    BY <1>4 DEF SetBool, SetInt64, SetDuration, SetFloat64, SetString, SetEnum, Sets
  <2>2. QED
    BY <2>1, <1>1, <1>2 DEF Enter, Steps
<1>5. CASE ResetLast(p) \/ TryLock(p) \/ CheckOwner(p) \/ Lock(p) \/ StoreOwner(p) \/ Unlock(p)
  BY <1>5 DEF ResetLast, TryLock, CheckOwner, Lock, StoreOwner, Unlock, Moves, Returns
<1>6. CASE ApplySet(p) \/ NothingToRestore(p) \/ ApplyLast(p) \/ StoreSource(p) \/ StoreStamp(p)
           \/ CallbacksOver(p)
  BY <1>6 DEF ApplySet, NothingToRestore, ApplyLast, StoreSource, StoreStamp, CallbacksOver, Moves
<1>7. CASE Callback(p) \/ NestedWrite(p)
  BY <1>7 DEF Callback, NestedWrite, Due, Moves
<1>8. CASE ReadStep(p)
  BY <1>8 DEF ReadStep, Look, ReadField, ReadOverride, ReadOver, Moves, Returns
<1>9. QED
  BY <1>3, <1>4, <1>5, <1>6, <1>7, <1>8 DEF RegistryStep, WriteStep

Invariant == Gated /\ HandlersWait

LEMMA HandlersKeepWaiting ==
  ASSUME Invariant, [Next]_vars, Gated'
  PROVE  HandlersWait'
<1> USE OpsTuningAssumption DEF Invariant
<1>1. ASSUME NEW p \in Procs, RegistryStep(p), UNCHANGED hvars PROVE HandlersWait'
  <2>1. pc[p] \notin {"idle", "returned"} /\ \A q \in Procs \ {p} : pc'[q] = pc[q]
    BY <1>1, RegistryStepsInCall DEF Gated
  <2>2. QED
    BY <1>1, <2>1 DEF HandlersWait, hvars
<1>2. ASSUME NEW p \in Procs, DirectStep(p), UNCHANGED hvars PROVE HandlersWait'
  <2>1. p \notin Handlers /\ \A q \in Procs \ {p} : pc'[q] = pc[q]
    BY <1>2 DEF DirectStep, Finish, Forgets, Call, Begin, Gated
  <2>2. QED
    BY <1>2, <2>1 DEF HandlersWait, hvars
<1>3. ASSUME BindStep, UNCHANGED hvars PROVE HandlersWait'
  BY <1>3 DEF HandlersWait, hvars, BindStep, BindRegisters, BindReads, BindSyncs, locals
<1>4. ASSUME NEW p \in Handlers, NEW r \in Requests, Receive(p, r) PROVE HandlersWait'
  <2>1. stage' = [stage EXCEPT ![p] = "checking"] /\ UNCHANGED pc /\ pc[p] = "idle"
    BY <1>4 DEF Receive, locals
  <2>2. QED
    BY <2>1 DEF HandlersWait, Stages
<1>5. ASSUME NEW p \in Handlers, HandlerStep(p) PROVE HandlersWait'
  <2>1. CASE Refuse(p) \/ NotFound(p) \/ ReadAnswered(p) \/ WriteFailed(p) \/ WriteAnswered(p)
    <3>1. stage[p] = "checking" \/ pc[p] = "returned"
      BY <2>1 DEF Refuse, NotFound, ReadAnswered, WriteFailed, WriteAnswered
    <3>2. UNCHANGED pc
      BY <2>1 DEF Refuse, NotFound, ReadAnswered, WriteFailed, WriteAnswered, tvars, locals
    <3>3. stage' = [stage EXCEPT ![p] = "answered"]
      BY <2>1 DEF Refuse, NotFound, ReadAnswered, WriteFailed, WriteAnswered, Answers
    <3>4. pc[p] \in {"idle", "returned"}
      BY <3>1 DEF HandlersWait, Stages
    <3>5. QED
      BY <3>2, <3>3, <3>4 DEF HandlersWait, Stages
  <2>2. CASE LookupOld(p) \/ ReadOnly(p) \/ Write(p) \/ LookupNew(p)
    <3>1. PICK next \in {"old", "read", "write", "new"} : \E op : Calls(p, next, AskedFor(p, op))
      BY <2>2 DEF LookupOld, ReadOnly, Write, LookupNew
    <3>2. PICK op : Calls(p, next, AskedFor(p, op))
      BY <3>1
    <3>3. stage' = [stage EXCEPT ![p] = next] /\ pc' = [pc EXCEPT ![p] = FirstStep(op)]
      BY <3>2 DEF Calls, Begin, AskedFor
    <3>4. QED
      BY <3>3 DEF HandlersWait, Gated, Stages
  <2>3. CASE Deliver(p)
    <3>1. stage' = [stage EXCEPT ![p] = "none"] /\ pc' = [pc EXCEPT ![p] = "idle"]
      BY <2>3 DEF Deliver, Forgets
    <3>2. QED
      BY <3>1 DEF HandlersWait, Gated, Stages
  <2>4. QED
    BY <1>5, <2>1, <2>2, <2>3 DEF HandlerStep
<1>6. CASE UNCHANGED vars
  BY <1>6 DEF HandlersWait, vars, tvars, hvars, locals
<1>7. QED
  BY <1>1, <1>2, <1>3, <1>4, <1>5, <1>6 DEF Next

LEMMA StepKeepsGated ==
  ASSUME Invariant, [Next]_vars
  PROVE  Gated'
<1> USE DEF Invariant
<1>1. ASSUME NEW p \in Procs, RegistryStep(p) PROVE Gated'
  BY <1>1, WriteKeepsGated, ReadKeepsGated DEF RegistryStep
<1>2. ASSUME NEW p \in Procs, DirectStep(p) PROVE Gated'
  BY <1>2, DirectKeepsGated
<1>3. CASE BindStep
  BY <1>3, BindKeepsGated
<1>4. ASSUME NEW p \in Handlers, HandlerStep(p) \/ \E r \in Requests : Receive(p, r) PROVE Gated'
  BY <1>4, HandlerKeepsGated
<1>5. CASE UNCHANGED vars
  BY <1>5, LeavesGateAlone DEF vars, tvars, locals
<1>6. QED
  BY <1>1, <1>2, <1>3, <1>4, <1>5 DEF Next

LEMMA InvariantInitially == Init => Invariant
<1> SUFFICES ASSUME Init PROVE Invariant
  OBVIOUS
<1>1. stage = [p \in Procs |-> "none"] /\ pc = [p \in Procs |-> "idle"]
  BY DEF Init, TInit
<1>2. HandlersWait
  BY <1>1, OpsTuningAssumption DEF HandlersWait, Stages
<1>3. QED
  BY <1>2, GatedInitially DEF Invariant

LEMMA InvariantKept == Invariant /\ [Next]_vars => Invariant'
<1> SUFFICES ASSUME Invariant, [Next]_vars PROVE Invariant'
  OBVIOUS
<1>1. Gated'
  BY StepKeepsGated
<1>2. HandlersWait'
  BY <1>1, HandlersKeepWaiting
<1>3. QED
  BY <1>1, <1>2 DEF Invariant

\* A write from inside a callback is refused and never waits for itself, and no goroutine with an id
\* is ever refused from outside: the mutex and the owner, set and cleared in separate steps, never
\* let a goroutine see its own id unless it is inside.
THEOREM ReentrancyDetected == Spec => []ReentrantDetected
<1>1. Init => Invariant
  BY InvariantInitially
<1>2. Invariant /\ [Next]_vars => Invariant'
  BY InvariantKept
<1>3. Invariant => ReentrantDetected
  BY DEF Invariant, Gated, ReentrantDetected
<1>4. QED
  BY <1>1, <1>2, <1>3, PTL DEF Spec

\* Two writes of one registry, with their callbacks, never overlap, whatever variables they are of.
WritesSerialized == \A p, q \in Procs : pc[p] \in Inside /\ pc[q] \in Inside => p = q

THEOREM WritesAreSerialized == Spec => []WritesSerialized
<1>1. Init => Invariant
  BY InvariantInitially
<1>2. Invariant /\ [Next]_vars => Invariant'
  BY InvariantKept
<1>3. Invariant => WritesSerialized
  BY DEF Invariant, Gated, WritesSerialized
<1>4. QED
  BY <1>1, <1>2, <1>3, PTL DEF Spec

-----------------------------------------------------------------------------
(* What is stored.  A goroutine inside the gate is between two stores; the  *)
(* invariant says what each store has left to the next one.                 *)

Resolved  == {"typed", "locking", "checking", "blocked"} \cup Inside
Proposing == {"locking", "checking", "blocked", "locked", "applying"}
Written   == {"source", "stamp", "callbacks"}

\* The functions keep their domains.
Shaped ==
  /\ DOMAIN cur = Keys /\ DOMAIN src = Keys /\ DOMAIN last = Keys
  /\ hasLast \in [Keys -> BOOLEAN] /\ stamp \in [Keys -> Nat]
  /\ held \in Procs \cup {None} /\ owner \in Procs \cup {None}
  /\ DOMAIN call = Procs /\ DOMAIN val = Procs /\ at \in [Procs -> Nat]
  /\ registered \subseteq Keys /\ DOMAIN binder = {"at", "read", "stamp"}

ValuesValid == \A k \in Keys : StillValid(Config[k], cur[k]) /\ StillValid(Config[k], last[k])

\* What is known of a call while it is in progress: its key is registered once it was looked up, its
\* argument has the type of the variable, what it proposes is valid, and what it wrote is there.
CallOf(p) ==
  /\ call[p].op \in Setting /\ call[p].arg.type = "bool" => call[p].arg.value \in BOOLEAN
  /\ pc[p] \in {"called", "typed"} => call[p].op \in Writing \cup Setting
  /\ pc[p] = "called" => call[p].op # "Set"
  /\ pc[p] \in Resolved => Key(p) \in Keys
  /\ pc[p] = "typed" /\ call[p].op \in Setting => call[p].arg.type = GoType(Conf(p))
  /\ pc[p] \in Proposing /\ call[p].op # "ResetToLastValue" => StillValid(Conf(p), val[p])
  /\ pc[p] \in Written => cur[Key(p)] = val[p]
  /\ pc[p] = "callbacks" => at[p] > 0

RightSource(k) == IF Overridden(Config[k], cur[k]) THEN "runtime-set" ELSE "default"

\* A source is only wrong between the store of a value and that of its source.
Sourced == \A k \in Keys : src[k] = RightSource(k) \/ \E p \in Procs : pc[p] = "source" /\ Key(p) = k

\* The level is only behind a later write of its key until that write's callback has set it.
LevelDue(p) ==
  /\ Key(p) = LevelKey
  /\ \/ pc[p] \in {"source", "stamp"}
     \/ pc[p] = "callbacks" /\ \A i \in DOMAIN Conf(p).callbacks : i < at[p] => Conf(p).callbacks[i] # "level"

Levelled ==
  binder.at = "bound" /\ stamp[LevelKey] > binder.stamp =>
    level = cur[LevelKey] \/ \E p \in Procs : LevelDue(p)

\* A handler serves a request of its own, and calls a write API for a write.
HandlersAsk ==
  /\ DOMAIN request = Procs
  /\ \A p \in Handlers : /\ stage[p] # "none" => request[p] \in Requests
                         /\ stage[p] \in {"old", "write", "new"} => request[p].op \in Writing

Stored == Shaped /\ ValuesValid /\ (\A p \in Procs : CallOf(p)) /\ Sourced /\ Levelled /\ HandlersAsk

-----------------------------------------------------------------------------
(* The texts and checks of the six types give values that are still valid. *)

LEMMA DefaultValid ==
  ASSUME NEW k \in Keys
  PROVE  StillValid(Config[k], Default(Config[k]))
<1> DEFINE c == Config[k]
<1>1. c.kind \in Kinds /\ ~ConfigRefused(c) /\ (c.kind = "bool" => c.def \in BOOLEAN)
  BY TuningAssumption
<1>2. CASE c.kind = "bool"
  BY <1>1, <1>2 DEF StillValid, RestorableBool, Default
<1>3. CASE c.kind = "int64"
  BY <1>1, <1>3 DEF StillValid, RestorableInt64, Default, ConfigRefused, Int64Refused
<1>4. CASE c.kind = "duration"
  BY <1>1, <1>4 DEF StillValid, RestorableDuration, Default, ConfigRefused, DurationRefused
<1>5. CASE c.kind = "float64"
  BY <1>1, <1>5 DEF StillValid, RestorableFloat64, Default, ConfigRefused, Float64Refused
<1>6. CASE c.kind = "string"
  BY <1>1, <1>6 DEF StillValid, RestorableString, Default, ConfigRefused, StringRefused
<1>7. CASE c.kind = "enum"
  <2>1. EnumParse(c, c.def) # Bad
    BY <1>1, <1>7 DEF ConfigRefused, EnumRefused
  <2>2. \E i \in DOMAIN c.allowed : c.allowed[i] = EnumParse(c, c.def)
    BY <2>1 DEF EnumParse
  <2> QED BY <1>7, <2>2 DEF StillValid, RestorableEnum, Default
<1> QED BY <1>1, <1>2, <1>3, <1>4, <1>5, <1>6, <1>7 DEF Kinds

\* A bool that was found is one: in a text, in the default or in what was passed.
LEMMA BoolFound ==
  ASSUME NEW p \in Procs, CallOf(p), SetBool(p), Candidate(p) # Bad
  PROVE  Candidate(p) \in BOOLEAN
<1>1. /\ pc[p] = "typed" /\ call[p].op # "ResetToLastValue" /\ Conf(p).kind = "bool"
      /\ Key(p) \in Keys
      /\ call[p].op \in {"SetFromString", "ResetToDefault"} \cup Setting
  BY DEF SetBool, Sets, CallOf, Resolved, Writing
<1>2. CASE call[p].op = "SetFromString"
  BY <1>1, <1>2 DEF Candidate, FromText, ParseBool
<1>3. CASE call[p].op = "ResetToDefault"
  BY <1>1, <1>3, TuningAssumption DEF Candidate, Default, Conf
<1>4. CASE call[p].op \in Setting
  BY <1>1, <1>4 DEF Candidate, CallOf, GoType, Setting
<1> QED BY <1>1, <1>2, <1>3, <1>4

\* What Set goes on with is valid.
LEMMA EnteredValid ==
  ASSUME NEW p \in Procs, CallOf(p),
         SetBool(p) \/ SetInt64(p) \/ SetDuration(p) \/ SetFloat64(p) \/ SetString(p) \/ SetEnum(p)
  PROVE  \E valid, v : /\ pc[p] = "typed" /\ Enter(p, valid, v)
                       /\ valid => StillValid(Conf(p), v)
<1>1. CASE SetBool(p)
  <2>1. Candidate(p) # Bad => StillValid(Conf(p), Candidate(p))
    BY <1>1, BoolFound DEF SetBool, Sets, StillValid, RestorableBool
  <2> QED BY <1>1, <2>1 DEF SetBool, Sets
<1>2. CASE SetInt64(p)
  <2>1. ValidInt64(Conf(p), Candidate(p)) => StillValid(Conf(p), Candidate(p))
    BY <1>2 DEF SetInt64, Sets, StillValid, RestorableInt64
  <2> QED BY <1>2, <2>1 DEF SetInt64, Sets
<1>3. CASE SetDuration(p)
  <2>1. ValidDuration(Conf(p), Candidate(p)) => StillValid(Conf(p), Candidate(p))
    BY <1>3 DEF SetDuration, Sets, StillValid, RestorableDuration
  <2> QED BY <1>3, <2>1 DEF SetDuration, Sets
<1>4. CASE SetFloat64(p)
  <2>1. ValidFloat64(Conf(p), Candidate(p)) => StillValid(Conf(p), Candidate(p))
    BY <1>4 DEF SetFloat64, Sets, StillValid, RestorableFloat64
  <2> QED BY <1>4, <2>1 DEF SetFloat64, Sets
<1>5. CASE SetString(p)
  <2>1. ValidString(Conf(p), Candidate(p)) => StillValid(Conf(p), Candidate(p))
    BY <1>5 DEF SetString, Sets, StillValid, RestorableString
  <2> QED BY <1>5, <2>1 DEF SetString, Sets
<1>6. CASE SetEnum(p)
  <2> DEFINE v == EnumParse(Conf(p), Candidate(p))
  <2>1. v # Bad => \E i \in DOMAIN Conf(p).allowed : Conf(p).allowed[i] = v
    BY DEF EnumParse
  <2>2. v # Bad => StillValid(Conf(p), v)
    BY <1>6, <2>1 DEF SetEnum, Sets, StillValid, RestorableEnum
  <2>3. pc[p] = "typed" /\ Enter(p, v # Bad, v)
    BY <1>6 DEF SetEnum, Sets
  <2> QED BY <2>2, <2>3
<1> QED BY <1>1, <1>2, <1>3, <1>4, <1>5, <1>6

-----------------------------------------------------------------------------
(* Which steps there are: one goroutine moves, and most moves store nothing. *)

Others(p) == \A q \in Procs \ {p} : /\ pc'[q] = pc[q] /\ call'[q] = call[q]
                                    /\ val'[q] = val[q] /\ at'[q] = at[q]

\* A goroutine moves on in the call it is in, without a new value and not to a store.
Goes(p) ==
  /\ call'[p] = call[p] /\ val'[p] = val[p]
  /\ pc'[p] \in {"called", "typed"} => pc'[p] = pc[p]
  /\ pc'[p] \in Resolved => pc[p] \in Resolved
  /\ pc'[p] \in Proposing /\ call[p].op # "ResetToLastValue" => pc[p] \in Proposing
  /\ pc'[p] \in Written => pc[p] \in Written /\ cur' = cur
  /\ pc'[p] = "callbacks" => at'[p] > 0

\* A step that stores no value, no source, no time and no level, and is not between two of them.
Plain(p) ==
  /\ UNCHANGED <<values, level, binder>> /\ registered' = registered
  /\ pc[p] \notin Written /\ pc'[p] \notin Written
  /\ Others(p)

LEMMA GoingKeepsCall ==
  ASSUME NEW p \in Procs, CallOf(p), Goes(p)
  PROVE  CallOf(p)'
BY DEF CallOf, Goes, Key, Conf

LEMMA OthersKeepCall ==
  ASSUME NEW p \in Procs, NEW q \in Procs, CallOf(q), pc'[q] = pc[q], call'[q] = call[q],
         val'[q] = val[q], at'[q] = at[q], pc[q] \in Written => cur' = cur
  PROVE  CallOf(q)'
BY DEF CallOf, Key, Conf

\* A call begins with an argument of the right type.
Fits(c) ==
  /\ c.op \in Writing \cup Reading \cup Setting
  /\ c.op = "Set" => c.key \in Keys /\ c.arg.type = GoType(Config[c.key])
  /\ c.op \in Setting /\ c.arg.type = "bool" => c.arg.value \in BOOLEAN

LEMMA BeginningFits ==
  ASSUME Gated, Shaped, NEW p \in Procs, NEW c, Fits(c), Begin(p, c), pc[p] \notin Written
  PROVE  CallOf(p)' /\ Plain(p)
<1>1. /\ pc'[p] = FirstStep(c.op) /\ call'[p] = c
      /\ UNCHANGED <<values, level, binder>> /\ registered' = registered
      /\ Others(p)
  BY DEF Begin, Gated, Shaped, Others, bound
<1>2. FirstStep(c.op) \in {"typed", "looking", "called"}
  BY DEF FirstStep
<1>3. /\ FirstStep(c.op) \in {"called", "typed"} => c.op \in Writing \cup Setting
      /\ FirstStep(c.op) = "typed" <=> c.op = "Set"
  BY DEF Fits, FirstStep, Reading
<1>4. CallOf(p)'
  BY <1>1, <1>2, <1>3 DEF CallOf, Fits, Key, Conf, Resolved, Inside, Proposing, Written, Setting
<1> QED BY <1>1, <1>2, <1>4 DEF Plain, Written

LEMMA ForgettingFits ==
  ASSUME Gated, Shaped, NEW p \in Procs, Forgets(p), UNCHANGED <<values, bound>>, pc[p] \notin Written
  PROVE  CallOf(p)' /\ Plain(p)
<1>1. pc'[p] = "idle" /\ call'[p] = NoCall /\ Others(p)
  BY DEF Forgets, Gated, Shaped, Others
<1>2. CallOf(p)'
  <2>1. call'[p].op = "none"
    <3>1. NoCall.op = "none"
      BY DEF NoCall
    <3> QED BY <1>1, <3>1
  <2> QED BY <1>1, <2>1 DEF CallOf, Resolved, Inside, Proposing, Written, Setting
<1> QED BY <1>1, <1>2 DEF Plain, Written, bound

LEMMA ResolvingFits ==
  ASSUME Gated, Shaped, NEW p \in Procs, CallOf(p), Resolve(p)
  PROVE  CallOf(p)' /\ Plain(p)
<1>1. /\ pc[p] = "called" /\ UNCHANGED <<values, level, binder>> /\ registered' = registered
      /\ call' = call /\ val' = val /\ at' = at
  BY DEF Resolve, bound
<1>2. CASE \E r : Returns(p, r)
  <2>1. pc'[p] = "returned" /\ Others(p)
    BY <1>1, <1>2 DEF Returns, Gated, Others
  <2>2. Goes(p)
    BY <1>1, <2>1 DEF Goes, Resolved, Inside, Proposing, Written
  <2> QED BY <1>1, <2>1, <2>2, GoingKeepsCall DEF Plain, Written
<1>3. CASE /\ LookupError(Key(p)) = "none" /\ Moves(p, "called", "typed")
           /\ call[p].op = "SetAny" => call[p].arg.type = GoType(Conf(p))
  <2>1. pc'[p] = "typed" /\ Others(p)
    BY <1>1, <1>3 DEF Moves, Gated, Others
  <2>2. Key(p) \in Keys
    BY <1>3 DEF LookupError, Shaped
  <2>3. call[p].op # "Set"
    BY <1>1 DEF CallOf
  <2>4. CallOf(p)'
    BY <1>1, <1>3, <2>1, <2>2, <2>3
       DEF CallOf, Key, Conf, Resolved, Inside, Proposing, Written, Setting
  <2> QED BY <1>1, <2>1, <2>4 DEF Plain, Written
<1> QED BY <1>2, <1>3 DEF Resolve

LEMMA EnteringFits ==
  ASSUME Gated, Shaped, NEW p \in Procs, CallOf(p),
         SetBool(p) \/ SetInt64(p) \/ SetDuration(p) \/ SetFloat64(p) \/ SetString(p) \/ SetEnum(p)
  PROVE  CallOf(p)' /\ Plain(p)
<1>1. PICK valid, v : pc[p] = "typed" /\ Enter(p, valid, v) /\ (valid => StillValid(Conf(p), v))
  BY EnteredValid
<1>2. UNCHANGED <<values, level, binder>> /\ registered' = registered /\ call' = call /\ at' = at
  BY <1>1 DEF Enter, bound
<1>3. CASE valid
  <2>1. pc' = [pc EXCEPT ![p] = "locking"] /\ val' = [val EXCEPT ![p] = v]
    BY <1>1, <1>3 DEF Enter, Moves
  <2>2. pc'[p] = "locking" /\ val'[p] = v /\ Others(p)
    BY <1>2, <2>1 DEF Gated, Shaped, Others
  <2>3. CallOf(p)'
    BY <1>1, <1>2, <1>3, <2>2 DEF CallOf, Key, Conf, Resolved, Inside, Proposing, Written
  <2> QED BY <1>1, <1>2, <2>2, <2>3 DEF Plain, Written
<1>4. CASE ~valid
  <2>1. pc' = [pc EXCEPT ![p] = "returned"] /\ val' = val
    BY <1>1, <1>4 DEF Enter, Returns
  <2>2. pc'[p] = "returned" /\ Others(p)
    BY <1>2, <2>1 DEF Gated, Others
  <2>3. Goes(p)
    BY <1>2, <2>1, <2>2 DEF Goes, Resolved, Inside, Proposing, Written
  <2> QED BY <1>1, <1>2, <2>2, <2>3, GoingKeepsCall DEF Plain, Written
<1> QED BY <1>3, <1>4

\* A move between two steps where nothing is stored.
LEMMA MovingFits ==
  ASSUME Gated, NEW p \in Procs, CallOf(p), UNCHANGED <<values, bound, call, val, at>>,
         NEW to, pc' = [pc EXCEPT ![p] = to],
         pc[p] \notin Written, to \notin Written, to \notin {"called", "typed"},
         to \in Resolved => pc[p] \in Resolved,
         to \in Proposing /\ call[p].op # "ResetToLastValue" => pc[p] \in Proposing
  PROVE  CallOf(p)' /\ Plain(p)
<1>1. pc'[p] = to /\ Others(p)
  BY DEF Gated, Others
<1>2. Goes(p)
  BY <1>1 DEF Goes, Written
<1> QED BY <1>1, <1>2, GoingKeepsCall DEF Plain, bound

LEMMA GateStepsFit ==
  ASSUME Gated, NEW p \in Procs, CallOf(p),
         ResetLast(p) \/ TryLock(p) \/ CheckOwner(p) \/ Lock(p) \/ StoreOwner(p) \/ Unlock(p)
         \/ NothingToRestore(p)
  PROVE  CallOf(p)' /\ Plain(p)
<1> DEFINE Outside(to) ==
             /\ pc' = [pc EXCEPT ![p] = to]
             /\ pc[p] \notin Written /\ to \notin Written /\ to \notin {"called", "typed"}
             /\ to \in Resolved => pc[p] \in Resolved
             /\ to \in Proposing /\ call[p].op # "ResetToLastValue" => pc[p] \in Proposing
<1>1. UNCHANGED <<values, bound, call, val, at>>
  BY DEF ResetLast, TryLock, CheckOwner, Lock, StoreOwner, Unlock, NothingToRestore
<1>2. PICK to : Outside(to)
  <2> USE DEF Resolved, Inside, Proposing, Written, Moves, Returns
  <2>1. CASE ResetLast(p)
    <3>1. Outside("locking") BY <2>1 DEF ResetLast
    <3> QED BY <3>1
  <2>2. CASE TryLock(p)
    <3>1. Outside("locked") \/ Outside("checking") BY <2>2 DEF TryLock
    <3> QED BY <3>1
  <2>3. CASE CheckOwner(p)
    <3>1. Outside("returned") \/ Outside("blocked") BY <2>3 DEF CheckOwner
    <3> QED BY <3>1
  <2>4. CASE Lock(p) \/ StoreOwner(p)
    <3>1. Outside("locked") \/ Outside("applying") BY <2>4 DEF Lock, StoreOwner
    <3> QED BY <3>1
  <2>5. CASE Unlock(p)
    <3>1. Outside("unlocking") \/ Outside("returned") BY <2>5 DEF Unlock
    <3> QED BY <3>1
  <2>6. CASE NothingToRestore(p)
    <3>1. Outside("releasing") BY <2>6 DEF NothingToRestore
    <3> QED BY <3>1
  <2> QED BY <2>1, <2>2, <2>3, <2>4, <2>5, <2>6
<1> QED BY <1>1, <1>2, MovingFits

\* A read stores nothing.
LEMMA ReadingFits ==
  ASSUME Gated, Shaped, NEW p \in Procs, CallOf(p), ReadStep(p)
  PROVE  CallOf(p)' /\ Plain(p)
<1>1. /\ pc[p] \in {"looking", "reading"} /\ pc'[p] \in {"looking", "reading", "returned"}
      /\ UNCHANGED <<values, bound, call, val>>
      /\ \A q \in Procs \ {p} : pc'[q] = pc[q] /\ at'[q] = at[q]
  BY DEF ReadStep, Look, ReadField, ReadOverride, ReadOver, Moves, Returns, Gated, Shaped
<1>2. Goes(p)
  BY <1>1 DEF Goes, Resolved, Inside, Proposing, Written
<1> QED BY <1>1, <1>2, GoingKeepsCall DEF Plain, Others, Written, bound

\* So does a handler: it begins a call that fits, forgets one, or is between two.
LEMMA HandlingFits ==
  ASSUME Gated, HandlersWait, Shaped, HandlersAsk, NEW p \in Handlers, p \in Procs, CallOf(p),
         HandlerStep(p) \/ \E r \in Requests : Receive(p, r)
  PROVE  CallOf(p)' /\ (Plain(p) \/ UNCHANGED <<values, locals, bound>>)
<1>1. CASE LookupOld(p) \/ ReadOnly(p) \/ Write(p) \/ LookupNew(p)
  <2>1. pc[p] \notin Written
    BY <1>1 DEF LookupOld, ReadOnly, Write, LookupNew, HandlersWait, Written
  <2>2. request[p].op \in Writing \cup Reading
    BY <1>1, OpsTuningAssumption DEF LookupOld, ReadOnly, Write, LookupNew, HandlersAsk
  <2>3. PICK op \in {"Lookup", request[p].op} : Begin(p, AskedFor(p, op))
    BY <1>1 DEF LookupOld, ReadOnly, Write, LookupNew, Calls
  <2>4. Fits(AskedFor(p, op))
    BY <2>2 DEF Fits, AskedFor, Reading, Writing, Setting
  <2> QED BY <2>1, <2>3, <2>4, BeginningFits
<1>2. CASE Deliver(p)
  <2>1. pc[p] \notin Written
    BY <1>2 DEF Deliver, HandlersWait, Written
  <2> QED BY <1>2, <2>1, ForgettingFits DEF Deliver
<1>3. CASE Refuse(p) \/ NotFound(p) \/ ReadAnswered(p) \/ WriteFailed(p) \/ WriteAnswered(p)
  <2>1. UNCHANGED <<values, locals, bound>>
    BY <1>3 DEF Refuse, NotFound, ReadAnswered, WriteFailed, WriteAnswered, tvars
  <2> QED BY <2>1, OthersKeepCall DEF locals, values
<1>4. CASE \E r \in Requests : Receive(p, r)
  <2>1. UNCHANGED <<values, locals, bound>>
    BY <1>4 DEF Receive
  <2> QED BY <2>1, OthersKeepCall DEF locals, values
<1> QED BY <1>1, <1>2, <1>3, <1>4 DEF HandlerStep

LEMMA DirectFits ==
  ASSUME Gated, Shaped, NEW p \in Procs, CallOf(p), DirectStep(p)
  PROVE  CallOf(p)' /\ Plain(p)
<1>1. CASE Finish(p)
  BY <1>1, ForgettingFits DEF Finish, Written
<1>2. CASE \E c \in DirectCalls : Call(p, c)
  <2>1. PICK c \in DirectCalls : Begin(p, c) /\ pc[p] \notin Written
    BY <1>2 DEF Call, Written
  <2>2. Fits(c)
    BY OpsTuningAssumption DEF Fits
  <2> QED BY <2>1, <2>2, BeginningFits
<1> QED BY <1>1, <1>2 DEF DirectStep

Storing(p) ==
  \/ ApplySet(p) \/ ApplyLast(p) \/ StoreSource(p) \/ StoreStamp(p)
  \/ Callback(p) \/ NestedWrite(p) \/ CallbacksOver(p)

LEMMA KindsOfSteps ==
  ASSUME Invariant, Stored, [Next]_vars
  PROVE  \/ UNCHANGED <<values, locals, bound>>
         \/ BindStep
         \/ \E p \in Procs : CallOf(p)' /\ Plain(p)
         \/ \E p \in Procs : Storing(p)
<1> USE DEF Invariant, Stored
<1>1. ASSUME NEW p \in Procs, WriteStep(p), ~Storing(p) PROVE CallOf(p)' /\ Plain(p)
  <2>1. \/ Resolve(p)
        \/ SetBool(p) \/ SetInt64(p) \/ SetDuration(p) \/ SetFloat64(p) \/ SetString(p) \/ SetEnum(p)
        \/ ResetLast(p) \/ TryLock(p) \/ CheckOwner(p) \/ Lock(p) \/ StoreOwner(p) \/ Unlock(p)
        \/ NothingToRestore(p)
    BY <1>1 DEF WriteStep, Storing
  <2> QED BY <2>1, ResolvingFits, EnteringFits, GateStepsFit
<1>2. ASSUME NEW p \in Procs, RegistryStep(p) PROVE (CallOf(p)' /\ Plain(p)) \/ Storing(p)
  BY <1>1, <1>2, ReadingFits DEF RegistryStep
<1>3. ASSUME NEW p \in Procs, DirectStep(p) PROVE CallOf(p)' /\ Plain(p)
  BY <1>3, DirectFits
<1>4. ASSUME NEW p \in Handlers, HandlerStep(p) \/ \E r \in Requests : Receive(p, r)
      PROVE  p \in Procs /\ (UNCHANGED <<values, locals, bound>> \/ (CallOf(p)' /\ Plain(p)))
  <2>1. p \in Procs
    BY OpsTuningAssumption
  <2> QED BY <1>4, <2>1, HandlingFits
<1>5. CASE UNCHANGED vars
  BY <1>5 DEF vars, tvars
<1> QED BY <1>2, <1>3, <1>4, <1>5 DEF Next

\* The gate: while one goroutine stores, no other is between two stores.
LEMMA StoringAlone ==
  ASSUME Gated, NEW p \in Procs, pc[p] \in Inside, NEW q \in Procs \ {p}
  PROVE  pc[q] \notin Inside /\ pc[q] \notin Written
BY DEF Gated, Inside, Written

\* What a store does to the goroutine that makes it.
LEMMA StoringMoves ==
  ASSUME Gated, Shaped, NEW p \in Procs, Storing(p)
  PROVE  /\ Others(p) /\ pc[p] \in Inside /\ call' = call /\ registered' = registered
         /\ binder' = binder
         /\ cur' = cur \/ pc[p] = "applying"
<1> DEFINE Moved == /\ pc[p] \in Inside /\ call' = call /\ registered' = registered
                    /\ binder' = binder
                    /\ cur' = cur \/ pc[p] = "applying"
                    /\ \E s : pc' = [pc EXCEPT ![p] = s]
                    /\ val' = val \/ \E v : val' = [val EXCEPT ![p] = v]
                    /\ \E i : at' = [at EXCEPT ![p] = i]
<1> USE DEF Moves, Inside, bound
<1>1. \E i : at = [at EXCEPT ![p] = i]
  BY DEF Shaped
<1>2. \E s : pc = [pc EXCEPT ![p] = s]
  BY DEF Gated
<1>3. ASSUME ApplySet(p) PROVE Moved
  BY <1>1, <1>3 DEF ApplySet
<1>4. ASSUME ApplyLast(p) PROVE Moved
  BY <1>1, <1>4 DEF ApplyLast
<1>5. ASSUME StoreSource(p) \/ StoreStamp(p) PROVE Moved
  BY <1>1, <1>5 DEF StoreSource, StoreStamp
<1>6. ASSUME Callback(p) PROVE Moved
  BY <1>2, <1>6 DEF Callback, Due, values
<1>7. ASSUME NestedWrite(p) \/ CallbacksOver(p) PROVE Moved
  BY <1>1, <1>2, <1>7 DEF NestedWrite, CallbacksOver, Due, values
<1>8. Moved
  BY <1>3, <1>4, <1>5, <1>6, <1>7 DEF Storing
<1> QED BY <1>8 DEF Others, Gated, Shaped

LEMMA StoringFits ==
  ASSUME Gated, Shaped, NEW p \in Procs, CallOf(p), Storing(p)
  PROVE  CallOf(p)'
<1>1. call'[p] = call[p]
  BY StoringMoves
<1>2. pc[p] \in Inside /\ Key(p) \in Keys
  BY StoringMoves DEF CallOf, Resolved
<1>3. CASE ApplySet(p)
  <2>1. pc'[p] = "source" /\ val'[p] = val[p] /\ cur'[Key(p)] = val[p]
    BY <1>2, <1>3 DEF ApplySet, Moves, Gated, Shaped
  <2> QED BY <1>1, <1>2, <2>1 DEF CallOf, Key, Conf, Resolved, Proposing, Written
<1>4. CASE ApplyLast(p)
  <2>1. CASE StillValid(Conf(p), last[Key(p)])
    <3>1. pc'[p] = "source" /\ val'[p] = last[Key(p)] /\ cur'[Key(p)] = last[Key(p)]
      BY <1>2, <1>4, <2>1 DEF ApplyLast, Moves, Gated, Shaped
    <3> QED BY <1>1, <1>2, <3>1 DEF CallOf, Key, Conf, Resolved, Proposing, Written
  <2>2. CASE ~StillValid(Conf(p), last[Key(p)])
    <3>1. pc'[p] = "releasing" /\ val'[p] = val[p]
      BY <1>4, <2>2 DEF ApplyLast, Moves, Gated
    <3> QED BY <1>1, <1>2, <3>1 DEF CallOf, Key, Conf, Resolved, Proposing, Written
  <2> QED BY <2>1, <2>2
<1>5. CASE StoreSource(p)
  <2>1. pc[p] = "source" /\ pc'[p] = "stamp" /\ val'[p] = val[p] /\ cur' = cur
    BY <1>5 DEF StoreSource, Moves, Gated
  <2> QED BY <1>1, <1>2, <2>1 DEF CallOf, Key, Conf, Resolved, Proposing, Written
<1>6. CASE StoreStamp(p)
  <2>1. pc[p] = "stamp" /\ pc'[p] = "callbacks" /\ val'[p] = val[p] /\ cur' = cur /\ at'[p] = 1
    BY <1>6 DEF StoreStamp, Moves, Gated, Shaped
  <2> QED BY <1>1, <1>2, <2>1 DEF CallOf, Key, Conf, Resolved, Proposing, Written
<1>7. CASE Callback(p) \/ NestedWrite(p) \/ CallbacksOver(p)
  <2>1. /\ pc[p] = "callbacks" /\ pc'[p] \in {"callbacks", "selfBlocked", "releasing"}
        /\ val'[p] = val[p] /\ cur' = cur /\ at'[p] \in {at[p], at[p] + 1}
    BY <1>7 DEF Callback, NestedWrite, CallbacksOver, Due, Moves, Gated, Shaped, values
  <2>2. at[p] \in Nat
    BY DEF Shaped
  <2> QED BY <1>1, <1>2, <2>1, <2>2 DEF CallOf, Key, Conf, Resolved, Inside, Proposing, Written
<1> QED BY <1>3, <1>4, <1>5, <1>6, <1>7 DEF Storing

LEMMA CallsKept ==
  ASSUME Invariant, Stored, [Next]_vars
  PROVE  \A q \in Procs : CallOf(q)'
<1> USE DEF Invariant, Stored
<1> SUFFICES ASSUME NEW q \in Procs PROVE CallOf(q)'
  OBVIOUS
<1>1. CASE UNCHANGED <<values, locals, bound>>
  BY <1>1, OthersKeepCall DEF values, locals
<1>2. CASE BindStep
  BY <1>2, OthersKeepCall DEF BindStep, BindRegisters, BindReads, BindSyncs, values, locals
<1>3. ASSUME NEW p \in Procs, CallOf(p)', Plain(p) PROVE CallOf(q)'
  <2>1. CASE q = p
    BY <1>3, <2>1
  <2>2. CASE q # p
    <3>1. /\ pc'[q] = pc[q] /\ call'[q] = call[q] /\ val'[q] = val[q] /\ at'[q] = at[q] /\ cur' = cur
      BY <1>3, <2>2 DEF Plain, Others, values
    <3> QED BY <3>1, OthersKeepCall
  <2> QED BY <2>1, <2>2
<1>4. ASSUME NEW p \in Procs, Storing(p) PROVE CallOf(q)'
  <2>1. CASE q = p
    BY <1>4, <2>1, StoringFits
  <2>2. CASE q # p
    <3>1. Others(p) /\ pc[p] \in Inside
      BY <1>4, StoringMoves
    <3>2. pc[q] \notin Written
      BY <2>2, <3>1, StoringAlone
    <3>3. pc'[q] = pc[q] /\ call'[q] = call[q] /\ val'[q] = val[q] /\ at'[q] = at[q]
      BY <2>2, <3>1 DEF Others
    <3> QED BY <3>2, <3>3, OthersKeepCall
  <2> QED BY <2>1, <2>2
<1> QED BY <1>1, <1>2, <1>3, <1>4, KindsOfSteps

\* The domains: every action updates its functions in place.
LEMMA ShapedKept ==
  ASSUME Invariant, Shaped, [Next]_vars
  PROVE  Shaped'
<1> USE DEF Shaped
<1>1. ASSUME NEW p \in Procs, WriteStep(p) PROVE Shaped'
  <2>1. CASE Resolve(p) \/ ResetLast(p) \/ CheckOwner(p) \/ NothingToRestore(p) \/ CallbacksOver(p)
             \/ NestedWrite(p)
    BY <2>1 DEF Resolve, ResetLast, CheckOwner, NothingToRestore, CallbacksOver, NestedWrite, values,
                gate, bound
  <2>2. CASE \E valid, v : Enter(p, valid, v)
    BY <2>2 DEF Enter, values, gate, bound
  <2>3. CASE TryLock(p) \/ Lock(p) \/ StoreOwner(p) \/ Unlock(p)
    BY <2>3 DEF TryLock, Lock, StoreOwner, Unlock, Gid, values, bound
  <2>4. CASE ApplySet(p) \/ ApplyLast(p)
    BY <2>4 DEF ApplySet, ApplyLast, gate, bound
  <2>5. CASE StoreSource(p) \/ StoreStamp(p)
    BY <2>5 DEF StoreSource, StoreStamp, gate, bound
  <2>6. CASE Callback(p)
    BY <2>6 DEF Callback, values, gate
  <2>7. SetBool(p) \/ SetInt64(p) \/ SetDuration(p) \/ SetFloat64(p) \/ SetString(p) \/ SetEnum(p) =>
          \E valid, v : Enter(p, valid, v)
    BY DEF SetBool, SetInt64, SetDuration, SetFloat64, SetString, SetEnum
  <2> QED BY <1>1, <2>1, <2>2, <2>3, <2>4, <2>5, <2>6, <2>7 DEF WriteStep
<1>2. ASSUME NEW p \in Procs, ReadStep(p) PROVE Shaped'
  <2>1. UNCHANGED <<values, gate, call, val, bound>>
    BY <1>2 DEF ReadStep, Look, ReadField, ReadOverride, ReadOver
  <2>2. at' = at \/ \E i \in Nat : at' = [at EXCEPT ![p] = i]
    <3>1. CASE Look(p) \/ ReadOverride(p) \/ ReadOver(p)
      BY <3>1 DEF Look, ReadOverride, ReadOver
    <3>2. CASE ReadField(p)
      <4>1. at' = [at EXCEPT ![p] = IF at[p] = Len(Fields) THEN 1 ELSE at[p] + 1]
        BY <3>2 DEF ReadField
      <4>2. (IF at[p] = Len(Fields) THEN 1 ELSE at[p] + 1) \in Nat
        OBVIOUS
      <4> QED BY <4>1, <4>2
    <3> QED BY <1>2, <3>1, <3>2 DEF ReadStep
  <2> QED BY <2>1, <2>2 DEF values, gate, bound
<1>3. ASSUME NEW p \in Procs, NEW c, Begin(p, c) PROVE Shaped'
  BY <1>3 DEF Begin, values, gate, bound
<1>4. ASSUME NEW p \in Procs, Forgets(p), UNCHANGED <<values, gate, bound>> PROVE Shaped'
  BY <1>4 DEF Forgets, values, gate, bound
<1>5. CASE UNCHANGED <<values, gate, locals, bound>>
  BY <1>5 DEF values, gate, locals, bound
<1>6. CASE BindStep
  BY <1>6, TuningAssumption DEF BindStep, BindRegisters, BindReads, BindSyncs, Binder, Register, values,
                                gate, locals
<1>7. ASSUME NEW p \in Procs, DirectStep(p) PROVE Shaped'
  BY <1>3, <1>4, <1>7 DEF DirectStep, Finish, Call
<1>8. ASSUME NEW p \in Handlers, HandlerStep(p) \/ \E r \in Requests : Receive(p, r) PROVE Shaped'
  <2>1. p \in Procs
    BY OpsTuningAssumption
  <2>2. CASE LookupOld(p) \/ ReadOnly(p) \/ Write(p) \/ LookupNew(p)
    BY <1>3, <2>1, <2>2 DEF LookupOld, ReadOnly, Write, LookupNew, Calls
  <2>3. CASE Deliver(p)
    BY <1>4, <2>1, <2>3 DEF Deliver
  <2>4. CASE \/ Refuse(p) \/ NotFound(p) \/ ReadAnswered(p) \/ WriteFailed(p) \/ WriteAnswered(p)
             \/ \E r \in Requests : Receive(p, r)
    BY <1>5, <2>4 DEF Refuse, NotFound, ReadAnswered, WriteFailed, WriteAnswered, Receive, tvars
  <2> QED BY <1>8, <2>2, <2>3, <2>4 DEF HandlerStep
<1>9. CASE UNCHANGED vars
  BY <1>5, <1>9 DEF vars, tvars
<1> QED BY <1>1, <1>2, <1>6, <1>7, <1>8, <1>9 DEF Next, RegistryStep

\* Of the steps only two stores change a value, and both store a valid one.
LEMMA ValuesKept ==
  ASSUME Invariant, Stored, [Next]_vars
  PROVE  ValuesValid'
<1> USE DEF Invariant, Stored, ValuesValid
<1>1. CASE UNCHANGED <<cur, last>>
  BY <1>1
<1>2. ASSUME NEW p \in Procs, ApplySet(p) PROVE ValuesValid'
  <2>1. /\ cur' = [cur EXCEPT ![Key(p)] = val[p]]
        /\ last' = [last EXCEPT ![Key(p)] = cur[Key(p)]]
        /\ pc[p] = "applying" /\ call[p].op # "ResetToLastValue"
    BY <1>2 DEF ApplySet, Moves
  <2>2. Key(p) \in Keys /\ StillValid(Config[Key(p)], val[p])
    BY <2>1 DEF CallOf, Conf, Resolved, Inside, Proposing
  <2> QED BY <2>1, <2>2 DEF Shaped
<1>3. ASSUME NEW p \in Procs, ApplyLast(p) PROVE ValuesValid'
  <2>1. pc[p] = "applying" /\ last' = last
    BY <1>3 DEF ApplyLast
  <2>2. Key(p) \in Keys
    BY <2>1 DEF CallOf, Resolved, Inside
  <2>3. cur' = cur \/ cur' = [cur EXCEPT ![Key(p)] = last[Key(p)]]
    BY <1>3 DEF ApplyLast
  <2> QED BY <2>1, <2>2, <2>3 DEF Shaped
<1>4. ASSUME NEW p \in Procs, Storing(p) PROVE ApplySet(p) \/ ApplyLast(p) \/ UNCHANGED <<cur, last>>
  BY <1>4 DEF Storing, StoreSource, StoreStamp, Callback, NestedWrite, CallbacksOver, values
<1>5. BindStep => UNCHANGED <<cur, last>>
  BY DEF BindStep, BindRegisters, BindReads, BindSyncs, values
<1>6. ASSUME NEW p \in Procs, Plain(p) PROVE UNCHANGED <<cur, last>>
  BY <1>6 DEF Plain, values
<1> QED BY <1>1, <1>2, <1>3, <1>4, <1>5, <1>6, KindsOfSteps DEF values

\* The store of a value makes its goroutine the one that will store the source, and nothing but that
\* store, which finds the value it is for, ends this.
LEMMA SourcedKept ==
  ASSUME Invariant, Stored, [Next]_vars
  PROVE  Sourced'
<1> USE DEF Invariant, Stored
<1> SUFFICES ASSUME NEW k \in Keys
             PROVE  (src[k] = RightSource(k) \/ \E p \in Procs : pc[p] = "source" /\ Key(p) = k)'
  BY DEF Sourced
<1> DEFINE Waits(q) == pc[q] = "source" /\ Key(q) = k
<1>0. src[k] = RightSource(k) \/ \E q \in Procs : Waits(q)
  BY DEF Sourced
<1>1. cur'[k] = cur[k] /\ src'[k] = src[k] /\ src[k] = RightSource(k) => (src[k] = RightSource(k))'
  BY DEF RightSource
<1>2. ASSUME NEW p \in Procs, Others(p), NEW q \in Procs, q # p, Waits(q) PROVE Waits(q)'
  BY <1>2 DEF Others, Key
<1>3. ASSUME NEW p \in Procs, Others(p), cur'[k] = cur[k], src'[k] = src[k], ~Waits(p)
      PROVE  (src[k] = RightSource(k))' \/ \E q \in Procs : Waits(q)'
  BY <1>0, <1>1, <1>2, <1>3
<1>4. CASE UNCHANGED <<values, pc, call>>
  BY <1>0, <1>4 DEF values, RightSource, Key
<1>5. ASSUME NEW p \in Procs, Plain(p)
      PROVE  (src[k] = RightSource(k))' \/ \E q \in Procs : Waits(q)'
  <2>1. Others(p) /\ cur' = cur /\ src' = src /\ pc[p] # "source"
    BY <1>5 DEF Plain, Written, values
  <2> QED BY <1>3, <2>1
<1>6. ASSUME NEW p \in Procs, Storing(p)
      PROVE  (src[k] = RightSource(k))' \/ \E q \in Procs : Waits(q)'
  <2>0. Others(p) /\ call' = call /\ pc[p] \in Inside /\ Key(p) \in Keys
    BY <1>6, StoringMoves DEF CallOf, Resolved
  <2>1. CASE ApplySet(p)
    <3>1. /\ pc[p] = "applying" /\ pc'[p] = "source" /\ src' = src
          /\ cur' = [cur EXCEPT ![Key(p)] = val[p]]
      BY <2>1 DEF ApplySet, Moves, Gated
    <3>2. CASE Key(p) = k
      BY <2>0, <3>1, <3>2 DEF Key
    <3>3. CASE Key(p) # k
      BY <1>3, <2>0, <3>1, <3>3 DEF Shaped
    <3> QED BY <3>2, <3>3
  <2>2. CASE ApplyLast(p)
    <3>1. pc[p] = "applying" /\ src' = src
      BY <2>2 DEF ApplyLast
    <3>2. \/ cur' = cur
          \/ pc'[p] = "source" /\ cur' = [cur EXCEPT ![Key(p)] = last[Key(p)]]
      BY <2>2 DEF ApplyLast, Moves, Gated
    <3>3. CASE cur' = cur
      BY <1>3, <2>0, <3>1, <3>3
    <3>4. CASE pc'[p] = "source" /\ cur' = [cur EXCEPT ![Key(p)] = last[Key(p)]] /\ Key(p) = k
      BY <2>0, <3>4 DEF Key
    <3>5. CASE cur' = [cur EXCEPT ![Key(p)] = last[Key(p)]] /\ Key(p) # k
      BY <1>3, <2>0, <3>1, <3>5 DEF Shaped
    <3> QED BY <3>2, <3>3, <3>4, <3>5
  <2>3. CASE StoreSource(p)
    <3>1. /\ pc[p] = "source" /\ cur' = cur
          /\ src' = [src EXCEPT ![Key(p)] =
                       IF Overridden(Conf(p), val[p]) THEN "runtime-set" ELSE "default"]
      BY <2>3 DEF StoreSource, Moves
    <3>2. cur[Key(p)] = val[p]
      BY <3>1 DEF CallOf, Written
    <3>3. CASE Key(p) = k
      BY <2>0, <3>1, <3>2, <3>3 DEF RightSource, Conf, Shaped
    <3>4. CASE Key(p) # k
      BY <1>3, <2>0, <3>1, <3>4 DEF Shaped
    <3> QED BY <3>3, <3>4
  <2>4. CASE StoreStamp(p) \/ Callback(p) \/ NestedWrite(p) \/ CallbacksOver(p)
    <3>1. cur' = cur /\ src' = src /\ pc[p] # "source"
      BY <2>4 DEF StoreStamp, Callback, NestedWrite, CallbacksOver, Due, Moves, values
    <3> QED BY <1>3, <2>0, <3>1
  <2> QED BY <1>6, <2>1, <2>2, <2>3, <2>4 DEF Storing
<1>7. BindStep => UNCHANGED <<values, pc, call>>
  BY DEF BindStep, BindRegisters, BindReads, BindSyncs, locals
<1>8. UNCHANGED <<values, locals, bound>> => UNCHANGED <<values, pc, call>>
  BY DEF locals
<1> QED BY <1>4, <1>5, <1>6, <1>7, <1>8, KindsOfSteps

\* The callbacks of a variable that set the level are those of LevelVar, and it has one.
LEMMA LevelCallbacks ==
  ASSUME NEW k \in Keys
  PROVE  /\ Config[k].callbacks \in Seq({"level", "panic", "write"})
         /\ DOMAIN Config[k].callbacks = 1 .. Len(Config[k].callbacks)
         /\ Len(Config[k].callbacks) \in Nat
         /\ (\E i \in DOMAIN Config[k].callbacks : Config[k].callbacks[i] = "level") <=> k = LevelKey
<1>1. /\ Config[k].callbacks \in Seq({"level", "panic", "write"})
      /\ (\E i \in DOMAIN Config[k].callbacks : Config[k].callbacks[i] = "level") <=> k = LevelKey
  BY TuningAssumption
<1> QED BY <1>1

\* A write of LevelKey makes its goroutine the one that will set the level, and no other step ends
\* this; LevelVar's own last store comes with the number of writes it may have missed.
LEMMA LevelledKept ==
  ASSUME Invariant, Stored, [Next]_vars
  PROVE  Levelled'
<1> USE TuningAssumption DEF Invariant, Stored
<1> DEFINE Late    == binder.at = "bound" /\ stamp[LevelKey] > binder.stamp
           Follows == level = cur[LevelKey] \/ \E q \in Procs : LevelDue(q)
<1>0. Late => Follows
  BY DEF Levelled
<1>1. ASSUME NEW p \in Procs, Others(p), NEW q \in Procs, q # p, LevelDue(q) PROVE LevelDue(q)'
  BY <1>1 DEF Others, LevelDue, Key, Conf
<1>2. ASSUME NEW p \in Procs, Others(p), cur'[LevelKey] = cur[LevelKey], level' = level,
             stamp'[LevelKey] = stamp[LevelKey], binder' = binder, LevelDue(p) => LevelDue(p)'
      PROVE  Levelled'
  BY <1>0, <1>1, <1>2 DEF Levelled
<1>3. CASE UNCHANGED <<values, locals, bound>>
  BY <1>0, <1>3 DEF Levelled, LevelDue, Key, Conf, values, locals, bound
<1>4. CASE BindStep
  <2>1. CASE BindSyncs
    <3>1. binder'.stamp = stamp'[LevelKey] /\ stamp'[LevelKey] \in Nat
      BY <2>1 DEF BindSyncs, Shaped, values
    <3> QED BY <3>1 DEF Levelled
  <2>2. CASE BindRegisters \/ BindReads
    <3>1. binder'.at # "bound"
      BY <2>2 DEF BindRegisters, BindReads, Binder, Shaped
    <3> QED BY <3>1 DEF Levelled
  <2> QED BY <1>4, <2>1, <2>2 DEF BindStep
<1>5. ASSUME NEW p \in Procs, Plain(p) PROVE Levelled'
  <2>1. ~LevelDue(p)
    BY <1>5 DEF Plain, LevelDue, Written
  <2> QED BY <1>2, <1>5, <2>1 DEF Plain, values
<1>6. ASSUME NEW p \in Procs, Storing(p) PROVE Levelled'
  <2>0. /\ Others(p) /\ call' = call /\ binder' = binder /\ pc[p] \in Inside
        /\ Key(p) \in Keys /\ Key(p)' = Key(p) /\ Conf(p)' = Conf(p)
    BY <1>6, StoringMoves DEF CallOf, Resolved, Key, Conf
  <2>1. CASE ApplySet(p) \/ ApplyLast(p)
    <3>1. /\ pc[p] = "applying" /\ level' = level /\ stamp' = stamp
          /\ \/ cur' = cur
             \/ pc'[p] = "source" /\ \E v : cur' = [cur EXCEPT ![Key(p)] = v]
      BY <2>1 DEF ApplySet, ApplyLast, Moves, Gated, bound
    <3>2. ~LevelDue(p)
      BY <3>1 DEF LevelDue
    <3>3. CASE cur' = cur \/ Key(p) # LevelKey
      <4>1. cur'[LevelKey] = cur[LevelKey]
        BY <3>1, <3>3 DEF Shaped
      <4> QED BY <1>2, <2>0, <3>1, <3>2, <4>1
    <3>4. CASE pc'[p] = "source" /\ Key(p) = LevelKey
      <4>1. LevelDue(p)'
        BY <2>0, <3>4 DEF LevelDue
      <4> QED BY <4>1 DEF Levelled
    <3> QED BY <3>1, <3>3, <3>4
  <2>2. CASE StoreSource(p)
    <3>1. pc'[p] = "stamp" /\ level' = level /\ stamp' = stamp /\ cur' = cur
      BY <2>2 DEF StoreSource, Moves, Gated, bound
    <3>2. LevelDue(p) => LevelDue(p)'
      BY <2>0, <3>1 DEF LevelDue
    <3> QED BY <1>2, <2>0, <3>1, <3>2
  <2>3. CASE StoreStamp(p)
    <3>1. /\ pc'[p] = "callbacks" /\ at'[p] = 1 /\ level' = level /\ cur' = cur
          /\ stamp' = [stamp EXCEPT ![Key(p)] = @ + 1]
      BY <2>3 DEF StoreStamp, Moves, Gated, Shaped, bound
    <3>2. CASE Key(p) = LevelKey
      <4>1. \A i \in DOMAIN Conf(p).callbacks : ~(i < 1)
        BY <2>0, LevelCallbacks DEF Conf
      <4>2. LevelDue(p)'
        BY <2>0, <3>1, <3>2, <4>1 DEF LevelDue
      <4> QED BY <4>2 DEF Levelled
    <3>3. CASE Key(p) # LevelKey
      <4>1. stamp'[LevelKey] = stamp[LevelKey] /\ ~LevelDue(p)
        BY <3>1, <3>3 DEF Shaped, LevelDue
      <4> QED BY <1>2, <2>0, <3>1, <4>1
    <3> QED BY <3>2, <3>3
  <2>4. CASE Callback(p) \/ NestedWrite(p)
    <3>1. /\ pc[p] = "callbacks" /\ at[p] \in Nat /\ at[p] > 0 /\ at[p] <= Len(Conf(p).callbacks)
          /\ cur' = cur /\ stamp' = stamp
          /\ Due(p, "level") => level' = val[p]
          /\ ~Due(p, "level") => level' = level
      BY <2>4 DEF Callback, NestedWrite, Due, Shaped, CallOf, values, bound
    <3>2. at[p] \in DOMAIN Conf(p).callbacks
      BY <2>0, <3>1, LevelCallbacks DEF Conf
    <3>3. CASE Due(p, "level")
      <4>1. Key(p) = LevelKey
        BY <2>0, <3>2, <3>3, LevelCallbacks DEF Due, Conf
      <4>2. level' = cur'[LevelKey]
        BY <3>1, <3>3, <4>1 DEF CallOf, Written
      <4> QED BY <4>2 DEF Levelled
    <3>4. CASE ~Due(p, "level")
      <4>1. Conf(p).callbacks[at[p]] # "level"
        BY <3>1, <3>4 DEF Due
      <4>2. pc'[p] = "callbacks" /\ at'[p] = at[p] + 1
        <5>1. CASE Callback(p)
          BY <5>1, <3>1 DEF Callback, Shaped
        <5>2. CASE NestedWrite(p)
          <6>1. TakenForReentrant(p)
            BY <3>1 DEF Gated, TakenForReentrant, Inside, Owning
          <6> QED BY <5>2, <6>1, <3>1 DEF NestedWrite, Shaped
        <5> QED BY <2>4, <5>1, <5>2
      <4>3. ASSUME LevelDue(p), NEW i \in DOMAIN Conf(p).callbacks, i < at[p] + 1
            PROVE  Conf(p).callbacks[i] # "level"
        <5>1. i \in Nat
          BY <2>0, LevelCallbacks DEF Conf
        <5>2. i < at[p] \/ i = at[p]
          BY <3>1, <4>3, <5>1
        <5> QED BY <3>1, <4>1, <4>3, <5>2 DEF LevelDue
      <4>4. LevelDue(p) => LevelDue(p)'
        BY <2>0, <4>2, <4>3 DEF LevelDue
      <4> QED BY <1>2, <2>0, <3>1, <3>4, <4>4
    <3> QED BY <3>3, <3>4
  <2>5. CASE CallbacksOver(p)
    <3>1. /\ pc[p] = "callbacks" /\ at[p] \in Nat /\ at[p] > Len(Conf(p).callbacks)
          /\ cur' = cur /\ stamp' = stamp /\ level' = level
      BY <2>5 DEF CallbacksOver, Moves, Shaped, values, bound
    <3>2. ~LevelDue(p)
      <4>1. SUFFICES ASSUME Key(p) = LevelKey, 
                            \A i \in DOMAIN Conf(p).callbacks : i < at[p] => Conf(p).callbacks[i] # "level"
                     PROVE  FALSE
        BY <3>1 DEF LevelDue
      <4>2. PICK i \in DOMAIN Conf(p).callbacks : Conf(p).callbacks[i] = "level"
        BY <2>0, <4>1, LevelCallbacks DEF Conf
      <4>3. i < at[p]
        BY <2>0, <3>1, <4>2, LevelCallbacks DEF Conf
      <4> QED BY <4>1, <4>2, <4>3
    <3> QED BY <1>2, <2>0, <3>1, <3>2
  <2> QED BY <1>6, <2>1, <2>2, <2>3, <2>4, <2>5 DEF Storing
<1> QED BY <1>3, <1>4, <1>5, <1>6, KindsOfSteps

\* A handler keeps the request it received until its answer is delivered.
LEMMA HandlersKeepAsking ==
  ASSUME Invariant, HandlersAsk, [Next]_vars
  PROVE  HandlersAsk'
<1> USE OpsTuningAssumption DEF HandlersAsk
<1>0. stage \in [Procs -> Stages]
  BY DEF Invariant, HandlersWait
<1>1. CASE UNCHANGED <<stage, request>>
  BY <1>1
<1>2. ASSUME NEW p \in Handlers, NEW r \in Requests, Receive(p, r) PROVE HandlersAsk'
  <2>1. stage' = [stage EXCEPT ![p] = "checking"] /\ request' = [request EXCEPT ![p] = r]
    BY <1>2 DEF Receive
  <2> QED BY <1>0, <1>2, <2>1
<1>3. ASSUME NEW p \in Handlers, HandlerStep(p) PROVE HandlersAsk'
  <2>1. CASE LookupOld(p) \/ ReadOnly(p) \/ Write(p) \/ LookupNew(p)
    <3>1. PICK next \in {"old", "read", "write", "new"} :
            /\ stage' = [stage EXCEPT ![p] = next] /\ request' = request
            /\ stage[p] \in {"checking", "old", "write"}
            /\ next \in {"old", "write", "new"} => request[p].op \in Writing
      BY <2>1 DEF LookupOld, ReadOnly, Write, LookupNew, Calls
    <3> QED BY <1>0, <3>1
  <2>2. CASE Refuse(p) \/ NotFound(p) \/ ReadAnswered(p) \/ WriteFailed(p) \/ WriteAnswered(p)
    <3>1. /\ stage' = [stage EXCEPT ![p] = "answered"] /\ request' = request
          /\ stage[p] # "none"
      BY <2>2 DEF Refuse, NotFound, ReadAnswered, WriteFailed, WriteAnswered, Answers
    <3> QED BY <1>0, <3>1
  <2>3. CASE Deliver(p)
    <3>1. stage' = [stage EXCEPT ![p] = "none"] /\ request' = [request EXCEPT ![p] = NoCall]
      BY <2>3 DEF Deliver
    <3>2. \A q \in Handlers : q # p => stage'[q] = stage[q] /\ (stage[q] # "none" => request'[q] = request[q])
      BY <1>0, <3>1
    <3>3. stage'[p] = "none"
      BY <1>0, <3>1
    <3> QED BY <3>1, <3>2, <3>3
  <2> QED BY <1>3, <2>1, <2>2, <2>3 DEF HandlerStep
<1>4. CASE UNCHANGED hvars
  BY <1>1, <1>4 DEF hvars
<1> QED BY <1>2, <1>3, <1>4 DEF Next, vars

LEMMA StoredInitially == Init => Stored
<1> SUFFICES ASSUME Init PROVE Stored
  OBVIOUS
<1> USE TuningAssumption
<1>1. /\ cur = [k \in Keys |-> Default(Config[k])] /\ last = cur
      /\ src = [k \in Keys |-> "default"]
      /\ pc = [p \in Procs |-> "idle"] /\ call = [p \in Procs |-> NoCall]
      /\ binder.at = "idle"
      /\ stage = [p \in Procs |-> "none"] /\ request = [p \in Procs |-> NoCall]
  BY DEF Init, TInit
<1>2. Shaped
  <2>1. /\ DOMAIN cur = Keys /\ DOMAIN src = Keys /\ DOMAIN last = Keys
        /\ DOMAIN call = Procs
    BY <1>1
  <2>2. DOMAIN val = Procs /\ at \in [Procs -> Nat]
    BY DEF Init, TInit
  <2>3. /\ hasLast \in [Keys -> BOOLEAN] /\ stamp \in [Keys -> Nat]
        /\ held = None /\ owner = None
        /\ registered \subseteq Keys /\ DOMAIN binder = {"at", "read", "stamp"}
    BY DEF Init, TInit
  <2> QED BY <2>1, <2>2, <2>3 DEF Shaped
<1>3. ValuesValid
  BY <1>1, DefaultValid DEF ValuesValid
<1>4. ASSUME NEW p \in Procs PROVE CallOf(p)
  <2>1. NoCall.op = "none"
    BY DEF NoCall
  <2>2. pc[p] = "idle" /\ call[p].op = "none"
    BY <1>1, <2>1
  <2> QED BY <2>2 DEF CallOf, Resolved, Inside, Proposing, Written, Setting
<1>5. Sourced
  BY <1>1 DEF Sourced, RightSource, Overridden
<1>6. Levelled
  BY <1>1 DEF Levelled
<1>7. HandlersAsk
  BY <1>1, OpsTuningAssumption DEF HandlersAsk
<1> QED BY <1>2, <1>3, <1>4, <1>5, <1>6, <1>7 DEF Stored

LEMMA StoredKept ==
  ASSUME Invariant, Stored, [Next]_vars
  PROVE  Stored'
<1>1. Shaped' /\ HandlersAsk'
  BY ShapedKept, HandlersKeepAsking DEF Stored
<1>2. ValuesValid' /\ (\A p \in Procs : CallOf(p)') /\ Sourced' /\ Levelled'
  BY ValuesKept, CallsKept, SourcedKept, LevelledKept
<1>3. Procs' = Procs
  OBVIOUS
<1> QED BY <1>1, <1>2 DEF Stored

LEMMA StoredInvariant == Spec => [](Invariant /\ Stored)
<1>1. Init => Invariant /\ Stored
  BY InvariantInitially, StoredInitially
<1>2. (Invariant /\ Stored) /\ [Next]_vars => (Invariant /\ Stored)'
  BY InvariantKept, StoredKept
<1> QED BY <1>1, <1>2, PTL DEF Spec

\* Every variable always has a value its validation accepts, and so has what an undo brings back.
THEOREM TuningTypeCorrect == Spec => []TypeOK
<1>1. Invariant /\ Stored => TypeOK
  BY DEF Invariant, Gated, Stored, Shaped, ValuesValid, TypeOK
<1> QED BY <1>1, StoredInvariant, PTL

\* Whenever no write is in progress, every source tells whether its value is the default: value and
\* source are stored apart, by five kinds of writes, but never by two goroutines at a time.
THEOREM ViewsSettle == Spec => []SettledView
<1>1. ASSUME Invariant, Stored PROVE SettledView
  <2>1. ASSUME held = None, NEW p \in Procs PROVE pc[p] # "source"
    BY <1>1, <2>1, TuningAssumption DEF Invariant, Gated, Inside
  <2> QED BY <1>1, <2>1 DEF Stored, Sourced, RightSource, SettledView
<1> QED BY <1>1, StoredInvariant, PTL

\* Once a write made after LevelVar has returned is over, the slog level is the variable's value.
THEOREM LevelIsFollowed == Spec => []LevelFollows
<1>1. ASSUME Invariant, Stored PROVE LevelFollows
  <2>1. ASSUME held = None, NEW p \in Procs PROVE ~LevelDue(p)
    BY <1>1, <2>1, TuningAssumption DEF Invariant, Gated, Inside, LevelDue
  <2> QED BY <1>1, <2>1 DEF Stored, Levelled, LevelFollows
<1> QED BY <1>1, StoredInvariant, PTL

-----------------------------------------------------------------------------
(* What a write handler sees.  Its three steps are calls of their own: the *)
(* invariant follows the two items it reads and the time stored between.   *)

IsItem(v) ==
  /\ v = [f \in {"key", "value", "source", "updatedAt"} |-> v[f]]
  /\ v.updatedAt \in Nat

\* A handler has read n items, the last of them to its end.
Views(p, n) ==
  /\ n = 0 => view[p] = <<>>
  /\ n = 1 => view[p] = <<view[p][1]>> /\ IsItem(view[p][1])
  /\ n = 2 => view[p] = <<view[p][1], view[p][2]>> /\ IsItem(view[p][1]) /\ IsItem(view[p][2])

Fresh(p, n) ==
  /\ n = 1 => view[p][1].updatedAt <= stamp[AskedKey(p)]
  /\ n = 2 => view[p][1].updatedAt < view[p][2].updatedAt

Known(p) == AskedKey(p) \in registered \ Malformed

\* A lookup of the key, after n items.
Looks(p, n) ==
  /\ pc[p] \in {"looking", "reading", "returned"}
  /\ call[p].op = "Lookup" /\ Key(p) = AskedKey(p)
  /\ pc[p] = "looking" => Views(p, n)
  /\ pc[p] = "reading" =>
       /\ Known(p)
       /\ \/ todo[p] = <<AskedKey(p)>> /\ at[p] = 1 /\ Views(p, n)
          \/ todo[p] = <<AskedKey(p)>> /\ at[p] \in {2, 3} /\ Views(p, n + 1)
          \/ todo[p] = <<>> /\ Views(p, n + 1) /\ Fresh(p, n + 1)
  /\ pc[p] = "returned" /\ res[p] = "ok" => Known(p) /\ Views(p, n + 1) /\ Fresh(p, n + 1)

\* The write of the handler: its time is stored before its callbacks run, and so before it succeeds.
Writes(p) ==
  /\ Known(p) /\ Key(p) = AskedKey(p) /\ Views(p, 1) /\ Fresh(p, 1)
  /\ pc[p] \notin {"idle", "looking", "reading"}
  /\ pc[p] = "callbacks" \/ res[p] = "ok" => view[p][1].updatedAt < stamp[AskedKey(p)]

AnswersInOrder(p) ==
  answer[p].status = 200 => answer[p].items[1].updatedAt < answer[p].items[2].updatedAt

Serves(p) ==
  /\ stage[p] = "none" => pc[p] = "idle"
  /\ stage[p] \in {"none", "checking"} => view[p] = <<>>
  /\ stage[p] = "read" => request[p].op \notin Writing
  /\ stage[p] = "old" => Looks(p, 0)
  /\ stage[p] = "write" => Writes(p)
  /\ stage[p] = "new" =>
       /\ Known(p) /\ view[p][1].updatedAt < stamp[AskedKey(p)] /\ Looks(p, 1)
       /\ pc[p] = "returned" => res[p] = "ok"
  /\ stage[p] = "answered" /\ request[p].op \in Writing => AnswersInOrder(p)

Domains == DOMAIN view = Procs /\ DOMAIN todo = Procs /\ DOMAIN answer = Procs

Read == Domains /\ \A p \in Handlers : Serves(p)

\* An item read one field at a time.
LEMMA AppendToOne == ASSUME NEW x, NEW y PROVE Append(<<x>>, y) = <<x, y>>
<1>1. <<x>> \in Seq({x, y}) /\ <<x, y>> \in Seq({x, y}) /\ y \in {x, y}
  OBVIOUS
<1>2. /\ Append(<<x>>, y) \in Seq({x, y}) /\ Len(Append(<<x>>, y)) = 2
      /\ Append(<<x>>, y)[1] = x /\ Append(<<x>>, y)[2] = y
  BY <1>1, AppendProperties
<1>3. \A i \in 1 .. 2 : Append(<<x>>, y)[i] = <<x, y>>[i]
  BY <1>2
<1> QED BY <1>1, <1>2, <1>3, SeqEqual

LEMMA LastField ==
  ASSUME NEW s, NEW x, NEW y, NEW f, NEW g
  PROVE  /\ s = <<x>> => [s EXCEPT ![Len(s)][f] = g] = <<[x EXCEPT ![f] = g]>>
         /\ s = <<x, y>> => [s EXCEPT ![Len(s)][f] = g] = <<x, [y EXCEPT ![f] = g]>>
<1>1. [<<x>> EXCEPT ![Len(<<x>>)][f] = g] = <<[x EXCEPT ![f] = g]>>
  OBVIOUS
<1>2. [<<x, y>> EXCEPT ![Len(<<x, y>>)][f] = g] = <<x, [y EXCEPT ![f] = g]>>
  OBVIOUS
<1>3. ASSUME s = <<x>> PROVE [s EXCEPT ![Len(s)][f] = g] = <<[x EXCEPT ![f] = g]>>
  BY <1>1, <1>3
<1>4. ASSUME s = <<x, y>> PROVE [s EXCEPT ![Len(s)][f] = g] = <<x, [y EXCEPT ![f] = g]>>
  BY <1>2, <1>4
<1> QED BY <1>3, <1>4

LEMMA NotSeenItem == ASSUME NEW k PROVE IsItem(NotSeen(k))
BY DEF IsItem, NotSeen

LEMMA ItemUpdated ==
  ASSUME NEW v, IsItem(v), NEW f, NEW g,
         f \in {"value", "source"} \/ (f = "updatedAt" /\ g \in Nat)
  PROVE  /\ IsItem([v EXCEPT ![f] = g])
         /\ f = "updatedAt" => [v EXCEPT ![f] = g].updatedAt = g
<1>1. CASE f = "updatedAt" /\ g \in Nat
  BY <1>1 DEF IsItem
<1>2. CASE f \in {"value", "source"}
  BY <1>2 DEF IsItem
<1> QED BY <1>1, <1>2

LEMMA FieldNames == Fields[1] = "value" /\ Fields[2] = "source" /\ Fields[3] = "updatedAt" /\ Len(Fields) = 3
BY DEF Fields

\* What one read of a field does to the items of a lookup; the last field is the time.
LEMMA FieldRead ==
  ASSUME Shaped, DOMAIN view = Procs, DOMAIN todo = Procs, NEW p \in Procs, NEW k \in Keys,
         ReadField(p), todo[p] = <<k>>, at[p] \in 1 .. 3, NEW n \in {0, 1},
         Views(p, IF at[p] = 1 THEN n ELSE n + 1)
  PROVE  /\ Views(p, n + 1)'
         /\ n = 1 => view'[p][1] = view[p][1]
         /\ at[p] # 3 => at'[p] = at[p] + 1 /\ todo'[p] = todo[p]
         /\ at[p] = 3 => todo'[p] = <<>> /\ view'[p][n + 1].updatedAt = stamp[k]
<1>0. Head(todo[p]) = k /\ Tail(todo[p]) = <<>>
  OBVIOUS
<1>a. SeenNow(k)["updatedAt"] = stamp[k] /\ stamp[k] \in Nat
  BY DEF SeenNow, Shaped
<1>1. PICK f, g, seen :
        /\ view'[p] = [seen EXCEPT ![Len(seen)][f] = g]
        /\ seen = IF at[p] = 1 THEN Append(view[p], NotSeen(k)) ELSE view[p]
        /\ at[p] = 3 => f = "updatedAt" /\ g = stamp[k] /\ g \in Nat
        /\ at[p] # 3 => f \in {"value", "source"}
  <2> DEFINE f    == Fields[at[p]]
             seen == IF at[p] = 1 THEN Append(view[p], NotSeen(k)) ELSE view[p]
             g    == SeenNow(k)[f]
  <2>1. view' = [view EXCEPT ![p] = [seen EXCEPT ![Len(seen)][f] = g]]
    BY <1>0 DEF ReadField
  <2>2. /\ at[p] = 3 => f = "updatedAt" /\ g = stamp[k] /\ g \in Nat
        /\ at[p] # 3 => f \in {"value", "source"}
    BY <1>a, FieldNames
  <2> HIDE DEF f, g
  <2> QED BY <2>1, <2>2
<1>2. /\ todo' = [todo EXCEPT ![p] = IF at[p] = 3 THEN Tail(@) ELSE @]
      /\ at' = [at EXCEPT ![p] = IF at[p] = 3 THEN 1 ELSE @ + 1]
  BY FieldNames DEF ReadField
<1>3. at[p] # 3 => at'[p] = at[p] + 1 /\ todo'[p] = todo[p]
  BY <1>2 DEF Shaped
<1>4. at[p] = 3 => todo'[p] = <<>>
  BY <1>0, <1>2
<1>6. CASE n = 0
  <2>1. PICK x : seen = <<x>> /\ IsItem(x)
    <3>1. CASE at[p] = 1
      BY <1>1, <1>6, <3>1, NotSeenItem DEF Views
    <3>2. CASE at[p] # 1
      BY <1>1, <1>6, <3>2 DEF Views
    <3> QED BY <3>1, <3>2
  <2>2. view'[p] = <<[x EXCEPT ![f] = g]>>
    <3>1. seen = <<x>>
      BY <2>1
    <3>2. [seen EXCEPT ![Len(seen)][f] = g] = <<[x EXCEPT ![f] = g]>>
      BY ONLY <3>1, LastField
    <3> QED BY <1>1, <3>2
  <2>3. IsItem([x EXCEPT ![f] = g]) /\ (at[p] = 3 => [x EXCEPT ![f] = g].updatedAt = stamp[k])
    <3>1. CASE at[p] = 3
      <4>1. f = "updatedAt" /\ g \in Nat /\ g = stamp[k] /\ IsItem(x)
        BY <1>1, <2>1, <3>1
      <4>2. IsItem([x EXCEPT ![f] = g]) /\ [x EXCEPT ![f] = g].updatedAt = g
        <5>1. IsItem(x) /\ (f \in {"value", "source"} \/ (f = "updatedAt" /\ g \in Nat))
          BY <4>1
        <5>2. IsItem([x EXCEPT ![f] = g]) /\ (f = "updatedAt" => [x EXCEPT ![f] = g].updatedAt = g)
          BY ONLY <5>1, ItemUpdated, Zenon
        <5> QED BY <4>1, <5>2
      <4> QED BY <4>1, <4>2, Zenon
    <3>2. CASE at[p] # 3
      <4>1. f \in {"value", "source"} /\ IsItem(x)
        BY <1>1, <2>1, <3>2
      <4> QED BY ONLY <3>2, <4>1, ItemUpdated, Zenon
    <3> QED BY <3>1, <3>2
  <2>4. Views(p, 1)' /\ (at[p] = 3 => view'[p][1].updatedAt = stamp[k])
    BY <2>2, <2>3 DEF Views
  <2> QED BY <1>3, <1>4, <1>6, <2>4
<1>7. CASE n = 1
  <2>1. PICK w, x : seen = <<w, x>> /\ IsItem(w) /\ IsItem(x) /\ view[p][1] = w
    <3>1. CASE at[p] = 1
      <4>1. view[p] = <<view[p][1]>> /\ IsItem(view[p][1])
        BY <1>7, <3>1 DEF Views
      <4>2. seen = <<view[p][1], NotSeen(k)>>
        BY <1>1, <3>1, <4>1, AppendToOne
      <4> QED BY <4>1, <4>2, NotSeenItem
    <3>2. CASE at[p] # 1
      BY <1>1, <1>7, <3>2 DEF Views
    <3> QED BY <3>1, <3>2
  <2>2. view'[p] = <<w, [x EXCEPT ![f] = g]>>
    <3>1. seen = <<w, x>>
      BY <2>1
    <3>2. [seen EXCEPT ![Len(seen)][f] = g] = <<w, [x EXCEPT ![f] = g]>>
      BY ONLY <3>1, LastField
    <3> QED BY <1>1, <3>2
  <2>3. IsItem([x EXCEPT ![f] = g]) /\ (at[p] = 3 => [x EXCEPT ![f] = g].updatedAt = stamp[k])
    <3>1. CASE at[p] = 3
      <4>1. f = "updatedAt" /\ g \in Nat /\ g = stamp[k] /\ IsItem(x)
        BY <1>1, <2>1, <3>1
      <4>2. IsItem([x EXCEPT ![f] = g]) /\ [x EXCEPT ![f] = g].updatedAt = g
        <5>1. IsItem(x) /\ (f \in {"value", "source"} \/ (f = "updatedAt" /\ g \in Nat))
          BY <4>1
        <5>2. IsItem([x EXCEPT ![f] = g]) /\ (f = "updatedAt" => [x EXCEPT ![f] = g].updatedAt = g)
          BY ONLY <5>1, ItemUpdated, Zenon
        <5> QED BY <4>1, <5>2
      <4> QED BY <4>1, <4>2, Zenon
    <3>2. CASE at[p] # 3
      <4>1. f \in {"value", "source"} /\ IsItem(x)
        BY <1>1, <2>1, <3>2
      <4> QED BY ONLY <3>2, <4>1, ItemUpdated, Zenon
    <3> QED BY <3>1, <3>2
  <2>4. Views(p, 2)' /\ view'[p][1] = view[p][1] /\ (at[p] = 3 => view'[p][2].updatedAt = stamp[k])
    BY <2>1, <2>2, <2>3 DEF Views
  <2> QED BY <1>3, <1>4, <1>7, <2>4
<1> QED BY <1>6, <1>7

\* Nothing is taken back: keys stay registered and times only grow.
Grown ==
  /\ registered \subseteq registered'
  /\ \A k \in Keys : stamp[k] \in Nat /\ stamp'[k] \in Nat /\ stamp[k] <= stamp'[k]

\* A goroutine that does not move, and a handler whose request and answer do not change.
Rests(q) ==
  /\ pc'[q] = pc[q] /\ call'[q] = call[q] /\ at'[q] = at[q] /\ res'[q] = res[q]
  /\ todo'[q] = todo[q] /\ view'[q] = view[q]

Unasked(q) == stage'[q] = stage[q] /\ request'[q] = request[q] /\ answer'[q] = answer[q]

LEMMA TimesGrow ==
  ASSUME Invariant, Stored, [Next]_vars
  PROVE  Grown
<1>1. Shaped /\ Shaped'
  BY ShapedKept DEF Stored
<1>2. \A k \in Keys : stamp[k] \in Nat /\ stamp'[k] \in Nat
  BY <1>1 DEF Shaped
<1> SUFFICES registered \subseteq registered' /\ \A k \in Keys : stamp[k] <= stamp'[k]
  BY <1>2 DEF Grown
<1> DEFINE Grows == registered \subseteq registered' /\ \A k \in Keys : stamp[k] <= stamp'[k]
<1>3. ASSUME registered' = registered, stamp' = stamp PROVE Grows
  BY <1>2, <1>3
<1>4. ASSUME UNCHANGED <<values, locals, bound>> PROVE Grows
  BY <1>3, <1>4 DEF values, bound
<1>5. ASSUME BindStep PROVE Grows
  <2>1. registered \subseteq registered' /\ stamp' = stamp
    BY <1>5 DEF BindStep, BindRegisters, BindReads, BindSyncs, Register, Binder, values
  <2> QED BY <1>2, <2>1
<1>6. ASSUME NEW p \in Procs, Plain(p) PROVE Grows
  BY <1>3, <1>6 DEF Plain, values
<1>7. ASSUME NEW p \in Procs, Storing(p) PROVE Grows
  <2>1. registered' = registered
    BY <1>7, StoringMoves DEF Invariant, Stored
  <2>2. stamp' = stamp \/ stamp' = [stamp EXCEPT ![Key(p)] = @ + 1]
    BY <1>7 DEF Storing, ApplySet, ApplyLast, StoreSource, StoreStamp, Callback, NestedWrite, CallbacksOver, values
  <2> QED BY <1>1, <1>2, <2>1, <2>2 DEF Shaped
<1> QED BY <1>4, <1>5, <1>6, <1>7, KindsOfSteps

LEMMA RestingServed ==
  ASSUME Shaped, Grown, NEW p \in Procs, Serves(p), Rests(p), Unasked(p)
  PROVE  Serves(p)'
<1>1. Known(p) => Known(p)' /\ AskedKey(p) \in Keys
  BY DEF Known, Grown, Unasked, AskedKey, Shaped
<1>2. AskedKey(p)' = AskedKey(p) /\ Key(p)' = Key(p)
  BY DEF Unasked, AskedKey, Rests, Key
<1>3. \A n \in 0 .. 2 : Views(p, n)' <=> Views(p, n)
  BY DEF Views, Rests
<1>4. \A n \in {1, 2} : Known(p) /\ Views(p, n) /\ Fresh(p, n) => Fresh(p, n)'
  BY <1>1, <1>2 DEF Fresh, Views, IsItem, Grown, Rests
<1>5. \A n \in {0, 1} : Looks(p, n) => Looks(p, n)'
  <2> SUFFICES ASSUME NEW n \in {0, 1}, Looks(p, n) PROVE Looks(p, n)'
    OBVIOUS
  <2>1. n \in 0 .. 2 /\ n + 1 \in 0 .. 2 /\ n + 1 \in {1, 2}
    OBVIOUS
  <2>2. /\ Views(p, n)' <=> Views(p, n)
        /\ Views(p, n + 1)' <=> Views(p, n + 1)
        /\ Known(p) /\ Views(p, n + 1) /\ Fresh(p, n + 1) => Fresh(p, n + 1)'
    BY <1>3, <1>4, <2>1
  <2> QED BY <1>1, <1>2, <2>2 DEF Looks, Rests
<1>6. Writes(p) => Writes(p)'
  <2> SUFFICES ASSUME Writes(p) PROVE Writes(p)'
    OBVIOUS
  <2>1. /\ Views(p, 1)' /\ Fresh(p, 1)' /\ Known(p)' /\ AskedKey(p) \in Keys
        /\ view[p][1].updatedAt \in Nat
    BY <1>1, <1>3, <1>4 DEF Writes, Views, IsItem
  <2> QED BY <1>2, <2>1 DEF Writes, Rests, Grown
<1>7. AnswersInOrder(p) => AnswersInOrder(p)'
  BY DEF AnswersInOrder, Unasked
<1>8. ASSUME stage[p] = "new"
      PROVE  Known(p)' /\ view'[p][1].updatedAt < stamp'[AskedKey(p)'] /\ Looks(p, 1)'
  <2>1. Known(p) /\ view[p][1].updatedAt < stamp[AskedKey(p)] /\ Looks(p, 1)
    BY <1>8 DEF Serves
  <2>2. view[p][1].updatedAt \in Nat
    <3>1. Views(p, 1) \/ Views(p, 2) \/ (pc[p] = "returned" /\ res[p] # "ok")
      BY <2>1 DEF Looks
    <3>2. ~(pc[p] = "returned" /\ res[p] # "ok")
      BY <1>8 DEF Serves
    <3> QED BY <3>1, <3>2 DEF Views, IsItem
  <2> QED BY <1>1, <1>2, <1>5, <2>1, <2>2 DEF Grown, Rests
<1> QED BY <1>5, <1>6, <1>7, <1>8 DEF Serves, Unasked, Rests

\* One goroutine moves at a time.
LEMMA OthersRest ==
  ASSUME Gated, Shaped, Domains, NEW p \in Procs,
         \/ RegistryStep(p) \/ DirectStep(p)
         \/ (\E c : Begin(p, c)) \/ (Forgets(p) /\ UNCHANGED todo),
         NEW q \in Procs \ {p}
  PROVE  Rests(q)
<1> USE DEF Rests, Domains, Shaped, Gated, Moves, Returns
<1>1. ASSUME WriteStep(p) PROVE Rests(q)
  <2>1. /\ call' = call /\ todo' = todo /\ view' = view
        /\ pc' = pc \/ \E s : pc' = [pc EXCEPT ![p] = s]
        /\ at' = at \/ \E i : at' = [at EXCEPT ![p] = i]
        /\ res' = res \/ \E r : res' = [res EXCEPT ![p] = r]
    <3> DEFINE Moved == /\ call' = call /\ todo' = todo /\ view' = view
                        /\ pc' = pc \/ \E s : pc' = [pc EXCEPT ![p] = s]
                        /\ at' = at \/ \E i : at' = [at EXCEPT ![p] = i]
                        /\ res' = res \/ \E r : res' = [res EXCEPT ![p] = r]
    <3>1. ASSUME Resolve(p) \/ ResetLast(p) \/ CheckOwner(p) \/ NothingToRestore(p) PROVE Moved
      BY <3>1 DEF Resolve, ResetLast, CheckOwner, NothingToRestore, reads
    <3>2. ASSUME NEW valid, NEW v, Enter(p, valid, v) PROVE Moved
      BY <3>2 DEF Enter, reads
    <3>3. ASSUME TryLock(p) \/ Lock(p) \/ StoreOwner(p) \/ Unlock(p) PROVE Moved
      BY <3>3 DEF TryLock, Lock, StoreOwner, Unlock, reads
    <3>4. ASSUME ApplySet(p) \/ StoreSource(p) \/ StoreStamp(p) PROVE Moved
      BY <3>4 DEF ApplySet, StoreSource, StoreStamp, reads
    <3>5. ASSUME ApplyLast(p) PROVE Moved
      BY <3>5 DEF ApplyLast, reads
    <3>6. ASSUME Callback(p) \/ NestedWrite(p) \/ CallbacksOver(p) PROVE Moved
      BY <3>6 DEF Callback, NestedWrite, CallbacksOver, reads
    <3>7. SetBool(p) \/ SetInt64(p) \/ SetDuration(p) \/ SetFloat64(p) \/ SetString(p) \/ SetEnum(p) =>
            \E valid, v : Enter(p, valid, v)
      BY DEF SetBool, SetInt64, SetDuration, SetFloat64, SetString, SetEnum
    <3> QED BY <1>1, <3>1, <3>2, <3>3, <3>4, <3>5, <3>6, <3>7 DEF WriteStep
  <2> QED BY <2>1
<1>2. ASSUME ReadStep(p) PROVE Rests(q)
  <2>1. call' = call
    BY <1>2 DEF ReadStep, Look, ReadField, ReadOverride, ReadOver
  <2>2. pc' = pc \/ \E s : pc' = [pc EXCEPT ![p] = s]
    BY <1>2 DEF ReadStep, Look, ReadField, ReadOverride, ReadOver
  <2>3. at' = at \/ \E i : at' = [at EXCEPT ![p] = i]
    BY <1>2 DEF ReadStep, Look, ReadField, ReadOverride, ReadOver
  <2>4. res' = res \/ \E r : res' = [res EXCEPT ![p] = r]
    BY <1>2 DEF ReadStep, Look, ReadField, ReadOverride, ReadOver
  <2>5. todo' = todo \/ \E s : todo' = [todo EXCEPT ![p] = s]
    BY <1>2 DEF ReadStep, Look, ReadField, ReadOverride, ReadOver, reads
  <2>6. view' = view \/ \E s : view' = [view EXCEPT ![p] = s]
    <3>1. CASE Look(p)
      BY <3>1 DEF Look
    <3>2. CASE ReadField(p)
      BY <3>2 DEF ReadField
    <3>3. CASE ReadOverride(p)
      BY <3>3 DEF ReadOverride
    <3>4. CASE ReadOver(p)
      BY <3>4 DEF ReadOver, reads
    <3> QED BY <1>2, <3>1, <3>2, <3>3, <3>4 DEF ReadStep
  <2> QED BY <2>1, <2>2, <2>3, <2>4, <2>5, <2>6
<1>3. ASSUME NEW c, Begin(p, c) PROVE Rests(q)
  BY <1>3 DEF Begin, reads
<1>4. ASSUME Forgets(p), UNCHANGED todo PROVE Rests(q)
  BY <1>4 DEF Forgets
<1>5. ASSUME DirectStep(p) PROVE Rests(q)
  BY <1>3, <1>4, <1>5 DEF DirectStep, Finish, Call
<1> QED BY <1>1, <1>2, <1>3, <1>4, <1>5 DEF RegistryStep

\* A lookup takes its three loads, and leaves what the handler read before as it is.
LEMMA LookupServed ==
  ASSUME Gated, Shaped, Domains, NEW p \in Procs, NEW n \in {0, 1}, Looks(p, n), RegistryStep(p),
         Unasked(p),
         n = 1 => /\ Known(p) /\ view[p][1].updatedAt < stamp[AskedKey(p)]
                  /\ pc[p] = "returned" => res[p] = "ok"
  PROVE  /\ Looks(p, n)'
         /\ n = 1 => /\ Known(p)' /\ view'[p][1] = view[p][1] /\ stamp' = stamp
                     /\ pc'[p] = "returned" => res'[p] = "ok"
<1>0. pc[p] \in {"looking", "reading"}
  BY RegistryStepsInCall DEF Gated, Looks
<1>1. ReadStep(p) /\ ~ReadOverride(p)
  <2>1. ~WriteStep(p)
    BY <1>0 DEF WriteStep, Resolve, ResetLast, SetBool, SetInt64, SetDuration, SetFloat64, SetString, SetEnum,
                Sets, TryLock, CheckOwner, Lock, StoreOwner, Unlock, ApplySet, NothingToRestore, ApplyLast,
                StoreSource, StoreStamp, Callback, NestedWrite, CallbacksOver, Due, Moves
  <2>2. ~ReadOverride(p)
    BY DEF ReadOverride, Looks
  <2> QED BY <2>1, <2>2 DEF RegistryStep
<1>2. /\ stamp' = stamp /\ registered' = registered /\ call' = call
      /\ AskedKey(p)' = AskedKey(p) /\ Key(p)' = Key(p)
  BY <1>1 DEF ReadStep, Look, ReadField, ReadOver, values, bound, Unasked, AskedKey, Key
<1>3. (Known(p) <=> LookupError(AskedKey(p)) = "none") /\ (Known(p)' <=> Known(p))
  BY <1>2 DEF Known, LookupError
<1>4. CASE Look(p)
  <2>1. pc[p] = "looking" /\ Views(p, n) /\ call[p].op = "Lookup" /\ Key(p) = AskedKey(p) /\ view' = view
    BY <1>4 DEF Look, Looks
  <2>2. Views(p, n)'
    BY <2>1 DEF Views
  <2>3. CASE LookupError(Key(p)) # "none"
    <3>1. pc'[p] = "returned" /\ res'[p] = LookupError(Key(p)) /\ ~Known(p)
      BY <1>3, <1>4, <2>1, <2>3 DEF Look, Returns, Gated
    <3>2. LookupError(Key(p)) # "ok"
      BY DEF LookupError
    <3> QED BY <1>2, <2>1, <3>1, <3>2 DEF Looks
  <2>4. CASE LookupError(Key(p)) = "none"
    <3>1. pc'[p] = "reading" /\ todo'[p] = <<AskedKey(p)>> /\ at'[p] = 1
      BY <1>4, <2>1, <2>4 DEF Look, Moves, Gated, Shaped, Domains
    <3>2. Known(p)'
      BY <1>3, <2>1, <2>4
    <3> QED BY <1>2, <2>1, <2>2, <3>1, <3>2 DEF Looks
  <2> QED BY <2>3, <2>4
<1>5. CASE ReadField(p)
  <2>1. /\ pc[p] = "reading" /\ todo[p] # <<>> /\ pc' = pc /\ Known(p)
        /\ call[p].op = "Lookup" /\ Key(p) = AskedKey(p)
    BY <1>5 DEF ReadField, Looks
  <2>2. /\ todo[p] = <<AskedKey(p)>> /\ at[p] \in 1 .. 3 /\ AskedKey(p) \in Keys
        /\ Views(p, IF at[p] = 1 THEN n ELSE n + 1)
    BY <2>1 DEF Looks, Known, Shaped
  <2>3. /\ Views(p, n + 1)'
        /\ n = 1 => view'[p][1] = view[p][1]
        /\ at[p] # 3 => at'[p] = at[p] + 1 /\ todo'[p] = todo[p]
        /\ at[p] = 3 => todo'[p] = <<>> /\ view'[p][n + 1].updatedAt = stamp[AskedKey(p)]
    BY <1>5, <2>2, FieldRead DEF Domains
  <2>4. CASE at[p] = 3
    <3>1. Fresh(p, n + 1)'
      BY <1>2, <2>2, <2>3, <2>4 DEF Fresh, Shaped
    <3> QED BY <1>2, <1>3, <2>1, <2>3, <2>4, <3>1 DEF Looks
  <2>5. CASE at[p] # 3
    <3>1. at'[p] \in {2, 3} /\ todo'[p] = <<AskedKey(p)>>
      BY <2>2, <2>3, <2>5
    <3> QED BY <1>2, <1>3, <2>1, <2>3, <3>1 DEF Looks
  <2> QED BY <2>4, <2>5
<1>6. CASE ReadOver(p)
  <2>1. /\ todo[p] = <<>> /\ pc[p] = "reading" /\ pc'[p] = "returned" /\ res'[p] = "ok" /\ view' = view
        /\ call[p].op = "Lookup" /\ Key(p) = AskedKey(p) /\ Known(p)
    BY <1>6 DEF ReadOver, Moves, Gated, reads, Looks
  <2>2. Views(p, n + 1) /\ Fresh(p, n + 1)
    BY <2>1 DEF Looks
  <2>3. Views(p, n + 1)' /\ Fresh(p, n + 1)'
    BY <1>2, <2>1, <2>2 DEF Views, Fresh
  <2> QED BY <1>2, <1>3, <2>1, <2>3 DEF Looks
<1> QED BY <1>1, <1>4, <1>5, <1>6 DEF ReadStep

\* What a step of a write may do to where the goroutine is and to its result.
LEMMA WriteAdvances ==
  ASSUME Gated, Shaped, NEW p \in Procs, WriteStep(p)
  PROVE  /\ call' = call /\ view' = view
         /\ pc'[p] \notin {"idle", "looking", "reading"}
         /\ \/ pc[p] = "callbacks"
            \/ pc'[p] # "callbacks" /\ (res'[p] = "ok" => res[p] = "ok")
            \/ res' = res /\ stamp' = [stamp EXCEPT ![Key(p)] = @ + 1]
<1> DEFINE Advanced == /\ call' = call /\ view' = view
                       /\ pc'[p] \notin {"idle", "looking", "reading"}
                       /\ \/ pc[p] = "callbacks"
                          \/ pc'[p] # "callbacks" /\ (res'[p] = "ok" => res[p] = "ok")
                          \/ res' = res /\ stamp' = [stamp EXCEPT ![Key(p)] = @ + 1]
<1> USE DEF Gated, Moves, Returns, reads
<1>1. ASSUME Resolve(p) PROVE Advanced
  <2>1. LookupError(Key(p)) # "ok"
    BY DEF LookupError
  <2> QED BY <1>1, <2>1 DEF Resolve
<1>2. ASSUME ResetLast(p) \/ TryLock(p) \/ Lock(p) \/ StoreOwner(p) \/ Unlock(p) PROVE Advanced
  BY <1>2 DEF ResetLast, TryLock, Lock, StoreOwner, Unlock
<1>3. ASSUME NEW valid, NEW v, Enter(p, valid, v) PROVE Advanced
  BY <1>3 DEF Enter
<1>4. ASSUME CheckOwner(p) \/ NothingToRestore(p) PROVE Advanced
  BY <1>4 DEF CheckOwner, NothingToRestore
<1>5. ASSUME ApplySet(p) \/ ApplyLast(p) \/ StoreSource(p) PROVE Advanced
  BY <1>5 DEF ApplySet, ApplyLast, StoreSource
<1>6. ASSUME StoreStamp(p) PROVE Advanced
  BY <1>6 DEF StoreStamp
<1>7. ASSUME Callback(p) \/ NestedWrite(p) \/ CallbacksOver(p) PROVE Advanced
  BY <1>7 DEF Callback, NestedWrite, CallbacksOver, Due
<1>8. SetBool(p) \/ SetInt64(p) \/ SetDuration(p) \/ SetFloat64(p) \/ SetString(p) \/ SetEnum(p) =>
        \E valid, v : Enter(p, valid, v)
  BY DEF SetBool, SetInt64, SetDuration, SetFloat64, SetString, SetEnum
<1> QED BY <1>1, <1>2, <1>3, <1>4, <1>5, <1>6, <1>7, <1>8 DEF WriteStep

LEMMA WriteServed ==
  ASSUME Gated, Shaped, Grown, NEW p \in Procs, Writes(p), RegistryStep(p), Unasked(p)
  PROVE  Writes(p)'
<1>1. WriteStep(p)
  BY DEF RegistryStep, ReadStep, Look, ReadField, ReadOverride, ReadOver, Moves, Writes
<1>2. /\ AskedKey(p)' = AskedKey(p) /\ Key(p)' = Key(p) /\ view' = view
      /\ Known(p) /\ Known(p)' /\ AskedKey(p) \in Keys /\ Key(p) = AskedKey(p)
  BY <1>1, WriteAdvances DEF Unasked, AskedKey, Key, Writes, Known, Grown, Shaped
<1>3. Views(p, 1)' /\ view[p][1].updatedAt \in Nat
  BY <1>2 DEF Writes, Views, IsItem
<1>4. Fresh(p, 1)'
  BY <1>2, <1>3 DEF Writes, Fresh, Grown
<1>5. ASSUME pc'[p] = "callbacks" \/ res'[p] = "ok"
      PROVE  view'[p][1].updatedAt < stamp'[AskedKey(p)]
  <2>1. CASE pc[p] = "callbacks" \/ res[p] = "ok"
    BY <1>2, <1>3, <2>1 DEF Writes, Grown
  <2>2. CASE res' = res /\ stamp' = [stamp EXCEPT ![Key(p)] = @ + 1]
    BY <1>2, <1>3, <2>2 DEF Writes, Fresh, Shaped
  <2> QED BY <1>1, <1>5, <2>1, <2>2, WriteAdvances
<1> QED BY <1>1, <1>2, <1>3, <1>4, <1>5, WriteAdvances DEF Writes

\* The calls of a handler's step, and the answer it comes to.
LEMMA HandlerServed ==
  ASSUME Gated, HandlersWait, Shaped, HandlersAsk, Domains, NEW p \in Handlers, Serves(p),
         HandlerStep(p) \/ \E r \in Requests : Receive(p, r)
  PROVE  Serves(p)'
<1> USE DEF Gated, HandlersWait, HandlersAsk, Domains, Shaped
<1>0. p \in Procs /\ stage[p] \in Stages
  BY OpsTuningAssumption
<1>1. CASE \E r \in Requests : Receive(p, r)
  <2>1. stage'[p] = "checking" /\ view' = view /\ stage[p] = "none"
    BY <1>0, <1>1 DEF Receive, reads
  <2> QED BY <2>1 DEF Serves
<1>2. ASSUME NEW next, NEW op, Calls(p, next, AskedFor(p, op))
      PROVE  /\ stage'[p] = next /\ pc'[p] = FirstStep(op) /\ res'[p] = "none" /\ view' = view
             /\ call'[p].op = op /\ call'[p].key = AskedKey(p)
             /\ request' = request /\ answer' = answer /\ registered' = registered /\ stamp' = stamp
  BY <1>0, <1>2 DEF Calls, Begin, AskedFor, reads, bound, values
<1>3. FirstStep("Lookup") = "looking" /\ \A op \in Writing : FirstStep(op) = "called"
  BY DEF FirstStep, Reading, Writing
<1>4. CASE LookupOld(p)
  <2>1. Calls(p, "old", AskedFor(p, "Lookup")) /\ stage[p] = "checking" /\ view[p] = <<>>
    BY <1>4 DEF LookupOld, Serves
  <2>2. Looks(p, 0)'
    BY <1>2, <1>3, <2>1 DEF Looks, Views, Key, AskedKey
  <2> QED BY <1>2, <2>1, <2>2 DEF Serves
<1>5. CASE ReadOnly(p)
  <2>1. Calls(p, "read", AskedFor(p, request[p].op)) /\ request[p].op \notin Writing
    BY <1>5 DEF ReadOnly
  <2> QED BY <1>2, <2>1 DEF Serves
<1>6. CASE Write(p)
  <2>1. /\ stage[p] = "old" /\ pc[p] = "returned" /\ res[p] = "ok" /\ Looks(p, 0)
        /\ Calls(p, "write", AskedFor(p, request[p].op)) /\ request[p].op \in Writing
    BY <1>6 DEF Write, Serves
  <2>2. Known(p) /\ Views(p, 1) /\ Fresh(p, 1)
    BY <2>1 DEF Looks
  <2>3. Known(p)' /\ Views(p, 1)' /\ Fresh(p, 1)' /\ AskedKey(p)' = AskedKey(p)
    BY <1>2, <2>1, <2>2 DEF Known, Views, Fresh, AskedKey
  <2>4. Writes(p)'
    BY <1>2, <1>3, <2>1, <2>3 DEF Writes, Key
  <2> QED BY <1>2, <2>1, <2>4 DEF Serves
<1>7. CASE LookupNew(p)
  <2>1. /\ stage[p] = "write" /\ pc[p] = "returned" /\ res[p] = "ok" /\ Writes(p)
        /\ Calls(p, "new", AskedFor(p, "Lookup"))
    BY <1>7 DEF LookupNew, Serves
  <2>2. Known(p) /\ Views(p, 1) /\ view[p][1].updatedAt < stamp[AskedKey(p)]
    BY <2>1 DEF Writes
  <2>3. /\ Known(p)' /\ Views(p, 1)' /\ view'[p][1].updatedAt < stamp'[AskedKey(p)']
        /\ AskedKey(p)' = AskedKey(p)
    BY <1>2, <2>1, <2>2 DEF Known, Views, AskedKey
  <2>4. Looks(p, 1)'
    BY <1>2, <1>3, <2>1, <2>3 DEF Looks, Key
  <2> QED BY <1>2, <1>3, <2>1, <2>3, <2>4 DEF Serves
<1>8. ASSUME NEW a, Answers(p, a), UNCHANGED request, request[p].op \in Writing => AnswersInOrder(p)'
      PROVE  Serves(p)'
  <2>1. stage'[p] = "answered"
    BY <1>0, <1>8 DEF Answers
  <2> QED BY <1>8, <2>1 DEF Serves
<1>9. ASSUME NEW a, Answers(p, a), a.status # 200 PROVE AnswersInOrder(p)'
  BY <1>0, <1>9 DEF Answers, AnswersInOrder
<1>10. CASE Refuse(p)
  <2>1. Answers(p, [NoAnswer EXCEPT !.status = Checked(p)]) /\ Checked(p) # 200 /\ UNCHANGED request
    BY <1>10 DEF Refuse
  <2>2. [NoAnswer EXCEPT !.status = Checked(p)].status # 200
    BY <2>1 DEF NoAnswer
  <2> QED BY <1>8, <1>9, <2>1, <2>2
<1>11. CASE NotFound(p)
  <2>1. Answers(p, [NoAnswer EXCEPT !.status = 404]) /\ UNCHANGED request
    BY <1>11 DEF NotFound
  <2>2. [NoAnswer EXCEPT !.status = 404].status # 200
    BY DEF NoAnswer
  <2> QED BY <1>8, <1>9, <2>1, <2>2
<1>12. CASE ReadAnswered(p)
  <2>1. stage[p] = "read" /\ UNCHANGED request /\ \E a : Answers(p, a)
    BY <1>12 DEF ReadAnswered
  <2> QED BY <1>8, <2>1 DEF Serves
<1>13. CASE WriteFailed(p)
  <2>1. PICK a : Answers(p, a) /\ a.status = TuningWriteStatus(res[p]) /\ UNCHANGED request /\ res[p] # "ok"
    BY <1>13 DEF WriteFailed
  <2>2. TuningWriteStatus(res[p]) # 200
    BY <2>1 DEF TuningWriteStatus
  <2> QED BY <1>8, <1>9, <2>1, <2>2
<1>14. CASE WriteAnswered(p)
  <2>1. /\ stage[p] = "new" /\ pc[p] = "returned" /\ UNCHANGED request
        /\ Answers(p, [NoAnswer EXCEPT !.status = 200, !.items = view[p]])
    BY <1>14 DEF WriteAnswered
  <2>2. Fresh(p, 2)
    BY <2>1 DEF Serves, Looks
  <2>3. answer'[p].items = view[p]
    BY <1>0, <2>1 DEF Answers, NoAnswer
  <2>4. AnswersInOrder(p)'
    BY <2>2, <2>3 DEF AnswersInOrder, Fresh
  <2> QED BY <1>8, <2>1, <2>4
<1>15. CASE Deliver(p)
  <2>1. stage'[p] = "none" /\ pc'[p] = "idle" /\ view'[p] = <<>>
    BY <1>0, <1>15 DEF Deliver, Forgets
  <2> QED BY <2>1 DEF Serves
<1> QED BY <1>1, <1>4, <1>5, <1>6, <1>7, <1>10, <1>11, <1>12, <1>13, <1>14, <1>15 DEF HandlerStep

LEMMA DomainsKept ==
  ASSUME Domains, [Next]_vars
  PROVE  Domains'
<1> USE DEF Domains
<1>1. ASSUME NEW p \in Procs, WriteStep(p), UNCHANGED hvars PROVE Domains'
  <2>1. UNCHANGED reads
    <3>1. SetBool(p) \/ SetInt64(p) \/ SetDuration(p) \/ SetFloat64(p) \/ SetString(p) \/ SetEnum(p) =>
            \E valid, v : Enter(p, valid, v)
      BY DEF SetBool, SetInt64, SetDuration, SetFloat64, SetString, SetEnum
    <3>2. ASSUME NEW valid, NEW v, Enter(p, valid, v) PROVE UNCHANGED reads
      BY <3>2 DEF Enter
    <3> QED BY <1>1, <3>1, <3>2 DEF WriteStep, Resolve, ResetLast, TryLock, CheckOwner, Lock, StoreOwner,
              Unlock, ApplySet, NothingToRestore, ApplyLast, StoreSource, StoreStamp, Callback, NestedWrite,
              CallbacksOver
  <2> QED BY <1>1, <2>1 DEF reads, hvars
<1>2. ASSUME NEW p \in Procs, ReadStep(p), UNCHANGED hvars PROVE Domains'
  <2>1. DOMAIN view' = Procs
    <3>1. CASE Look(p) \/ ReadOver(p)
      BY <3>1 DEF Look, ReadOver, reads
    <3>2. CASE ReadField(p)
      BY <3>2 DEF ReadField
    <3>3. CASE ReadOverride(p)
      BY <3>3 DEF ReadOverride
    <3> QED BY <1>2, <3>1, <3>2, <3>3 DEF ReadStep
  <2>2. DOMAIN todo' = Procs
    BY <1>2 DEF ReadStep, Look, ReadField, ReadOverride, ReadOver, reads
  <2> QED BY <1>2, <2>1, <2>2 DEF hvars
<1>3. ASSUME NEW p, NEW c, Begin(p, c) PROVE UNCHANGED reads
  BY <1>3 DEF Begin
<1>4. ASSUME NEW p, Forgets(p), UNCHANGED todo PROVE DOMAIN view' = Procs /\ DOMAIN todo' = Procs
  BY <1>4 DEF Forgets
<1>5. ASSUME NEW p \in Procs, DirectStep(p), UNCHANGED hvars PROVE Domains'
  BY <1>3, <1>4, <1>5 DEF DirectStep, Finish, Call, reads, hvars
<1>6. ASSUME BindStep, UNCHANGED hvars PROVE Domains'
  BY <1>6 DEF BindStep, BindRegisters, BindReads, BindSyncs, reads, hvars
<1>7. ASSUME NEW p \in Handlers, HandlerStep(p) \/ \E r \in Requests : Receive(p, r) PROVE Domains'
  <2>1. CASE LookupOld(p) \/ ReadOnly(p) \/ Write(p) \/ LookupNew(p)
    BY <1>3, <2>1 DEF LookupOld, ReadOnly, Write, LookupNew, Calls, reads
  <2>2. CASE Refuse(p) \/ NotFound(p) \/ ReadAnswered(p) \/ WriteFailed(p) \/ WriteAnswered(p)
    <3>1. UNCHANGED tvars /\ \E a : Answers(p, a)
      BY <2>2 DEF Refuse, NotFound, ReadAnswered, WriteFailed, WriteAnswered
    <3> QED BY <3>1 DEF tvars, reads, Answers
  <2>3. CASE Deliver(p)
    BY <1>4, <2>3 DEF Deliver
  <2>4. CASE \E r \in Requests : Receive(p, r)
    BY <2>4 DEF Receive, reads
  <2> QED BY <1>7, <2>1, <2>2, <2>3, <2>4 DEF HandlerStep
<1>8. CASE UNCHANGED vars
  BY <1>8 DEF vars, tvars, reads, hvars
<1> QED BY <1>1, <1>2, <1>5, <1>6, <1>7, <1>8 DEF Next, RegistryStep

LEMMA ReadKept ==
  ASSUME Invariant, Stored, Read, [Next]_vars
  PROVE  Read'
<1> USE DEF Invariant
<1>1. Shaped /\ HandlersAsk /\ Domains /\ Grown
  BY TimesGrow DEF Stored, Read
<1> SUFFICES ASSUME NEW p \in Handlers PROVE Serves(p)'
  BY <1>1, DomainsKept DEF Read
<1>2. Serves(p) /\ p \in Procs
  BY OpsTuningAssumption DEF Read
<1>3. ASSUME UNCHANGED hvars PROVE Unasked(p)
  BY <1>3 DEF hvars, Unasked
<1>4. ASSUME NEW q \in Procs, RegistryStep(q), UNCHANGED hvars PROVE Serves(p)'
  <2>1. Unasked(p)
    BY <1>3, <1>4
  <2>2. CASE q # p
    <3>1. Rests(p)
      BY <1>1, <1>2, <1>4, <2>2, OthersRest
    <3> QED BY <1>1, <1>2, <2>1, <3>1, RestingServed
  <2>3. CASE q = p
    <3>0. RegistryStep(p)
      BY <1>4, <2>3
    <3>1. stage[p] \in {"old", "read", "write", "new"}
      <4>1. pc[p] \notin {"idle", "returned"}
        BY <1>2, <3>0, RegistryStepsInCall DEF Gated
      <4> QED BY <1>2, <4>1 DEF Serves, HandlersWait, Stages
    <3>2. stage'[p] = stage[p] /\ request'[p] = request[p] /\ AskedKey(p)' = AskedKey(p)
      BY <2>1 DEF Unasked, AskedKey
    <3>3. CASE stage[p] = "old"
      <4>1. Looks(p, 0)
        BY <1>2, <3>3 DEF Serves
      <4>2. Looks(p, 0)'
        BY <1>1, <1>2, <2>1, <3>0, <4>1, LookupServed
      <4> QED BY <3>2, <3>3, <4>2 DEF Serves
    <3>4. CASE stage[p] = "read"
      BY <1>2, <3>2, <3>4 DEF Serves
    <3>5. CASE stage[p] = "write"
      <4>1. Writes(p)
        BY <1>2, <3>5 DEF Serves
      <4>2. Writes(p)'
        BY <1>1, <1>2, <2>1, <3>0, <4>1, WriteServed
      <4> QED BY <3>2, <3>5, <4>2 DEF Serves
    <3>6. CASE stage[p] = "new"
      <4>1. /\ Known(p) /\ view[p][1].updatedAt < stamp[AskedKey(p)] /\ Looks(p, 1)
            /\ pc[p] = "returned" => res[p] = "ok"
        BY <1>2, <3>6 DEF Serves
      <4>2. /\ Looks(p, 1)' /\ Known(p)' /\ view'[p][1] = view[p][1] /\ stamp' = stamp
            /\ pc'[p] = "returned" => res'[p] = "ok"
        BY <1>1, <1>2, <2>1, <3>0, <4>1, LookupServed
      <4> QED BY <3>2, <3>6, <4>1, <4>2 DEF Serves
    <3> QED BY <3>1, <3>3, <3>4, <3>5, <3>6
  <2> QED BY <2>2, <2>3
<1>5. ASSUME NEW q \in Procs, DirectStep(q), UNCHANGED hvars PROVE Serves(p)'
  <2>1. Unasked(p) /\ q # p
    BY <1>3, <1>5 DEF DirectStep
  <2>2. Rests(p)
    BY <1>1, <1>2, <1>5, <2>1, OthersRest
  <2> QED BY <1>1, <1>2, <2>1, <2>2, RestingServed
<1>6. ASSUME UNCHANGED hvars, UNCHANGED <<locals, reads>> PROVE Serves(p)'
  <2>1. Unasked(p) /\ Rests(p)
    BY <1>3, <1>6 DEF locals, reads, Rests
  <2> QED BY <1>1, <1>2, <2>1, RestingServed
<1>7. ASSUME NEW q \in Handlers, HandlerStep(q) \/ \E r \in Requests : Receive(q, r) PROVE Serves(p)'
  <2>1. CASE q = p
    BY <1>1, <1>2, <1>7, <2>1, HandlerServed
  <2>2. CASE q # p
    <3>1. Unasked(p)
      <4>1. /\ stage' = stage \/ \E s : stage' = [stage EXCEPT ![q] = s]
            /\ request' = request \/ \E s : request' = [request EXCEPT ![q] = s]
            /\ answer' = answer \/ \E s : answer' = [answer EXCEPT ![q] = s]
        BY <1>7 DEF HandlerStep, Receive, Refuse, NotFound, ReadAnswered, WriteFailed, WriteAnswered, Answers,
                    LookupOld, ReadOnly, Write, LookupNew, Calls, Deliver
      <4> QED BY <1>1, <1>2, <2>2, <4>1 DEF Unasked, HandlersWait, HandlersAsk, Domains
    <3>2. Rests(p)
      <4>1. q \in Procs
        BY OpsTuningAssumption
      <4>2. CASE LookupOld(q) \/ ReadOnly(q) \/ Write(q) \/ LookupNew(q)
        <5>1. \E c : Begin(q, c)
          BY <4>2 DEF LookupOld, ReadOnly, Write, LookupNew, Calls
        <5> QED BY <1>1, <1>2, <2>2, <4>1, <5>1, OthersRest
      <4>3. CASE Deliver(q)
        <5>1. Forgets(q) /\ UNCHANGED todo
          BY <4>3 DEF Deliver
        <5> QED BY <1>1, <1>2, <2>2, <4>1, <5>1, OthersRest
      <4>4. CASE Refuse(q) \/ NotFound(q) \/ ReadAnswered(q) \/ WriteFailed(q) \/ WriteAnswered(q)
        BY <4>4 DEF Refuse, NotFound, ReadAnswered, WriteFailed, WriteAnswered, tvars, locals, reads, Rests
      <4>5. CASE \E r \in Requests : Receive(q, r)
        BY <4>5 DEF Receive, locals, reads, Rests
      <4> QED BY <1>7, <4>2, <4>3, <4>4, <4>5 DEF HandlerStep
    <3> QED BY <1>1, <1>2, <3>1, <3>2, RestingServed
  <2> QED BY <2>1, <2>2
<1>8. CASE BindStep /\ UNCHANGED hvars
  BY <1>6, <1>8 DEF BindStep, BindRegisters, BindReads, BindSyncs
<1>9. CASE UNCHANGED vars
  BY <1>6, <1>9 DEF vars, tvars
<1> QED BY <1>4, <1>5, <1>7, <1>8, <1>9 DEF Next

\* The answer to a successful write puts an older state of the variable before a newer one: its write
\* stores its time after the first item was read, in the same call that its success is told from, and
\* nobody ever stores an older time.
THEOREM AnswersAreOrdered == Spec => []AnswerOrdered
<1>1. ASSUME Init PROVE Read
  <2>1. Domains
    BY <1>1 DEF Init, TInit, Domains
  <2>2. ASSUME NEW p \in Handlers PROVE stage[p] = "none" /\ pc[p] = "idle" /\ view[p] = <<>>
    BY <1>1, OpsTuningAssumption DEF Init, TInit
  <2> QED BY <2>1, <2>2 DEF Read, Serves
<1>2. (Invariant /\ Stored) /\ Read /\ [Next]_vars => Read'
  BY ReadKept
<1>3. Read => AnswerOrdered
  BY DEF Read, Serves, AnswersInOrder, AnswerOrdered
<1> QED BY <1>1, <1>2, <1>3, StoredInvariant, PTL DEF Spec
=============================================================================
