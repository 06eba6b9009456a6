------------------------------- MODULE Tuning -------------------------------
(***************************************************************************)
(* A Tuning registry: writes, which go through one gate together with      *)
(* their callbacks, and reads, which do not.  Steps are single atomic      *)
(* loads and stores, what is done with the gate held is split where a      *)
(* reader can tell.                                                        *)
(*                                                                         *)
(* The gate is a mutex and the goroutine id of its owner, kept to refuse   *)
(* a write from inside a callback.  Ids are parsed from a stack trace; a   *)
(* goroutine whose id cannot be parsed has the id 0.                       *)
(***************************************************************************)
EXTENDS TuningTypes, FiniteSets, SequencesExt

CONSTANTS Vars,        \* the keys, in the order of Snapshot: a sequence
          Malformed,   \* keys validateKey refuses
          Config,      \* the registration of each key
          LevelKey,    \* the key LevelVar registers, while the others are in use
          Procs,       \* goroutines that write or read
          Anonymous,   \* those without a goroutine id
          Budget,      \* how many calls each makes
          None

Keys == ToSet(Vars)

ASSUME TuningAssumption ==
  /\ Anonymous \subseteq Procs /\ None \notin Procs
  /\ LevelKey \in Keys
  /\ \A k \in Keys :
       /\ Config[k].kind \in Kinds /\ ~ConfigRefused(Config[k])
       /\ Config[k].kind = "bool" => Config[k].def \in BOOLEAN
       /\ Config[k].callbacks \in Seq({"level", "panic", "write"})
       /\ (\E i \in DOMAIN Config[k].callbacks : Config[k].callbacks[i] = "level") <=> k = LevelKey

VARIABLES
  registered,                  \* t.vars
  cur, src, stamp,             \* current value, source and time (the number of writes) of each key
  hasLast, last,               \* what ResetToLastValue would restore
  held, owner,                 \* t.writeMu and t.writeOwner; None is also the id 0
  pc, call, val, at, res,      \* of each goroutine: step, call, value to write, callback, result
  todo, view,                  \* what a read has left to look at, and what it has seen
  calls,                       \* calls left to each goroutine
  level, binder                \* the slog.LevelVar bound to LevelKey, and progress of LevelVar

values == <<cur, src, stamp, hasLast, last>>
gate   == <<held, owner>>
locals == <<pc, call, val, at, res>>
reads  == <<todo, view>>
bound  == <<registered, level, binder>>
tvars  == <<values, gate, locals, reads, calls, bound>>

NoCall == [op |-> "none", key |-> "", arg |-> Bad]

TInit ==
  /\ registered = Keys \ {LevelKey}
  /\ cur = [k \in Keys |-> Default(Config[k])]
  /\ src = [k \in Keys |-> "default"]
  /\ stamp = [k \in Keys |-> 0]
  /\ hasLast = [k \in Keys |-> FALSE]
  /\ last = cur
  /\ held = None
  /\ owner = None
  /\ pc = [p \in Procs |-> "idle"]
  /\ call = [p \in Procs |-> NoCall]
  /\ val = [p \in Procs |-> Bad]
  /\ at = [p \in Procs |-> 0]
  /\ res = [p \in Procs |-> "none"]
  /\ todo = [p \in Procs |-> <<>>]
  /\ view = [p \in Procs |-> <<>>]
  /\ calls = Budget
  /\ level = cur[LevelKey]
  /\ binder = [at |-> "idle", read |-> Bad, stamp |-> 0]

Gid(p)    == IF p \in Anonymous THEN None ELSE p
Key(p)    == call[p].key
Conf(p)   == Config[Key(p)]

Moves(p, from, to) == pc[p] = from /\ pc' = [pc EXCEPT ![p] = to]

Returns(p, r) == pc' = [pc EXCEPT ![p] = "returned"] /\ res' = [res EXCEPT ![p] = r]

-----------------------------------------------------------------------------
(* Calls *)

\* A call by key goes through the registry, a call on a handle does not.
Reading == {"Snapshot", "ExportOverrides", "Lookup"}

FirstStep(op) == IF op = "Set" THEN "typed" ELSE IF op \in Reading THEN "looking" ELSE "called"

Begin(p, c) ==
  /\ pc' = [pc EXCEPT ![p] = FirstStep(c.op)]
  /\ call' = [call EXCEPT ![p] = c]
  /\ res' = [res EXCEPT ![p] = "none"]
  /\ UNCHANGED <<values, gate, val, at, reads, bound>>

\* Whoever holds a handle has it from a registration that has returned.
HandleExists(k) == k \in registered /\ (k = LevelKey => binder.at = "bound")

Call(p, c) ==
  /\ pc[p] = "idle" /\ calls[p] > 0
  /\ c.op = "Set" => HandleExists(c.key)
  /\ Begin(p, c)
  /\ calls' = [calls EXCEPT ![p] = @ - 1]

\* What was local to a call is gone with it.
Forgets(p) ==
  /\ pc' = [pc EXCEPT ![p] = "idle"]
  /\ call' = [call EXCEPT ![p] = NoCall]
  /\ val' = [val EXCEPT ![p] = Bad]
  /\ at' = [at EXCEPT ![p] = 0]
  /\ res' = [res EXCEPT ![p] = "none"]
  /\ view' = [view EXCEPT ![p] = <<>>]

Finish(p) ==
  /\ pc[p] = "returned"
  /\ Forgets(p)
  /\ UNCHANGED <<values, gate, todo, calls, bound>>

LookupError(k) ==
  IF k \in Malformed THEN "invalidKey" ELSE IF k \notin registered THEN "notFound" ELSE "none"

\* SetFromString, SetAny, ResetToDefault, ResetToLastValue: the key, and SetAny's type switch.
Resolve(p) ==
  /\ pc[p] = "called"
  /\ \/ LookupError(Key(p)) # "none" /\ Returns(p, LookupError(Key(p)))
     \/ /\ LookupError(Key(p)) = "none" /\ call[p].op = "SetAny" /\ call[p].arg.type # GoType(Conf(p))
        /\ Returns(p, "typeMismatch")
     \/ /\ LookupError(Key(p)) = "none"
        /\ call[p].op = "SetAny" => call[p].arg.type = GoType(Conf(p))
        /\ Moves(p, "called", "typed")
        /\ UNCHANGED res
  /\ UNCHANGED <<values, gate, call, val, at, reads, calls, bound>>

\* The value a Set method is called with: setFromString may find none in the text.
Candidate(p) ==
  CASE call[p].op = "SetFromString"  -> FromText(Conf(p), call[p].arg)
    [] call[p].op = "ResetToDefault" -> Default(Conf(p))
    [] OTHER                         -> call[p].arg.value

\* Set validates before it takes the gate.
Enter(p, valid, v) ==
  /\ IF valid THEN Moves(p, "typed", "locking") /\ val' = [val EXCEPT ![p] = v] /\ UNCHANGED res
     ELSE Returns(p, "invalidValue") /\ UNCHANGED val
  /\ UNCHANGED <<values, gate, call, at, reads, calls, bound>>

Sets(p, kind) == pc[p] = "typed" /\ call[p].op # "ResetToLastValue" /\ Conf(p).kind = kind

SetBool(p) == Sets(p, "bool") /\ Enter(p, Candidate(p) # Bad, Candidate(p))

\* Mutant: the bounds are not looked at.
SetInt64Unchecked(p) == Sets(p, "int64") /\ Enter(p, Candidate(p) # Bad, Candidate(p))

SetInt64(p) ==
  /\ Sets(p, "int64")
  /\ Enter(p, Candidate(p) # Bad /\ ValidInt64(Conf(p), Candidate(p)), Candidate(p))

SetDuration(p) ==
  /\ Sets(p, "duration")
  /\ Enter(p, Candidate(p) # Bad /\ ValidDuration(Conf(p), Candidate(p)), Candidate(p))

SetFloat64(p) ==
  /\ Sets(p, "float64")
  /\ Enter(p, Candidate(p) # Bad /\ ValidFloat64(Conf(p), Candidate(p)), Candidate(p))

SetString(p) == Sets(p, "string") /\ Enter(p, ValidString(Conf(p), Candidate(p)), Candidate(p))

\* The enum's default goes through the normalizer once more when it is reset.
SetEnum(p) ==
  /\ Sets(p, "enum")
  /\ LET v == EnumParse(Conf(p), Candidate(p)) IN Enter(p, v # Bad, v)

ResetLast(p) ==
  /\ call[p].op = "ResetToLastValue"
  /\ Moves(p, "typed", "locking")
  /\ UNCHANGED <<values, gate, call, val, at, res, reads, calls, bound>>

-----------------------------------------------------------------------------
(* The write gate *)

\* lockWrite: TryLock.
TryLock(p) ==
  /\ Moves(p, "locking", IF held = None THEN "locked" ELSE "checking")
  /\ held' = IF held = None THEN p ELSE held
  /\ UNCHANGED <<values, owner, call, val, at, res, reads, calls, bound>>

\* A goroutine takes itself for a callback's when it owns the gate, and when neither has an id.
TakenForReentrant(p) == owner = Gid(p)

CheckOwner(p) ==
  /\ pc[p] = "checking"
  /\ IF TakenForReentrant(p) THEN Returns(p, "reentrant")
     ELSE Moves(p, "checking", "blocked") /\ UNCHANGED res
  /\ UNCHANGED <<values, gate, call, val, at, reads, calls, bound>>

Lock(p) ==
  /\ held = None
  /\ Moves(p, "blocked", "locked")
  /\ held' = p
  /\ UNCHANGED <<values, owner, call, val, at, res, reads, calls, bound>>

StoreOwner(p) ==
  /\ Moves(p, "locked", "applying")
  /\ owner' = Gid(p)
  /\ UNCHANGED <<values, held, call, val, at, res, reads, calls, bound>>

\* Mutant: the mutex is released before the owner is cleared.
UnlockThenClear(p) ==
  /\ \/ Moves(p, "releasing", "unlocking") /\ held' = None /\ UNCHANGED <<owner, call>>
     \/ /\ Moves(p, "unlocking", "returned") /\ owner' = None /\ UNCHANGED <<held, call>>
  /\ UNCHANGED <<values, val, at, res, reads, calls, bound>>

\* unlockWrite clears the owner first.
Unlock(p) ==
  /\ \/ Moves(p, "releasing", "unlocking") /\ owner' = None /\ UNCHANGED <<held, call>>
     \/ Moves(p, "unlocking", "returned") /\ held' = None /\ UNCHANGED <<owner, call>>
  /\ UNCHANGED <<values, val, at, res, reads, calls, bound>>

-----------------------------------------------------------------------------
(* A write with the gate held *)

\* last and hasLast are only looked at with the gate held.
ApplySet(p) ==
  /\ Moves(p, "applying", "source")
  /\ call[p].op # "ResetToLastValue"
  /\ hasLast' = [hasLast EXCEPT ![Key(p)] = TRUE]
  /\ last' = [last EXCEPT ![Key(p)] = cur[Key(p)]]
  /\ cur' = [cur EXCEPT ![Key(p)] = val[p]]
  /\ UNCHANGED <<src, stamp, gate, call, val, at, res, reads, calls, bound>>

\* Mutant: the early return keeps the gate.
NothingToRestoreLocked(p) ==
  /\ call[p].op = "ResetToLastValue" /\ pc[p] = "applying" /\ ~hasLast[Key(p)]
  /\ Returns(p, "noLastValue")
  /\ UNCHANGED <<values, gate, call, val, at, reads, calls, bound>>

NothingToRestore(p) ==
  /\ pc[p] = "applying" /\ call[p].op = "ResetToLastValue" /\ ~hasLast[Key(p)]
  /\ Moves(p, "applying", "releasing")
  /\ res' = [res EXCEPT ![p] = "noLastValue"]
  /\ UNCHANGED <<values, gate, call, val, at, reads, calls, bound>>

\* The last value is used up before it is validated again.
ApplyLast(p) ==
  /\ pc[p] = "applying" /\ call[p].op = "ResetToLastValue" /\ hasLast[Key(p)]
  /\ hasLast' = [hasLast EXCEPT ![Key(p)] = FALSE]
  /\ IF StillValid(Conf(p), last[Key(p)])
     THEN /\ Moves(p, "applying", "source")
          /\ cur' = [cur EXCEPT ![Key(p)] = last[Key(p)]]
          /\ val' = [val EXCEPT ![p] = last[Key(p)]]
          /\ UNCHANGED res
     ELSE /\ Moves(p, "applying", "releasing")
          /\ res' = [res EXCEPT ![p] = "invalidValue"]
          /\ UNCHANGED <<cur, val>>
  /\ UNCHANGED <<src, stamp, last, gate, call, at, reads, calls, bound>>

\* Mutant: the source tells what was done and not what the value is.
StoreSourceHistory(p) ==
  /\ Moves(p, "source", "stamp")
  /\ src' = [src EXCEPT ![Key(p)] = IF call[p].op = "ResetToDefault" THEN "default" ELSE "runtime-set"]
  /\ UNCHANGED <<cur, stamp, hasLast, last, gate, call, val, at, res, reads, calls, bound>>

StoreSource(p) ==
  /\ Moves(p, "source", "stamp")
  /\ src' = [src EXCEPT ![Key(p)] = IF Overridden(Conf(p), val[p]) THEN "runtime-set" ELSE "default"]
  /\ UNCHANGED <<cur, stamp, hasLast, last, gate, call, val, at, res, reads, calls, bound>>

\* Mutant: an undo runs no callbacks.
StoreStampUndoSilent(p) ==
  /\ Moves(p, "stamp", IF call[p].op = "ResetToLastValue" THEN "releasing" ELSE "callbacks")
  /\ stamp' = [stamp EXCEPT ![Key(p)] = @ + 1]
  /\ at' = [at EXCEPT ![p] = 1]
  /\ res' = [res EXCEPT ![p] = IF call[p].op = "ResetToLastValue" THEN "ok" ELSE @]
  /\ UNCHANGED <<cur, src, hasLast, last, gate, call, val, reads, calls, bound>>

StoreStamp(p) ==
  /\ Moves(p, "stamp", "callbacks")
  /\ stamp' = [stamp EXCEPT ![Key(p)] = @ + 1]
  /\ at' = [at EXCEPT ![p] = 1]
  /\ UNCHANGED <<cur, src, hasLast, last, gate, call, val, res, reads, calls, bound>>

\* A callback of one kind is due: "level" sets the slog.LevelVar, "panic" is recovered from,
\* "write" calls a write API of the same registry.
Due(p, kind) ==
  /\ pc[p] = "callbacks" /\ at[p] <= Len(Conf(p).callbacks)
  /\ Conf(p).callbacks[at[p]] = kind

Callback(p) ==
  /\ Due(p, "level") \/ Due(p, "panic")
  /\ level' = IF Due(p, "level") THEN val[p] ELSE level
  /\ at' = [at EXCEPT ![p] = @ + 1]
  /\ UNCHANGED <<values, gate, pc, call, val, res, reads, calls, registered, binder>>

\* The write from a callback finds the gate held, by its own goroutine, and looks at the owner.
NestedWrite(p) ==
  /\ Due(p, "write")
  /\ IF TakenForReentrant(p) THEN at' = [at EXCEPT ![p] = @ + 1] /\ UNCHANGED pc
     ELSE Moves(p, "callbacks", "selfBlocked") /\ UNCHANGED at
  /\ UNCHANGED <<values, gate, call, val, res, reads, calls, bound>>

CallbacksOver(p) ==
  /\ Moves(p, "callbacks", "releasing")
  /\ at[p] > Len(Conf(p).callbacks)
  /\ res' = [res EXCEPT ![p] = "ok"]
  /\ UNCHANGED <<values, gate, call, val, at, reads, calls, bound>>

-----------------------------------------------------------------------------
(* Reads *)

Fields == <<"value", "source", "updatedAt">>

RegisteredInOrder == SelectSeq(Vars, LAMBDA k : k \in registered)

\* Lookup looks at one key, Snapshot and ExportOverrides at the keys registered when they start.
Look(p) ==
  /\ pc[p] = "looking"
  /\ IF call[p].op = "Lookup" /\ LookupError(Key(p)) # "none"
     THEN Returns(p, LookupError(Key(p))) /\ UNCHANGED <<todo, at>>
     ELSE /\ Moves(p, "looking", "reading")
          /\ todo' = [todo EXCEPT ![p] = IF call[p].op = "Lookup" THEN <<Key(p)>> ELSE RegisteredInOrder]
          /\ at' = [at EXCEPT ![p] = 1]
          /\ UNCHANGED res
  /\ UNCHANGED <<values, gate, call, val, view, calls, bound>>

SeenNow(k) ==
  [key |-> k, value |-> ViewOf(Config[k], cur[k]).value, source |-> src[k], updatedAt |-> stamp[k]]

NotSeen(k) == [key |-> k, value |-> Bad, source |-> "unseen", updatedAt |-> 0]

\* Value, source and time of a variable are loaded one after the other; nothing stops writes meanwhile.
ReadField(p) ==
  /\ pc[p] = "reading" /\ todo[p] # <<>> /\ call[p].op # "ExportOverrides"
  /\ LET k == Head(todo[p])
         f == Fields[at[p]]
         seen == IF at[p] = 1 THEN Append(view[p], NotSeen(k)) ELSE view[p]
     IN view' = [view EXCEPT ![p] = [seen EXCEPT ![Len(seen)][f] = SeenNow(k)[f]]]
  /\ todo' = [todo EXCEPT ![p] = IF at[p] = Len(Fields) THEN Tail(@) ELSE @]
  /\ at' = [at EXCEPT ![p] = IF at[p] = Len(Fields) THEN 1 ELSE @ + 1]
  /\ UNCHANGED <<values, gate, pc, call, val, res, calls, bound>>

\* ExportOverrides loads one value per variable and lists it when it is not the default.
ReadOverride(p) ==
  /\ pc[p] = "reading" /\ todo[p] # <<>> /\ call[p].op = "ExportOverrides"
  /\ LET k == Head(todo[p])
     IN view' = [view EXCEPT ![p] = IF ViewOf(Config[k], cur[k]).override
                                    THEN Append(@, [NotSeen(k) EXCEPT !.value = SeenNow(k).value]) ELSE @]
  /\ todo' = [todo EXCEPT ![p] = Tail(@)]
  /\ UNCHANGED <<values, gate, pc, call, val, at, res, calls, bound>>

ReadOver(p) ==
  /\ todo[p] = <<>>
  /\ Moves(p, "reading", "returned")
  /\ res' = [res EXCEPT ![p] = "ok"]
  /\ UNCHANGED <<values, gate, call, val, at, reads, calls, bound>>

-----------------------------------------------------------------------------
(* LevelVar: registers LevelKey with a callback that sets the level, then sets it once itself. *)

Register(k) ==
  /\ k \notin registered
  /\ registered' = registered \cup {k}

Binder(from, to) == binder.at = from /\ binder' = [binder EXCEPT !.at = to]

BindRegisters ==
  /\ Binder("idle", "registered")
  /\ Register(LevelKey)
  /\ UNCHANGED <<values, gate, locals, reads, calls, level>>

BindReads ==
  /\ binder.at = "registered"
  /\ binder' = [at |-> "read", read |-> cur[LevelKey], stamp |-> 0]
  /\ UNCHANGED <<values, gate, locals, reads, calls, registered, level>>

\* The stamp kept here is the number of writes that had been stored by then.
BindSyncs ==
  /\ binder.at = "read"
  /\ level' = binder.read
  /\ binder' = [binder EXCEPT !.at = "bound", !.stamp = stamp[LevelKey]]
  /\ UNCHANGED <<values, gate, locals, reads, calls, registered>>

-----------------------------------------------------------------------------
WriteStep(p) ==
  \/ Resolve(p) \/ ResetLast(p)
  \/ SetBool(p) \/ SetInt64(p) \/ SetDuration(p) \/ SetFloat64(p) \/ SetString(p) \/ SetEnum(p)
  \/ TryLock(p) \/ CheckOwner(p) \/ Lock(p) \/ StoreOwner(p) \/ Unlock(p)
  \/ ApplySet(p) \/ NothingToRestore(p) \/ ApplyLast(p) \/ StoreSource(p) \/ StoreStamp(p)
  \/ Callback(p) \/ NestedWrite(p) \/ CallbacksOver(p)

ReadStep(p) == Look(p) \/ ReadField(p) \/ ReadOverride(p) \/ ReadOver(p)

BindStep == BindRegisters \/ BindReads \/ BindSyncs

-----------------------------------------------------------------------------
(* Properties *)

\* A write from inside a callback (tuning/internal.go: lockWrite) is refused at once and never waits
\* for the gate its own goroutine holds, and a write from outside is only ever mistaken for one when
\* its goroutine has no id.
ReentrantDetected ==
  \A p \in Procs : pc[p] # "selfBlocked" /\ (res[p] = "reentrant" => p \in Anonymous)

\* Value, source and undo of a variable are stored one after the other and by several paths; whenever
\* no write is in progress the source tells whether the value differs from the default, as
\* ExportOverrides would (doc.go: "Source reflects the current effective state").
SettledView ==
  held = None => \A k \in Keys : src[k] = (IF Overridden(Config[k], cur[k]) THEN "runtime-set" ELSE "default")

\* Once a write made after LevelVar has returned is over, by whatever call, the slog level is the
\* value of the variable.  (A write that overlaps the registration may leave them apart: the final
\* sync of LevelVar reads the value and stores the level without the gate.)
LevelFollows ==
  held = None /\ binder.at = "bound" /\ stamp[LevelKey] > binder.stamp => level = cur[LevelKey]
=============================================================================
