------------------------- MODULE TaskContractProofs -------------------------
(***************************************************************************)
(* What a caller of TriggerAndWait gets, for every number of callers and   *)
(* of Shutdown calls, every concurrency limit and both overlap policies:   *)
(* one answer from one owner, a fresh one, and so TriggerContract.         *)
(***************************************************************************)
EXTENDS TaskRuntimeProofs

(***************************************************************************)
(* Places a waiter can be kept in, and how a step moves it.                *)
(***************************************************************************)

Run(r)       == <<"run", r>>
MergedBy(r)  == <<"merged", r>>
HeldBy(k)    == <<"shutdown", k>>
Pending      == <<"pending", 0>>

LEMMA Places ==
  ASSUME NEW c
  PROVE  /\ \A r : Run(r) \in Owners(c) <=> r \in DOMAIN runs /\ c \in runs[r].owed
         /\ \A r : MergedBy(r) \in Owners(c) <=> r \in DOMAIN runs /\ c \in runs[r].merged
         /\ \A k : HeldBy(k) \in Owners(c) <=> k \in Closers /\ c \in held[k]
         /\ Pending \in Owners(c) <=> c \in pendingWaiters
         /\ \A o \in Owners(c) : \/ \E r \in DOMAIN runs : o \in {Run(r), MergedBy(r)}
                                 \/ \E k \in Closers : o = HeldBy(k)
                                 \/ o = Pending
BY DEF Owners, Run, MergedBy, HeldBy, Pending

LEMMA PlacesNext ==
  ASSUME NEW c
  PROVE  /\ \A r : Run(r) \in Owners(c)' <=> r \in DOMAIN runs' /\ c \in runs'[r].owed
         /\ \A r : MergedBy(r) \in Owners(c)' <=> r \in DOMAIN runs' /\ c \in runs'[r].merged
         /\ \A k : HeldBy(k) \in Owners(c)' <=> k \in Closers /\ c \in held'[k]
         /\ Pending \in Owners(c)' <=> c \in pendingWaiters'
         /\ \A o \in Owners(c)' : \/ \E r \in DOMAIN runs' : o \in {Run(r), MergedBy(r)}
                                  \/ \E k \in Closers : o = HeldBy(k)
                                  \/ o = Pending
BY DEF Owners, Run, MergedBy, HeldBy, Pending

LEMMA PlacesDiffer ==
  /\ \A r, s : Run(r) = Run(s) => r = s
  /\ \A r, s : MergedBy(r) = MergedBy(s) => r = s
  /\ \A k, l : HeldBy(k) = HeldBy(l) => k = l
  /\ \A r, s : Run(r) # MergedBy(s) /\ Run(r) # HeldBy(s) /\ MergedBy(r) # HeldBy(s)
  /\ \A r : Run(r) # Pending /\ MergedBy(r) # Pending /\ HeldBy(r) # Pending
BY DEF Run, MergedBy, HeldBy, Pending

IsPlace(o) == \/ \E r : o = Run(r) \/ o = MergedBy(r)
              \/ \E k : o = HeldBy(k)
              \/ o = Pending

\* Two sets of places are equal if they agree kind by kind.
LEMMA PlaceByPlace ==
  ASSUME NEW c, NEW S, \A o \in S : IsPlace(o),
         \A r : Run(r) \in Owners(c)' <=> Run(r) \in S,
         \A r : MergedBy(r) \in Owners(c)' <=> MergedBy(r) \in S,
         \A k : HeldBy(k) \in Owners(c)' <=> HeldBy(k) \in S,
         Pending \in Owners(c)' <=> Pending \in S
  PROVE  Owners(c)' = S
<1>1. ASSUME NEW o \in Owners(c)'
      PROVE  o \in S
  BY <1>1, PlacesNext
<1>2. ASSUME NEW o \in S
      PROVE  o \in Owners(c)'
  BY <1>2 DEF IsPlace
<1>3. QED
  BY <1>1, <1>2

LEMMA OwnersArePlaces ==
  ASSUME NEW c
  PROVE  \A o \in Owners(c) : IsPlace(o)
BY Places DEF IsPlace

\* What a step does to the places of every waiter: nothing; what is kept in p moves to q; what is
\* kept in p leaves it.
KeepsOwners == \A c \in Calls : Owners(c)' = Owners(c)
Moves(p, q) ==
  \A c \in Calls : Owners(c)' = IF p \in Owners(c) THEN (Owners(c) \ {p}) \cup {q} ELSE Owners(c)
Clears(p)   == \A c \in Calls : Owners(c)' = Owners(c) \ {p}

LEMMA KeepsOwnersWhenKept ==
  ASSUME UNCHANGED <<runs, held, pendingWaiters>>
  PROVE  KeepsOwners
BY DEF KeepsOwners, Owners

\* Runs whose waiters stay as they are keep them, whatever else changes in them.
LEMMA KeepsOwnersWhenRunsAgree ==
  ASSUME DOMAIN runs' = DOMAIN runs, UNCHANGED <<held, pendingWaiters>>,
         \A r \in DOMAIN runs : runs'[r].owed = runs[r].owed /\ runs'[r].merged = runs[r].merged
  PROVE  KeepsOwners
<1> SUFFICES ASSUME NEW c \in Calls PROVE Owners(c)' = Owners(c)
  BY DEF KeepsOwners
<1>1. QED
  BY Places, PlacesNext, PlaceByPlace, OwnersArePlaces

\* A finished run takes the pending waiters over.
LEMMA TakeOverMoves ==
  ASSUME NEW r \in DOMAIN runs, DOMAIN runs' = DOMAIN runs, UNCHANGED held,
         \A i \in DOMAIN runs \ {r} : runs'[i] = runs[i],
         runs'[r].owed = runs[r].owed, runs[r].merged = {},
         runs'[r].merged = pendingWaiters, pendingWaiters' = {}
  PROVE  Moves(Pending, MergedBy(r))
<1> SUFFICES ASSUME NEW c \in Calls
             PROVE  Owners(c)' = IF Pending \in Owners(c)
                                 THEN (Owners(c) \ {Pending}) \cup {MergedBy(r)} ELSE Owners(c)
  BY DEF Moves
<1> DEFINE S == IF Pending \in Owners(c)
                THEN (Owners(c) \ {Pending}) \cup {MergedBy(r)} ELSE Owners(c)
<1>1. \A o \in S : IsPlace(o)
  BY OwnersArePlaces DEF IsPlace
<1>2. \A s : Run(s) \in Owners(c)' <=> Run(s) \in S
  BY Places, PlacesNext, PlacesDiffer
<1>3. \A s : MergedBy(s) \in Owners(c)' <=> MergedBy(s) \in S
  BY Places, PlacesNext, PlacesDiffer
<1>4. \A k : HeldBy(k) \in Owners(c)' <=> HeldBy(k) \in S
  BY Places, PlacesNext, PlacesDiffer
<1>5. Pending \in Owners(c)' <=> Pending \in S
  BY Places, PlacesNext, PlacesDiffer
<1> HIDE DEF S
<1>6. Owners(c)' = S
  BY <1>1, <1>2, <1>3, <1>4, <1>5, PlaceByPlace
<1>7. QED
  BY <1>6 DEF S

\* A handover that finds no slot puts its waiters back with the pending run's.
LEMMA MergeBackMoves ==
  ASSUME NEW r \in DOMAIN runs, DOMAIN runs' = DOMAIN runs, UNCHANGED held,
         \A i \in DOMAIN runs \ {r} : runs'[i] = runs[i],
         runs'[r].owed = runs[r].owed, runs'[r].merged = {},
         pendingWaiters' = pendingWaiters \cup runs[r].merged
  PROVE  Moves(MergedBy(r), Pending)
<1> SUFFICES ASSUME NEW c \in Calls
             PROVE  Owners(c)' = IF MergedBy(r) \in Owners(c) THEN (Owners(c) \ {MergedBy(r)}) \cup {Pending} ELSE Owners(c)
  BY DEF Moves
<1> DEFINE S == IF MergedBy(r) \in Owners(c) THEN (Owners(c) \ {MergedBy(r)}) \cup {Pending} ELSE Owners(c)
<1>1. \A o \in S : IsPlace(o)
  BY OwnersArePlaces DEF IsPlace
<1>2. \A s : Run(s) \in Owners(c)' <=> Run(s) \in S
  BY Places, PlacesNext, PlacesDiffer
<1>3. \A s : MergedBy(s) \in Owners(c)' <=> MergedBy(s) \in S
  BY Places, PlacesNext, PlacesDiffer
<1>4. \A k : HeldBy(k) \in Owners(c)' <=> HeldBy(k) \in S
  BY Places, PlacesNext, PlacesDiffer
<1>5. Pending \in Owners(c)' <=> Pending \in S
  BY Places, PlacesNext, PlacesDiffer
<1> HIDE DEF S
<1>6. Owners(c)' = S
  BY <1>1, <1>2, <1>3, <1>4, <1>5, PlaceByPlace
<1>7. QED
  BY <1>6 DEF S

\* The merged run that a handover starts owes its waiters their result.
LEMMA MergedStartMoves ==
  ASSUME NEW n \in Nat, DOMAIN runs = 1..n, DOMAIN runs' = 1..(n + 1), NEW r \in DOMAIN runs,
         UNCHANGED <<held, pendingWaiters>>,
         \A i \in DOMAIN runs \ {r} : runs'[i] = runs[i],
         runs'[r].owed = runs[r].owed, runs'[r].merged = {},
         runs'[n + 1].owed = runs[r].merged, runs'[n + 1].merged = {}
  PROVE  Moves(MergedBy(r), Run(n + 1))
<1> SUFFICES ASSUME NEW c \in Calls
             PROVE  Owners(c)' = IF MergedBy(r) \in Owners(c) THEN (Owners(c) \ {MergedBy(r)}) \cup {Run(n + 1)} ELSE Owners(c)
  BY DEF Moves
<1> DEFINE S == IF MergedBy(r) \in Owners(c) THEN (Owners(c) \ {MergedBy(r)}) \cup {Run(n + 1)} ELSE Owners(c)
<1>1. \A o \in S : IsPlace(o)
  BY OwnersArePlaces DEF IsPlace
<1>2. \A s : Run(s) \in Owners(c)' <=> Run(s) \in S
  BY Places, PlacesNext, PlacesDiffer
<1>3. \A s : MergedBy(s) \in Owners(c)' <=> MergedBy(s) \in S
  BY Places, PlacesNext, PlacesDiffer
<1>4. \A k : HeldBy(k) \in Owners(c)' <=> HeldBy(k) \in S
  BY Places, PlacesNext, PlacesDiffer
<1>5. Pending \in Owners(c)' <=> Pending \in S
  BY Places, PlacesNext, PlacesDiffer
<1> HIDE DEF S
<1>6. Owners(c)' = S
  BY <1>1, <1>2, <1>3, <1>4, <1>5, PlaceByPlace
<1>7. QED
  BY <1>6 DEF S

\* A Shutdown takes the pending waiters along.
LEMMA DrainMoves ==
  ASSUME NEW k \in Closers, UNCHANGED runs, pendingWaiters' = {}, held[k] = {}, DOMAIN held = Closers,
         held' = [held EXCEPT ![k] = pendingWaiters]
  PROVE  Moves(Pending, HeldBy(k))
<1> SUFFICES ASSUME NEW c \in Calls
             PROVE  Owners(c)' = IF Pending \in Owners(c) THEN (Owners(c) \ {Pending}) \cup {HeldBy(k)} ELSE Owners(c)
  BY DEF Moves
<1> DEFINE S == IF Pending \in Owners(c) THEN (Owners(c) \ {Pending}) \cup {HeldBy(k)} ELSE Owners(c)
<1>1. \A o \in S : IsPlace(o)
  BY OwnersArePlaces DEF IsPlace
<1>2. \A s : Run(s) \in Owners(c)' <=> Run(s) \in S
  BY Places, PlacesNext, PlacesDiffer
<1>3. \A s : MergedBy(s) \in Owners(c)' <=> MergedBy(s) \in S
  BY Places, PlacesNext, PlacesDiffer
<1>4. \A l : HeldBy(l) \in Owners(c)' <=> HeldBy(l) \in S
  BY Places, PlacesNext, PlacesDiffer
<1>5. Pending \in Owners(c)' <=> Pending \in S
  BY Places, PlacesNext, PlacesDiffer
<1> HIDE DEF S
<1>6. Owners(c)' = S
  BY <1>1, <1>2, <1>3, <1>4, <1>5, PlaceByPlace
<1>7. QED
  BY <1>6 DEF S

\* Results, refusals and drained waiters leave their place.
LEMMA DeliverClears ==
  ASSUME NEW r \in DOMAIN runs, DOMAIN runs' = DOMAIN runs, UNCHANGED <<held, pendingWaiters>>,
         \A i \in DOMAIN runs \ {r} : runs'[i] = runs[i],
         runs'[r].owed = {}, runs'[r].merged = runs[r].merged
  PROVE  Clears(Run(r))
<1> SUFFICES ASSUME NEW c \in Calls
             PROVE  Owners(c)' = Owners(c) \ {Run(r)}
  BY DEF Clears
<1> DEFINE S == Owners(c) \ {Run(r)}
<1>1. \A o \in S : IsPlace(o)
  BY OwnersArePlaces DEF IsPlace
<1>2. \A s : Run(s) \in Owners(c)' <=> Run(s) \in S
  BY Places, PlacesNext, PlacesDiffer
<1>3. \A s : MergedBy(s) \in Owners(c)' <=> MergedBy(s) \in S
  BY Places, PlacesNext, PlacesDiffer
<1>4. \A k : HeldBy(k) \in Owners(c)' <=> HeldBy(k) \in S
  BY Places, PlacesNext, PlacesDiffer
<1>5. Pending \in Owners(c)' <=> Pending \in S
  BY Places, PlacesNext, PlacesDiffer
<1> HIDE DEF S
<1>6. Owners(c)' = S
  BY <1>1, <1>2, <1>3, <1>4, <1>5, PlaceByPlace
<1>7. QED
  BY <1>6 DEF S

\* The same for a handover the manager has overtaken, ...
LEMMA RefusalClears ==
  ASSUME NEW r \in DOMAIN runs, DOMAIN runs' = DOMAIN runs, UNCHANGED <<held, pendingWaiters>>,
         \A i \in DOMAIN runs \ {r} : runs'[i] = runs[i],
         runs'[r].owed = runs[r].owed, runs'[r].merged = {}
  PROVE  Clears(MergedBy(r))
<1> SUFFICES ASSUME NEW c \in Calls
             PROVE  Owners(c)' = Owners(c) \ {MergedBy(r)}
  BY DEF Clears
<1> DEFINE S == Owners(c) \ {MergedBy(r)}
<1>1. \A o \in S : IsPlace(o)
  BY OwnersArePlaces DEF IsPlace
<1>2. \A s : Run(s) \in Owners(c)' <=> Run(s) \in S
  BY Places, PlacesNext, PlacesDiffer
<1>3. \A s : MergedBy(s) \in Owners(c)' <=> MergedBy(s) \in S
  BY Places, PlacesNext, PlacesDiffer
<1>4. \A k : HeldBy(k) \in Owners(c)' <=> HeldBy(k) \in S
  BY Places, PlacesNext, PlacesDiffer
<1>5. Pending \in Owners(c)' <=> Pending \in S
  BY Places, PlacesNext, PlacesDiffer
<1> HIDE DEF S
<1>6. Owners(c)' = S
  BY <1>1, <1>2, <1>3, <1>4, <1>5, PlaceByPlace
<1>7. QED
  BY <1>6 DEF S

\* ... and for what a Shutdown has drained.
LEMMA AnswerClears ==
  ASSUME NEW k \in Closers, UNCHANGED <<runs, pendingWaiters>>, DOMAIN held = Closers,
         held' = [held EXCEPT ![k] = {}]
  PROVE  Clears(HeldBy(k))
<1> SUFFICES ASSUME NEW c \in Calls
             PROVE  Owners(c)' = Owners(c) \ {HeldBy(k)}
  BY DEF Clears
<1> DEFINE S == Owners(c) \ {HeldBy(k)}
<1>1. \A o \in S : IsPlace(o)
  BY OwnersArePlaces DEF IsPlace
<1>2. \A s : Run(s) \in Owners(c)' <=> Run(s) \in S
  BY Places, PlacesNext, PlacesDiffer
<1>3. \A s : MergedBy(s) \in Owners(c)' <=> MergedBy(s) \in S
  BY Places, PlacesNext, PlacesDiffer
<1>4. \A l : HeldBy(l) \in Owners(c)' <=> HeldBy(l) \in S
  BY Places, PlacesNext, PlacesDiffer
<1>5. Pending \in Owners(c)' <=> Pending \in S
  BY Places, PlacesNext, PlacesDiffer
<1> HIDE DEF S
<1>6. Owners(c)' = S
  BY <1>1, <1>2, <1>3, <1>4, <1>5, PlaceByPlace
<1>7. QED
  BY <1>6 DEF S

Joins(W, q) == \A c \in Calls : Owners(c)' = IF c \in W THEN Owners(c) \cup {q} ELSE Owners(c)

\* An accepted request joins the run it starts ...
LEMMA StartJoins ==
  ASSUME NEW W, NEW n \in Nat, DOMAIN runs = 1..n, DOMAIN runs' = 1..(n + 1),
         UNCHANGED <<held, pendingWaiters>>, \A i \in DOMAIN runs : runs'[i] = runs[i],
         runs'[n + 1].owed = W, runs'[n + 1].merged = {}
  PROVE  Joins(W, Run(n + 1))
<1> SUFFICES ASSUME NEW c \in Calls
             PROVE  Owners(c)' = IF c \in W THEN Owners(c) \cup {Run(n + 1)} ELSE Owners(c)
  BY DEF Joins
<1> DEFINE S == IF c \in W THEN Owners(c) \cup {Run(n + 1)} ELSE Owners(c)
<1>1. \A o \in S : IsPlace(o)
  BY OwnersArePlaces DEF IsPlace
<1>2. \A s : Run(s) \in Owners(c)' <=> Run(s) \in S
  BY Places, PlacesNext, PlacesDiffer
<1>3. \A s : MergedBy(s) \in Owners(c)' <=> MergedBy(s) \in S
  BY Places, PlacesNext, PlacesDiffer
<1>4. \A k : HeldBy(k) \in Owners(c)' <=> HeldBy(k) \in S
  BY Places, PlacesNext, PlacesDiffer
<1>5. Pending \in Owners(c)' <=> Pending \in S
  BY Places, PlacesNext, PlacesDiffer
<1> HIDE DEF S
<1>6. Owners(c)' = S
  BY <1>1, <1>2, <1>3, <1>4, <1>5, PlaceByPlace
<1>7. QED
  BY <1>6 DEF S

\* ... or the pending one.
LEMMA PendJoins ==
  ASSUME NEW W, UNCHANGED <<runs, held>>, pendingWaiters' = pendingWaiters \cup W
  PROVE  Joins(W, Pending)
<1> SUFFICES ASSUME NEW c \in Calls
             PROVE  Owners(c)' = IF c \in W THEN Owners(c) \cup {Pending} ELSE Owners(c)
  BY DEF Joins
<1> DEFINE S == IF c \in W THEN Owners(c) \cup {Pending} ELSE Owners(c)
<1>1. \A o \in S : IsPlace(o)
  BY OwnersArePlaces DEF IsPlace
<1>2. \A s : Run(s) \in Owners(c)' <=> Run(s) \in S
  BY Places, PlacesNext, PlacesDiffer
<1>3. \A s : MergedBy(s) \in Owners(c)' <=> MergedBy(s) \in S
  BY Places, PlacesNext, PlacesDiffer
<1>4. \A k : HeldBy(k) \in Owners(c)' <=> HeldBy(k) \in S
  BY Places, PlacesNext, PlacesDiffer
<1>5. Pending \in Owners(c)' <=> Pending \in S
  BY Places, PlacesNext, PlacesDiffer
<1> HIDE DEF S
<1>6. Owners(c)' = S
  BY <1>1, <1>2, <1>3, <1>4, <1>5, PlaceByPlace
<1>7. QED
  BY <1>6 DEF S

(***************************************************************************)
(* What every run and every Shutdown keeps of its waiters, stage by stage. *)
(***************************************************************************)

\* A run has no outcome and takes nobody over before its function has returned; once it has
\* delivered it owes no result, and once it has exited nobody waits for it any more.
WellFormed(x) ==
  /\ x.phase = "fn" <=> x.outcome = "none"
  /\ x.phase = "fn" => ~x.takes
  /\ ~x.takes \/ x.phase = "exited" => x.merged = {}
  /\ x.phase \in {"handover", "exited"} => x.owed = {}

RunsWellFormed == \A r \in DOMAIN runs : WellFormed(runs[r])

\* A Shutdown keeps waiters only between draining the task and answering them.
HeldBetween == \A k \in Closers : held[k] # {} => closer[k] \in {"cancelling", "returning"}

LEMMA OneRunWellFormed ==
  ASSUME RunsWellFormed, NEW r \in DOMAIN runs, SameRuns({r}), WellFormed(runs'[r])
  PROVE  RunsWellFormed'
BY DEF RunsWellFormed, SameRuns, WellFormed

LEMMA NewRunWellFormed ==
  ASSUME NEW W
  PROVE  WellFormed(NewRun(W))
BY DEF WellFormed, NewRun

LEMMA RequestWellFormed ==
  ASSUME TypeOK, RunsWellFormed, NEW W \in SUBSET Calls, StartOrPend(W)
  PROVE  RunsWellFormed'
<1>a. Len(runs) \in Nat /\ DOMAIN runs = 1..Len(runs)
  BY RunsAreASequence DEF TypeOK
<1>1. CASE StartRun(runs, W)
  <2>1. /\ DOMAIN runs' = 1..(Len(runs) + 1)
        /\ runs'[Len(runs) + 1] = NewRun(W)
        /\ \A i \in DOMAIN runs : runs'[i] = runs[i]
    BY <1>1, StartEffect
  <2>2. \A i \in DOMAIN runs' : i \in DOMAIN runs \/ i = Len(runs) + 1
    BY <1>a, <2>1
  <2>3. QED
    BY <2>1, <2>2, NewRunWellFormed DEF RunsWellFormed
<1>2. CASE UNCHANGED runs
  BY <1>2 DEF RunsWellFormed
<1>3. QED
  BY <1>1, <1>2 DEF StartOrPend

LEMMA WellFormedNext == TypeOK /\ RunsWellFormed /\ [Next]_vars => RunsWellFormed'
<1> SUFFICES ASSUME TypeOK, RunsWellFormed, [Next]_vars PROVE RunsWellFormed'
  OBVIOUS
<1>a. Len(runs) \in Nat /\ DOMAIN runs = 1..Len(runs)
  BY RunsAreASequence DEF TypeOK
<1>1. CASE UNCHANGED runs
  BY <1>1 DEF RunsWellFormed
<1>2. CASE Fire \/ \E c \in Calls : AskAndWait(c)
  <2>1. PICK W \in SUBSET Calls : StartOrPend(W)
    BY <1>2 DEF Fire, AskAndWait
  <2>2. QED
    BY <2>1, RequestWellFormed
<1>3. ASSUME NEW r \in DOMAIN runs, RunStep(r)
      PROVE  RunsWellFormed'
  <2>a. WellFormed(runs[r])
    BY DEF RunsWellFormed
  <2>1. ASSUME NEW o \in Outcomes, FinishRun(r, o)
        PROVE  RunsWellFormed'
    <3>1. o # "none"
      BY ParamsAssumption DEF AllOutcomes
    <3>2. /\ SameRuns({r}) /\ runs'[r].phase = "locked" /\ runs'[r].outcome = o
          /\ runs'[r].takes = TakesOver
          /\ runs'[r].merged = IF TakesOver THEN pendingWaiters ELSE {}
      BY <2>1, FinishEffect
    <3>3. WellFormed(runs'[r])
      BY <3>1, <3>2 DEF WellFormed
    <3>4. QED
      BY <3>2, <3>3, OneRunWellFormed
  <2>2. CASE SettleState(r)
    <3>1. runs[r].phase = "locked"
      BY <2>2 DEF SettleState
    <3>2. WellFormed(runs'[r])
      BY <2>2, <2>a, <3>1, SettleEffect DEF WellFormed
    <3>3. QED
      BY <2>2, <3>2, SettleEffect, OneRunWellFormed
  <2>3. CASE DeliverResults(r)
    <3>1. runs[r].phase = "finished"
      BY <2>3 DEF DeliverResults
    <3>2. WellFormed(runs'[r])
      BY <2>3, <2>a, <3>1, DeliverEffect DEF WellFormed
    <3>3. QED
      BY <2>3, <3>2, DeliverEffect, OneRunWellFormed
  <2>4. CASE StartMerged(r)
    <3>a. runs[r].phase = "handover"
      BY <2>4 DEF StartMerged
    <3>1. CASE MergedClosed(r) \/ MergedBack(r)
      <4>1. runs' = ExitRun(r)
        BY <3>1 DEF MergedClosed, MergedBack
      <4>2. WellFormed(runs'[r])
        BY <4>1, <3>a, <2>a, ExitEffect DEF WellFormed
      <4>3. QED
        BY <4>1, <4>2, ExitEffect, OneRunWellFormed
    <3>2. CASE MergedStart(r)
      <4>1. /\ DOMAIN runs' = 1..(Len(runs) + 1)
            /\ runs'[Len(runs) + 1] = NewRun(runs[r].merged)
            /\ \A i \in DOMAIN runs \ {r} : runs'[i] = runs[i]
            /\ runs'[r].phase = "exited"
            /\ runs'[r].outcome = runs[r].outcome
            /\ runs'[r].owed = runs[r].owed
            /\ runs'[r].merged = {}
        BY <3>2, MergedStartEffect
      <4>2. WellFormed(runs'[r])
        BY <4>1, <3>a, <2>a DEF WellFormed
      <4>3. \A i \in DOMAIN runs' : i \in DOMAIN runs \ {r} \/ i = r \/ i = Len(runs) + 1
        BY <1>a, <4>1
      <4>4. QED
        BY <4>1, <4>2, <4>3, NewRunWellFormed DEF RunsWellFormed
    <3>3. QED
      BY <2>4, <3>1, <3>2 DEF StartMerged
  <2>5. QED
    BY <1>3, <2>1, <2>2, <2>3, <2>4 DEF RunStep
<1>4. QED
  BY <1>1, <1>2, <1>3 DEF Next, MgrStart, Activate, CallStep, AskInVain, Receive, Abandon,
     CloserStep, ShutdownBegin, DrainTask, AnswerDrained, ShutdownDone, ShutdownTimeout, vars

LEMMA HeldNext == TypeOK /\ HeldBetween /\ [Next]_vars => HeldBetween'
<1> SUFFICES ASSUME TypeOK, HeldBetween, [Next]_vars PROVE HeldBetween'
  OBVIOUS
<1>a. /\ DOMAIN closer = Closers
      /\ held \in [Closers -> SUBSET Calls]
  BY DEF TypeOK
<1>1. CASE UNCHANGED <<closer, held>>
  BY <1>1 DEF HeldBetween
<1>2. ASSUME NEW k \in Closers, CloserStep(k)
      PROVE  HeldBetween'
  <2>1. CASE ShutdownBegin(k)
    BY <2>1, <1>a DEF ShutdownBegin, HeldBetween
  <2>2. CASE DrainTask(k)
    BY <2>2, <1>a DEF DrainTask, HeldBetween
  <2>3. CASE AnswerDrained(k)
    BY <2>3, <1>a DEF AnswerDrained, HeldBetween
  <2>4. CASE ShutdownDone(k) \/ ShutdownTimeout(k)
    BY <2>4, <1>a DEF ShutdownDone, ShutdownTimeout, HeldBetween
  <2>5. QED
    BY <1>2, <2>1, <2>2, <2>3, <2>4 DEF CloserStep
<1>3. CASE MgrStart \/ Activate \/ Fire
  BY <1>3, <1>1 DEF MgrStart, Activate, Fire, StartOrPend
<1>4. ASSUME NEW c \in Calls, CallStep(c)
      PROVE  UNCHANGED <<closer, held>>
  BY <1>4 DEF CallStep, AskAndWait, StartOrPend, AskInVain, Receive, Abandon
<1>5. ASSUME NEW r \in DOMAIN runs, RunStep(r)
      PROVE  UNCHANGED <<closer, held>>
  BY <1>5 DEF RunStep, FinishRun, SettleState, DeliverResults, StartMerged
<1>6. QED
  BY <1>1, <1>2, <1>3, <1>4, <1>5 DEF Next, vars

(***************************************************************************)
(* What a step does to the callers: it moves waiters between their places, *)
(* answers those of one place, accepts a call, or ends one.                *)
(***************************************************************************)

Rearranges ==
  /\ UNCHANGED client
  /\ \/ KeepsOwners
     \/ \E p, q : Moves(p, q) /\ \A r : q = Run(r) => r = Len(runs) + 1

\* Only a Shutdown makes the answer ErrClosed; any other is the result of the run that owed it.
Answers(p, res) ==
  /\ Clears(p)
  /\ Send({c \in Calls : p \in Owners(c)}, res)
  /\ UNCHANGED <<call, since>>
  /\ \/ res = Closed /\ mgr \in {"Stopping", "Stopped"}
     \/ \E r \in DOMAIN runs : p = Run(r) /\ res = Result(r) /\ runs[r].outcome # "none"

Accepts(c) ==
  /\ call[c] = "idle"
  /\ call' = [call EXCEPT ![c] = "waiting"]
  /\ since' = [since EXCEPT ![c] = runCount]
  /\ \E q : Joins({c}, q) /\ \A r : q = Run(r) => r = Len(runs) + 1
  /\ UNCHANGED answer

Ends(c) ==
  /\ call' = [call EXCEPT ![c] = "returned"]
  /\ \A d \in Calls \ {c} : Owners(d)' = Owners(d) /\ answer'[d] = answer[d]
  /\ Owners(c)' \subseteq Owners(c)
  /\ answer'[c] # answer[c] =>
       answer'[c].run = 0 /\ (answer'[c].kind = "ErrClosed" => mgr \in {"Stopping", "Stopped"})
  /\ UNCHANGED since

LEMMA SendSame ==
  ASSUME NEW S, NEW T, NEW res, \A c \in Calls : c \in S <=> c \in T, Send(S, res)
  PROVE  Send(T, res)
BY DEF Send

LEMMA RequestJoins ==
  ASSUME TypeOK, NEW W \in SUBSET Calls, StartOrPend(W)
  PROVE  \E q : Joins(W, q) /\ \A r : q = Run(r) => r = Len(runs) + 1
<1>a. Len(runs) \in Nat /\ DOMAIN runs = 1..Len(runs)
  BY RunsAreASequence DEF TypeOK
<1>1. CASE StartRun(runs, W) /\ UNCHANGED <<pending, pendingWaiters>>
  <2>1. NewRun(W).owed = W /\ NewRun(W).merged = {}
    BY DEF NewRun
  <2>2. UNCHANGED <<held, pendingWaiters>>
    BY <1>1 DEF StartOrPend
  <2>3. Joins(W, Run(Len(runs) + 1))
    BY <1>a, <1>1, <2>1, <2>2, StartEffect, StartJoins
  <2>4. QED
    BY <2>3, PlacesDiffer
<1>2. CASE MergePending(W) /\ UNCHANGED <<state, running, runs>>
  <2>1. Joins(W, Pending)
    BY <1>2, PendJoins DEF StartOrPend, MergePending
  <2>2. QED
    BY <2>1, PlacesDiffer
<1>3. QED
  BY <1>1, <1>2 DEF StartOrPend

\* Where a run may end or be merged the manager has been started, so that one that is not running
\* any more has been shut down.
LEMMA RefusedByShutdown ==
  ASSUME Base, NEW r \in DOMAIN runs, MergedClosed(r)
  PROVE  mgr \in {"Stopping", "Stopped"}
<1>1. Len(runs) # 0
  BY RunsAreASequence DEF Base, TypeOK
<1>2. state # "NotStarted" /\ mgr # "NotStarted"
  BY <1>1 DEF Base, Lifecycle
<1>3. QED
  BY <1>2 DEF MergedClosed, Gate, Base, TypeOK, Lifecycle

LEMMA RunOnCallers ==
  ASSUME Base, RunsWellFormed, NEW r \in DOMAIN runs, RunStep(r)
  PROVE  Rearranges \/ \E p, res : Answers(p, res)
<1>a. Len(runs) \in Nat /\ DOMAIN runs = 1..Len(runs) /\ TypeOK
  BY RunsAreASequence DEF Base, TypeOK
<1>b. WellFormed(runs[r])
  BY DEF RunsWellFormed
<1>1. ASSUME NEW o \in Outcomes, FinishRun(r, o)
      PROVE  Rearranges
  <2>1. /\ runs[r].merged = {}
        /\ UNCHANGED <<client, held>>
    BY <1>b, <1>1 DEF FinishRun, WellFormed
  <2>2. /\ SameRuns({r}) /\ runs'[r].owed = runs[r].owed
        /\ runs'[r].merged = IF TakesOver THEN pendingWaiters ELSE {}
    BY <1>a, <1>1, FinishEffect
  <2>3. CASE TakesOver
    <3>1. pendingWaiters' = {}
      BY <1>1, <2>3 DEF FinishRun
    <3>2. Moves(Pending, MergedBy(r))
      BY <2>1, <2>2, <2>3, <3>1, TakeOverMoves DEF SameRuns
    <3>3. \A s : MergedBy(r) = Run(s) => s = Len(runs) + 1
      BY PlacesDiffer
    <3>4. QED
      BY <2>1, <3>2, <3>3 DEF Rearranges
  <2>4. CASE ~TakesOver
    <3>1. pendingWaiters' = pendingWaiters
      BY <1>1, <2>4 DEF FinishRun
    <3>2. KeepsOwners
      BY <2>1, <2>2, <2>4, <3>1, KeepsOwnersWhenRunsAgree DEF SameRuns
    <3>3. QED
      BY <2>1, <3>2 DEF Rearranges
  <2>5. QED
    BY <2>3, <2>4
<1>2. CASE SettleState(r)
  <2>1. UNCHANGED <<client, held, pendingWaiters>>
    BY <1>2 DEF SettleState
  <2>2. SameRuns({r}) /\ runs'[r].owed = runs[r].owed /\ runs'[r].merged = runs[r].merged
    BY <1>a, <1>2, SettleEffect
  <2>3. KeepsOwners
    BY <2>1, <2>2, KeepsOwnersWhenRunsAgree DEF SameRuns
  <2>4. QED
    BY <2>1, <2>3 DEF Rearranges
<1>3. CASE DeliverResults(r)
  <2>1. /\ UNCHANGED <<call, since, held, pendingWaiters>>
        /\ Send(runs[r].owed, Result(r))
        /\ runs[r].phase = "finished"
    BY <1>3 DEF DeliverResults, task
  <2>2. SameRuns({r}) /\ runs'[r].owed = {} /\ runs'[r].merged = runs[r].merged
    BY <1>a, <1>3, DeliverEffect
  <2>3. Clears(Run(r))
    BY <2>1, <2>2, DeliverClears DEF SameRuns
  <2>4. Send({c \in Calls : Run(r) \in Owners(c)}, Result(r))
    <3>1. \A c \in Calls : c \in runs[r].owed <=> c \in {d \in Calls : Run(r) \in Owners(d)}
      BY Places
    <3>2. QED
      BY <2>1, <3>1, SendSame
  <2>5. runs[r].outcome # "none"
    BY <1>b, <2>1 DEF WellFormed
  <2>6. QED
    BY <2>1, <2>3, <2>4, <2>5 DEF Answers
<1>4. CASE StartMerged(r)
  <2>a. UNCHANGED held
    BY <1>4 DEF StartMerged
  <2>1. CASE MergedClosed(r)
    <3>1. /\ UNCHANGED <<call, since, pendingWaiters>> /\ runs' = ExitRun(r)
          /\ Send(runs[r].merged, Closed)
      BY <2>1 DEF MergedClosed, task
    <3>2. SameRuns({r}) /\ runs'[r].owed = runs[r].owed /\ runs'[r].merged = {}
      BY <1>a, <3>1, ExitEffect
    <3>3. Clears(MergedBy(r))
      BY <2>a, <3>1, <3>2, RefusalClears DEF SameRuns
    <3>4. Send({c \in Calls : MergedBy(r) \in Owners(c)}, Closed)
      <4>1. \A c \in Calls : c \in runs[r].merged <=> c \in {d \in Calls : MergedBy(r) \in Owners(d)}
        BY Places
      <4>2. QED
        BY <3>1, <4>1, SendSame
    <3>5. mgr \in {"Stopping", "Stopped"}
      BY <2>1, RefusedByShutdown
    <3>6. QED
      BY <3>1, <3>3, <3>4, <3>5 DEF Answers
  <2>2. CASE MergedStart(r)
    <3>1. UNCHANGED <<client, pendingWaiters>>
      BY <2>2 DEF MergedStart
    <3>2. /\ DOMAIN runs' = 1..(Len(runs) + 1)
          /\ runs'[Len(runs) + 1] = NewRun(runs[r].merged)
          /\ \A i \in DOMAIN runs \ {r} : runs'[i] = runs[i]
          /\ runs'[r].owed = runs[r].owed
          /\ runs'[r].merged = {}
      BY <1>a, <2>2, MergedStartEffect
    <3>3. NewRun(runs[r].merged).owed = runs[r].merged /\ NewRun(runs[r].merged).merged = {}
      BY DEF NewRun
    <3>4. Moves(MergedBy(r), Run(Len(runs) + 1))
      BY <1>a, <2>a, <3>1, <3>2, <3>3, MergedStartMoves
    <3>5. \A s : Run(Len(runs) + 1) = Run(s) => s = Len(runs) + 1
      BY PlacesDiffer
    <3>6. QED
      BY <3>1, <3>4, <3>5 DEF Rearranges
  <2>3. CASE MergedBack(r)
    <3>1. /\ UNCHANGED client /\ runs' = ExitRun(r)
          /\ pendingWaiters' = pendingWaiters \cup runs[r].merged
      BY <2>3 DEF MergedBack, MergePending
    <3>2. SameRuns({r}) /\ runs'[r].owed = runs[r].owed /\ runs'[r].merged = {}
      BY <1>a, <3>1, ExitEffect
    <3>3. Moves(MergedBy(r), Pending)
      BY <2>a, <3>1, <3>2, MergeBackMoves DEF SameRuns
    <3>4. \A s : Pending = Run(s) => s = Len(runs) + 1
      BY PlacesDiffer
    <3>5. QED
      BY <3>1, <3>3, <3>4 DEF Rearranges
  <2>4. QED
    BY <1>4, <2>1, <2>2, <2>3 DEF StartMerged
<1>5. QED
  BY <1>1, <1>2, <1>3, <1>4 DEF RunStep

LEMMA CloserOnCallers ==
  ASSUME Base, HeldBetween, NEW k \in Closers, CloserStep(k)
  PROVE  Rearranges \/ \E p, res : Answers(p, res)
<1>a. DOMAIN held = Closers
  BY DEF Base, TypeOK
<1>1. CASE ShutdownBegin(k) \/ ShutdownDone(k) \/ ShutdownTimeout(k)
  <2>1. UNCHANGED <<client, runs, held, pendingWaiters>>
    BY <1>1 DEF ShutdownBegin, ShutdownDone, ShutdownTimeout, task
  <2>2. QED
    BY <2>1, KeepsOwnersWhenKept DEF Rearranges
<1>2. CASE DrainTask(k)
  <2>1. /\ UNCHANGED <<client, runs>> /\ pendingWaiters' = {}
        /\ held' = [held EXCEPT ![k] = pendingWaiters]
    BY <1>2 DEF DrainTask, Drain
  <2>2. held[k] = {}
    BY <1>2 DEF DrainTask, HeldBetween
  <2>3. Moves(Pending, HeldBy(k))
    BY <1>a, <2>1, <2>2, DrainMoves
  <2>4. \A s : HeldBy(k) = Run(s) => s = Len(runs) + 1
    BY PlacesDiffer
  <2>5. QED
    BY <2>1, <2>3, <2>4 DEF Rearranges
<1>3. CASE AnswerDrained(k)
  <2>1. /\ UNCHANGED <<call, since, runs, pendingWaiters>>
        /\ held' = [held EXCEPT ![k] = {}]
        /\ Send(held[k], Closed)
    BY <1>3 DEF AnswerDrained, task
  <2>2. Clears(HeldBy(k))
    BY <1>a, <2>1, AnswerClears
  <2>3. Send({c \in Calls : HeldBy(k) \in Owners(c)}, Closed)
    <3>1. \A c \in Calls : c \in held[k] <=> c \in {d \in Calls : HeldBy(k) \in Owners(d)}
      BY Places
    <3>2. QED
      BY <2>1, <3>1, SendSame
  <2>4. mgr \in {"Stopping", "Stopped"}
    BY <1>3 DEF AnswerDrained, Base, Lifecycle
  <2>5. QED
    BY <2>1, <2>2, <2>3, <2>4 DEF Answers
<1>4. QED
  BY <1>1, <1>2, <1>3 DEF CloserStep

LEMMA CallOnCallers ==
  ASSUME Base, NEW c \in Calls, CallStep(c)
  PROVE  Accepts(c) \/ Ends(c)
<1>a. DOMAIN answer = Calls /\ TypeOK
  BY DEF Base, TypeOK
<1>1. CASE AskAndWait(c)
  BY <1>a, <1>1, RequestJoins DEF AskAndWait, Accepts
<1>2. ASSUME NEW err \in {"ErrNotRunning", "ErrClosed", "ErrSkipped"}, AskInVain(c, err)
      PROVE  Ends(c)
  <2>1. /\ UNCHANGED <<since, runs, held, pendingWaiters>>
        /\ call' = [call EXCEPT ![c] = "returned"]
        /\ answer' = [answer EXCEPT ![c] = [kind |-> err, run |-> 0]]
    BY <1>2 DEF AskInVain, task
  <2>2. KeepsOwners
    BY <2>1, KeepsOwnersWhenKept
  <2>3. err = "ErrClosed" => mgr \in {"Stopping", "Stopped"}
    BY <1>2 DEF AskInVain, Refusal, Gate, Base, Lifecycle
  <2>4. QED
    BY <1>a, <2>1, <2>2, <2>3 DEF Ends, KeepsOwners
<1>3. CASE Receive(c)
  <2>1. KeepsOwners
    BY <1>3, KeepsOwnersWhenKept DEF Receive, task
  <2>2. QED
    BY <1>3, <2>1 DEF Receive, Ends, KeepsOwners
<1>4. CASE Abandon(c)
  <2>1. /\ UNCHANGED <<since, runs, held>>
        /\ pendingWaiters' = pendingWaiters \ {c}
        /\ call' = [call EXCEPT ![c] = "returned"]
        /\ answer' = [answer EXCEPT ![c] = [kind |-> "ctx", run |-> 0]]
    BY <1>4 DEF Abandon
  <2>2. \A d \in Calls \ {c} : Owners(d)' = Owners(d)
    BY <2>1 DEF Owners
  <2>3. Owners(c)' \subseteq Owners(c)
    BY <2>1 DEF Owners
  <2>4. QED
    BY <1>a, <2>1, <2>2, <2>3 DEF Ends
<1>5. QED
  BY <1>1, <1>2, <1>3, <1>4 DEF CallStep

LEMMA StepOnCallers ==
  ASSUME Base, RunsWellFormed, HeldBetween, [Next]_vars
  PROVE  \/ Rearranges
         \/ \E p, res : Answers(p, res)
         \/ \E c \in Calls : Accepts(c) \/ Ends(c)
<1>1. CASE MgrStart \/ Activate \/ UNCHANGED vars
  <2>1. UNCHANGED <<client, runs, held, pendingWaiters>>
    BY <1>1 DEF MgrStart, Activate, vars, task
  <2>2. QED
    BY <2>1, KeepsOwnersWhenKept DEF Rearranges
<1>2. CASE Fire
  <2>1. KeepsOwners
    BY <1>2, RequestJoins DEF Fire, Base, Joins, KeepsOwners
  <2>2. QED
    BY <1>2, <2>1 DEF Fire, Rearranges
<1>3. QED
  BY <1>1, <1>2, RunOnCallers, CloserOnCallers, CallOnCallers DEF Next

(***************************************************************************)
(* One owner, one answer.                                                  *)
(***************************************************************************)

\* A call not made yet waits nowhere and has no answer.
Untouched == \A c \in Calls : call[c] = "idle" => Owners(c) = {} /\ answer[c] = NoAnswer

\* The runs that owe a call its result started after it.
FreshOwners ==
  \A c \in Calls : /\ since[c] <= runCount
                   /\ \A r : Run(r) \in Owners(c) => r > since[c]

Callers == Base /\ RunsWellFormed /\ HeldBetween /\ Untouched /\ OneOwner

LEMMA AnswerIsOne ==
  ASSUME Base
  PROVE  /\ Closed # NoAnswer
         /\ \A r \in DOMAIN runs : Result(r) # NoAnswer
BY RunsAreASequence DEF Base, TypeOK, Closed, NoAnswer, Result

LEMMA OwnerNext ==
  Callers /\ [Next]_vars => (Untouched /\ OneOwner)'
<1> SUFFICES ASSUME Callers, [Next]_vars PROVE (Untouched /\ OneOwner)'
  OBVIOUS
<1>a. /\ call \in [Calls -> {"idle", "waiting", "returned"}]
      /\ DOMAIN answer = Calls
  BY DEF Callers, Base, TypeOK
<1> SUFFICES ASSUME NEW c \in Calls
             PROVE  /\ call'[c] = "idle" => Owners(c)' = {} /\ answer'[c] = NoAnswer
                    /\ call'[c] = "waiting" => IF answer'[c] = NoAnswer
                                               THEN \E o \in Owners(c)' : Owners(c)' = {o}
                                               ELSE Owners(c)' = {}
  BY DEF Untouched, OneOwner, NoAnswer
<1>b. /\ call[c] = "idle" => Owners(c) = {} /\ answer[c] = NoAnswer
      /\ call[c] = "waiting" => IF answer[c] = NoAnswer
                                THEN \E o \in Owners(c) : Owners(c) = {o}
                                ELSE Owners(c) = {}
  BY DEF Callers, Untouched, OneOwner
<1>1. CASE Rearranges
  <2>1. call'[c] = call[c] /\ answer'[c] = answer[c]
    BY <1>1 DEF Rearranges, client
  <2>2. CASE KeepsOwners
    BY <1>b, <2>1, <2>2 DEF KeepsOwners
  <2>3. ASSUME NEW p, NEW q, Moves(p, q)
        PROVE  /\ Owners(c) = {} => Owners(c)' = {}
               /\ \A o : Owners(c) = {o} => \E e \in Owners(c)' : Owners(c)' = {e}
    <3>1. Owners(c)' = IF p \in Owners(c) THEN (Owners(c) \ {p}) \cup {q} ELSE Owners(c)
      BY <2>3 DEF Moves
    <3>2. ASSUME NEW o, Owners(c) = {o}
          PROVE  \E e \in Owners(c)' : Owners(c)' = {e}
      <4>1. CASE p = o
        <5>1. Owners(c)' = {q}
          BY <3>1, <3>2, <4>1
        <5>2. QED
          BY <5>1
      <4>2. CASE p # o
        <5>1. Owners(c)' = {o}
          BY <3>1, <3>2, <4>2
        <5>2. QED
          BY <5>1
      <4>3. QED
        BY <4>1, <4>2
    <3>3. QED
      BY <3>1, <3>2
  <2>4. QED
    BY <1>1, <1>b, <2>1, <2>2, <2>3 DEF Rearranges
<1>2. ASSUME NEW p, NEW res, Answers(p, res)
      PROVE  /\ call'[c] = "idle" => Owners(c)' = {} /\ answer'[c] = NoAnswer
             /\ call'[c] = "waiting" => IF answer'[c] = NoAnswer
                                        THEN \E o \in Owners(c)' : Owners(c)' = {o}
                                        ELSE Owners(c)' = {}
  <2>1. Owners(c)' = Owners(c) \ {p} /\ call'[c] = call[c]
    BY <1>2 DEF Answers, Clears
  <2>2. res # NoAnswer
    BY <1>2, AnswerIsOne DEF Answers, Callers
  <2>3. answer'[c] = IF p \in Owners(c) /\ call[c] = "waiting" /\ answer[c] = NoAnswer
                     THEN res ELSE answer[c]
    BY <1>2 DEF Answers, Send
  <2>4. QED
    BY <1>b, <2>1, <2>2, <2>3
<1>3. ASSUME NEW d \in Calls, Accepts(d)
      PROVE  /\ call'[c] = "idle" => Owners(c)' = {} /\ answer'[c] = NoAnswer
             /\ call'[c] = "waiting" => IF answer'[c] = NoAnswer
                                        THEN \E o \in Owners(c)' : Owners(c)' = {o}
                                        ELSE Owners(c)' = {}
  <2>1. PICK q : Joins({d}, q)
    BY <1>3 DEF Accepts
  <2>2. Owners(c)' = IF c = d THEN Owners(c) \cup {q} ELSE Owners(c)
    BY <2>1 DEF Joins
  <2>3. /\ answer'[c] = answer[c] /\ call[d] = "idle"
        /\ call'[c] = IF c = d THEN "waiting" ELSE call[c]
    BY <1>3, <1>a DEF Accepts
  <2>4. CASE c = d
    <3>1. Owners(c)' = {q} /\ answer'[c] = NoAnswer
      BY <1>b, <2>2, <2>3, <2>4
    <3>2. QED
      BY <2>3, <2>4, <3>1
  <2>5. QED
    BY <1>b, <2>2, <2>3, <2>4
<1>4. ASSUME NEW d \in Calls, Ends(d)
      PROVE  /\ call'[c] = "idle" => Owners(c)' = {} /\ answer'[c] = NoAnswer
             /\ call'[c] = "waiting" => IF answer'[c] = NoAnswer
                                        THEN \E o \in Owners(c)' : Owners(c)' = {o}
                                        ELSE Owners(c)' = {}
  <2>1. call'[c] = IF c = d THEN "returned" ELSE call[c]
    BY <1>4, <1>a DEF Ends
  <2>2. c # d => Owners(c)' = Owners(c) /\ answer'[c] = answer[c]
    BY <1>4 DEF Ends
  <2>3. QED
    BY <1>b, <2>1, <2>2
<1>5. QED
  BY <1>1, <1>2, <1>3, <1>4, StepOnCallers DEF Callers

LEMMA CallersInvariant == Spec => []Callers
<1>1. Init => RunsWellFormed /\ HeldBetween
  BY DEF Init, RunsWellFormed, HeldBetween
<1>2. Init => Untouched /\ OneOwner
  <2> SUFFICES ASSUME Init, NEW c \in Calls PROVE Owners(c) = {} /\ answer[c] = NoAnswer /\ call[c] = "idle"
    BY DEF Untouched, OneOwner
  <2>1. DOMAIN runs = {}
    BY EmptySeq DEF Init
  <2>2. Owners(c) = {}
    BY <2>1 DEF Init, Owners
  <2>3. QED
    BY <2>2 DEF Init
<1>3. Base /\ [Next]_vars => Base'
  BY TypeNext, LifecycleNext, SlotNext DEF Base
<1>4. Init => Callers
  BY <1>1, <1>2, TypeInit, LifecycleInit, SlotInit DEF Base, Callers
<1>5. Callers /\ [Next]_vars => Callers'
  BY <1>3, WellFormedNext, HeldNext, OwnerNext DEF Base, Callers
<1>6. QED
  BY <1>4, <1>5, PTL DEF Spec

\* However runs finish, hand over, merge back and are overtaken by Shutdown calls, a waiting
\* TriggerAndWait is owed its one answer by exactly one party.
THEOREM OneOwnerEach == Spec => []OneOwner
<1>1. Callers => OneOwner
  BY DEF Callers
<1>2. QED
  BY <1>1, CallersInvariant, PTL

LEMMA FreshOwnersNext == Callers /\ FreshOwners /\ [Next]_vars => FreshOwners'
<1> SUFFICES ASSUME Callers, FreshOwners, [Next]_vars, NEW c \in Calls
             PROVE  /\ since'[c] <= Len(runs')
                    /\ \A r : Run(r) \in Owners(c)' => r > since'[c]
  BY DEF FreshOwners, runCount
<1>a. /\ since \in [Calls -> Nat] /\ Len(runs) \in Nat /\ DOMAIN runs = 1..Len(runs)
      /\ since[c] <= Len(runs)
      /\ \A r : Run(r) \in Owners(c) => r > since[c]
  BY RunsAreASequence DEF Callers, Base, TypeOK, FreshOwners, runCount
<1>b. Len(runs') \in {Len(runs), Len(runs) + 1}
  BY StepOnSlots DEF Callers, Base, Starts, Finishes, KeepsSlots
<1>1. CASE Rearranges
  <2>1. since' = since
    BY <1>1 DEF Rearranges, client
  <2>2. ASSUME NEW r, Run(r) \in Owners(c)'
        PROVE  r > since[c]
    <3>1. CASE KeepsOwners
      BY <1>a, <2>2, <3>1 DEF KeepsOwners
    <3>2. CASE ~KeepsOwners
      <4>1. PICK p, q : Moves(p, q) /\ \A s : q = Run(s) => s = Len(runs) + 1
        BY <1>1, <3>2 DEF Rearranges
      <4>2. Run(r) \in Owners(c) \/ r = Len(runs) + 1
        BY <2>2, <4>1 DEF Moves
      <4>3. QED
        BY <1>a, <4>2
    <3>3. QED
      BY <3>1, <3>2
  <2>3. QED
    BY <1>a, <1>b, <2>1, <2>2
<1>2. CASE \E p, res : Answers(p, res)
  BY <1>a, <1>b, <1>2 DEF Answers, Clears
<1>3. ASSUME NEW d \in Calls, Accepts(d)
      PROVE  since'[c] <= Len(runs') /\ \A r : Run(r) \in Owners(c)' => r > since'[c]
  <2>1. since'[c] = IF c = d THEN Len(runs) ELSE since[c]
    BY <1>3, <1>a DEF Accepts, runCount
  <2>2. PICK q : Joins({d}, q) /\ \A s : q = Run(s) => s = Len(runs) + 1
    BY <1>3 DEF Accepts
  <2>3. c = d => Owners(c) = {}
    BY <1>3 DEF Accepts, Callers, Untouched
  <2>4. Len(runs') >= Len(runs)
    BY <1>a, <1>b
  <2>5. CASE c = d
    <3>1. Owners(c)' = {q}
      BY <2>2, <2>3, <2>5 DEF Joins
    <3>2. \A r : Run(r) \in Owners(c)' => r = Len(runs) + 1
      BY <2>2, <3>1
    <3>3. QED
      BY <1>a, <2>1, <2>4, <2>5, <3>2
  <2>6. CASE c # d
    BY <1>a, <1>b, <2>1, <2>2, <2>6 DEF Joins
  <2>7. QED
    BY <2>5, <2>6
<1>4. ASSUME NEW d \in Calls, Ends(d)
      PROVE  since'[c] <= Len(runs') /\ \A r : Run(r) \in Owners(c)' => r > since'[c]
  <2>1. since' = since /\ Owners(c)' \subseteq Owners(c)
    BY <1>4 DEF Ends
  <2>2. QED
    BY <1>a, <1>b, <2>1
<1>5. QED
  BY <1>1, <1>2, <1>3, <1>4, StepOnCallers DEF Callers

LEMMA FreshNext == Callers /\ FreshOwners /\ FreshResult /\ [Next]_vars => FreshResult'
<1> SUFFICES ASSUME Callers, FreshOwners, FreshResult, [Next]_vars, NEW c \in Calls
             PROVE  /\ answer'[c].run # 0 => answer'[c].run > since'[c] /\ answer'[c].run <= Len(runs')
                    /\ answer'[c].kind = "ErrClosed" => mgr' \in {"Stopping", "Stopped"}
  BY DEF FreshResult, runCount
<1>a. /\ since \in [Calls -> Nat] /\ Len(runs) \in Nat /\ DOMAIN runs = 1..Len(runs)
      /\ DOMAIN answer = Calls /\ answer[c].run \in Nat
      /\ answer[c].run # 0 => answer[c].run > since[c] /\ answer[c].run <= Len(runs)
      /\ answer[c].kind = "ErrClosed" => mgr \in {"Stopping", "Stopped"}
  BY RunsAreASequence DEF Callers, Base, TypeOK, FreshResult, runCount
<1>b. Len(runs') \in {Len(runs), Len(runs) + 1}
  BY StepOnSlots DEF Callers, Base, Starts, Finishes, KeepsSlots
<1>c. mgr \in {"Stopping", "Stopped"} => mgr' \in {"Stopping", "Stopped"}
  BY DEF Next, MgrStart, Activate, Fire, CallStep, AskAndWait, StartOrPend, AskInVain, Receive,
     Abandon, RunStep, FinishRun, SettleState, DeliverResults, StartMerged, CloserStep,
     ShutdownBegin, DrainTask, AnswerDrained, ShutdownDone, ShutdownTimeout, vars
<1>1. CASE answer'[c] = answer[c] /\ since'[c] = since[c]
  BY <1>a, <1>b, <1>c, <1>1
<1>2. CASE Rearranges
  BY <1>1, <1>2 DEF Rearranges, client
<1>3. ASSUME NEW p, NEW res, Answers(p, res)
      PROVE  /\ answer'[c].run # 0 => answer'[c].run > since'[c] /\ answer'[c].run <= Len(runs')
             /\ answer'[c].kind = "ErrClosed" => mgr' \in {"Stopping", "Stopped"}
  <2>1. since'[c] = since[c]
    BY <1>3 DEF Answers
  <2>2. answer'[c] = answer[c] \/ (answer'[c] = res /\ p \in Owners(c))
    BY <1>3 DEF Answers, Send
  <2>3. CASE res = Closed /\ mgr \in {"Stopping", "Stopped"}
    BY <1>1, <1>c, <2>1, <2>2, <2>3 DEF Closed
  <2>4. ASSUME NEW r \in DOMAIN runs, p = Run(r), res = Result(r), p \in Owners(c)
        PROVE  res.run > since[c] /\ res.run <= Len(runs) /\ res.kind # "ErrClosed"
    <3>1. res.run = r /\ res.kind # "ErrClosed"
      BY <2>4, ResultType DEF Result, Callers, Base
    <3>2. r > since[c]
      BY <2>4 DEF FreshOwners
    <3>3. QED
      BY <1>a, <3>1, <3>2
  <2>5. CASE \E r \in DOMAIN runs : p = Run(r) /\ res = Result(r) /\ runs[r].outcome # "none"
    <3>1. p \in Owners(c) => res.run > since[c] /\ res.run <= Len(runs) /\ res.kind # "ErrClosed"
      BY <2>4, <2>5
    <3>2. CASE answer'[c] = res /\ p \in Owners(c)
      <4>1. res.run \in Nat
        BY <2>5, ResultType DEF Callers, Base
      <4>2. QED
        BY <1>a, <1>b, <2>1, <3>1, <3>2, <4>1
    <3>3. QED
      BY <1>1, <2>1, <2>2, <3>2
  <2>6. QED
    BY <1>3, <2>3, <2>5 DEF Answers
<1>4. ASSUME NEW d \in Calls, Accepts(d)
      PROVE  /\ answer'[c].run # 0 => answer'[c].run > since'[c] /\ answer'[c].run <= Len(runs')
             /\ answer'[c].kind = "ErrClosed" => mgr' \in {"Stopping", "Stopped"}
  <2>1. CASE c = d
    <3>1. answer'[c] = NoAnswer
      BY <1>4, <2>1 DEF Accepts, Callers, Untouched
    <3>2. QED
      BY <3>1 DEF NoAnswer
  <2>2. CASE c # d
    BY <1>4, <1>1, <1>a, <2>2 DEF Accepts
  <2>3. QED
    BY <2>1, <2>2
<1>5. ASSUME NEW d \in Calls, Ends(d)
      PROVE  /\ answer'[c].run # 0 => answer'[c].run > since'[c] /\ answer'[c].run <= Len(runs')
             /\ answer'[c].kind = "ErrClosed" => mgr' \in {"Stopping", "Stopped"}
  <2>1. since'[c] = since[c]
    BY <1>5 DEF Ends
  <2>2. CASE answer'[c] # answer[c]
    BY <1>5, <1>c, <2>2 DEF Ends
  <2>3. QED
    BY <1>1, <2>1, <2>2
<1>6. QED
  BY <1>2, <1>3, <1>4, <1>5, StepOnCallers DEF Callers

LEMMA FreshInvariant == Spec => [](FreshOwners /\ FreshResult)
<1>1. Init => FreshOwners /\ FreshResult
  <2> SUFFICES ASSUME Init, NEW c \in Calls
               PROVE  since[c] = 0 /\ Len(runs) = 0 /\ Owners(c) = {} /\ answer[c] = NoAnswer
    BY DEF FreshOwners, FreshResult, runCount, NoAnswer
  <2>1. DOMAIN runs = {} /\ Len(runs) = 0
    BY EmptySeq DEF Init
  <2>2. QED
    BY <2>1 DEF Init, Owners
<1>2. QED
  BY <1>1, CallersInvariant, FreshOwnersNext, FreshNext, PTL DEF Spec

\* No caller is given the result of a run that started before it asked, nor ErrClosed by a manager
\* that nobody shuts down.
THEOREM ResultsAreFresh == Spec => []FreshResult
<1>1. QED
  BY FreshInvariant, PTL

\* A Shutdown that returned nil leaves no run behind, and nobody waiting but those whom another
\* Shutdown still has to turn away.
THEOREM QuietOnceShutDown == Spec => []QuietAfterShutdown
<1>1. Callers /\ NoOrphanedPending => QuietAfterShutdown
  <2> SUFFICES ASSUME Callers, NoOrphanedPending, NEW j \in Closers, closer[j] = "returned"
               PROVE  /\ AllExited
                      /\ pending => \E k \in Closers : closer[k] \in {"stopping", "marking"}
                      /\ \A c \in Calls : call[c] = "waiting" =>
                           answer[c] # NoAnswer \/ c \in pendingWaiters \/ \E k \in Closers : c \in held[k]
    BY DEF QuietAfterShutdown
  <2>1. mgr = "Stopped" /\ AllExited
    BY DEF Callers, Base, Lifecycle
  <2>2. pending => \E k \in Closers : closer[k] \in {"stopping", "marking"}
    BY <2>1 DEF NoOrphanedPending
  <2>3. ASSUME NEW c \in Calls, call[c] = "waiting", answer[c] = NoAnswer
        PROVE  c \in pendingWaiters \/ \E k \in Closers : c \in held[k]
    <3>1. PICK o : o \in Owners(c)
      BY <2>3 DEF Callers, OneOwner
    <3>2. \A r \in DOMAIN runs : runs[r].owed = {} /\ runs[r].merged = {}
      BY <2>1 DEF Callers, AllExited, RunsWellFormed, WellFormed
    <3>3. QED
      BY <3>1, <3>2, Places
  <2>4. QED
    BY <2>1, <2>2, <2>3
<1>2. QED
  BY <1>1, CallersInvariant, PendingNeverOrphaned, PTL

(***************************************************************************)
(* The contract of TriggerAndWait.  What a run answers is fixed when its   *)
(* function returns, so that every step starts a run of the contract, ends *)
(* one, or leaves its results alone.                                       *)
(***************************************************************************)

ResultKinds == {"nil", "err", "ErrPanicked"}

KindOf(o) == CASE o = "panic" -> "ErrPanicked"
               [] o = "ok" \/ Filtered(o) -> "nil"
               [] OTHER -> "err"

ResultsOf(rs) ==
  [r \in DOMAIN rs |-> IF rs[r].outcome = "none" THEN "running" ELSE KindOf(rs[r].outcome)]

LEMMA RunResultsAre ==
  /\ \A r : Result(r) = [kind |-> KindOf(runs[r].outcome), run |-> r]
  /\ RunResults = ResultsOf(runs)
  /\ RunResults' = ResultsOf(runs')
BY DEF RunResults, ResultsOf, Result, KindOf

LEMMA KindOfType == \A o : KindOf(o) \in ResultKinds /\ KindOf(o) # "running"
BY DEF KindOf, ResultKinds

LEMMA ResultsType ==
  ASSUME NEW rs \in Seq(RunType)
  PROVE  /\ ResultsOf(rs) \in Seq(ResultKinds \cup {"running"})
         /\ Len(ResultsOf(rs)) = Len(rs)
         /\ \A r \in DOMAIN rs :
              ResultsOf(rs)[r] = IF rs[r].outcome = "none" THEN "running" ELSE KindOf(rs[r].outcome)
<1>1. Len(rs) \in Nat /\ DOMAIN rs = 1..Len(rs)
  BY LenProperties
<1>2. ResultsOf(rs) \in [1..Len(rs) -> ResultKinds \cup {"running"}]
  BY <1>1, KindOfType DEF ResultsOf
<1>3. ResultsOf(rs) \in Seq(ResultKinds \cup {"running"}) /\ Len(ResultsOf(rs)) = Len(rs)
  BY <1>1, <1>2, IsASeq, LenProperties
<1>4. QED
  BY <1>1, <1>3 DEF ResultsOf

LEMMA ResultsKept ==
  ASSUME DOMAIN runs' = DOMAIN runs, \A r \in DOMAIN runs : runs'[r].outcome = runs[r].outcome
  PROVE  RunResults' = RunResults
BY RunResultsAre DEF ResultsOf

LEMMA ResultsAppended ==
  ASSUME TypeOK, TypeOK', DOMAIN runs' = 1..(Len(runs) + 1), Len(runs') = Len(runs) + 1,
         runs'[Len(runs) + 1].outcome = "none",
         \A r \in DOMAIN runs : runs'[r].outcome = runs[r].outcome
  PROVE  RunResults' = Append(RunResults, "running")
<1> DEFINE V == ResultKinds \cup {"running"}
           s == ResultsOf(runs)
           t == ResultsOf(runs')
<1>a. /\ Len(runs) \in Nat /\ DOMAIN runs = 1..Len(runs)
      /\ runs \in Seq(RunType) /\ runs' \in Seq(RunType)
  BY RunsAreASequence DEF TypeOK
<1>1. s \in Seq(V) /\ Len(s) = Len(runs)
  BY <1>a, ResultsType
<1>2. t \in Seq(V) /\ Len(t) = Len(runs) + 1
  BY <1>a, ResultsType
<1>3. t[Len(runs) + 1] = "running" /\ \A i \in 1..Len(runs) : t[i] = s[i]
  BY <1>a DEF ResultsOf
<1> HIDE DEF s, t
<1>4. /\ Append(s, "running") \in Seq(V)
      /\ Len(Append(s, "running")) = Len(runs) + 1
      /\ \A i \in 1..Len(runs) : Append(s, "running")[i] = s[i]
      /\ Append(s, "running")[Len(runs) + 1] = "running"
  BY <1>1, <1>a, AppendProperties
<1>5. \A i \in 1..(Len(runs) + 1) : t[i] = Append(s, "running")[i]
  BY <1>a, <1>3, <1>4
<1>6. t = Append(s, "running")
  BY <1>2, <1>4, <1>5, SeqEqual
<1>7. QED
  BY <1>6, RunResultsAre DEF s, t

ContractVars == <<mgr \in {"Stopping", "Stopped"}, RunResults, call, answer, since>>

LEMMA RequestStartsOrKeeps ==
  ASSUME TypeOK, TypeOK', NEW W \in SUBSET Calls, StartOrPend(W)
  PROVE  /\ mgr = "Running" /\ mgr' = mgr
         /\ RunResults' \in {RunResults, Append(RunResults, "running")}
<1>1. mgr = "Running" /\ mgr' = mgr
  BY DEF StartOrPend, Accepting, Gate
<1>2. CASE StartRun(runs, W)
  <2>1. NewRun(W).outcome = "none"
    BY DEF NewRun
  <2>2. RunResults' = Append(RunResults, "running")
    BY <1>2, <2>1, StartEffect, ResultsAppended
  <2>3. QED
    BY <1>1, <2>2
<1>3. CASE UNCHANGED runs
  BY <1>1, <1>3, ResultsKept
<1>4. QED
  BY <1>2, <1>3 DEF StartOrPend

LEMMA FinishResult ==
  ASSUME TypeOK, RunsWellFormed, NEW r \in DOMAIN runs, NEW o \in Outcomes, FinishRun(r, o)
  PROVE  /\ RunResults[r] = "running"
         /\ \E k \in ResultKinds : RunResults' = [RunResults EXCEPT ![r] = k]
<1>1. runs[r].outcome = "none"
  BY DEF FinishRun, RunsWellFormed, WellFormed
<1>2. SameRuns({r}) /\ runs'[r].outcome = o /\ o # "none"
  BY FinishEffect, ParamsAssumption DEF AllOutcomes
<1>3. ResultsOf(runs') = [ResultsOf(runs) EXCEPT ![r] = KindOf(o)]
  BY <1>2 DEF ResultsOf, SameRuns
<1>4. RunResults[r] = "running"
  BY <1>1, RunResultsAre DEF ResultsOf
<1>5. QED
  BY <1>3, <1>4, KindOfType, RunResultsAre

LEMMA AnswerRefines ==
  ASSUME Callers, FreshOwners, TypeOK', NEW p, NEW res, Answers(p, res),
         (mgr' \in {"Stopping", "Stopped"}) = (mgr \in {"Stopping", "Stopped"}), RunResults' = RunResults
  PROVE  Contract!AnswerSome
<1>a. /\ DOMAIN answer' = Calls
      /\ runs \in Seq(RunType) /\ DOMAIN runs = 1..Len(runs)
  BY RunsAreASequence DEF TypeOK, Callers, Base
<1>1. ASSUME NEW c \in Calls, answer'[c] # answer[c]
      PROVE  Contract!MayAnswer(c, answer'[c])
  <2>1. /\ answer'[c] = res /\ p \in Owners(c)
        /\ call[c] = "waiting" /\ answer[c] = NoAnswer
    BY <1>1 DEF Answers, Send
  <2>2. answer[c] = Contract!NoAnswer
    BY <2>1 DEF NoAnswer, Contract!NoAnswer
  <2>3. CASE res = Closed /\ mgr \in {"Stopping", "Stopped"}
    BY <2>1, <2>2, <2>3 DEF Closed, Contract!Closed, Contract!MayAnswer
  <2>4. ASSUME NEW r \in DOMAIN runs, p = Run(r), res = Result(r), runs[r].outcome # "none"
        PROVE  Contract!MayAnswer(c, answer'[c])
    <3>1. r > since[c]
      BY <2>1, <2>4 DEF FreshOwners
    <3>2. r \in DOMAIN RunResults /\ RunResults[r] = KindOf(runs[r].outcome)
      BY <2>4, RunResultsAre DEF ResultsOf
    <3>3. RunResults[r] # "running" /\ res = [kind |-> RunResults[r], run |-> r]
      BY <2>4, <3>2, KindOfType, RunResultsAre
    <3>4. QED
      BY <2>1, <2>2, <3>1, <3>2, <3>3 DEF Contract!MayAnswer
  <2>5. QED
    BY <2>3, <2>4 DEF Answers
<1>2. QED
  BY <1>a, <1>1 DEF Answers, Contract!AnswerSome

LEMMA StepRefines ==
  ASSUME Callers, FreshOwners, TypeOK', [Next]_vars
  PROVE  Contract!Next \/ UNCHANGED ContractVars
<1>a. /\ TypeOK /\ Lifecycle /\ RunsWellFormed
      /\ Len(runs) \in Nat /\ DOMAIN runs = 1..Len(runs)
  BY RunsAreASequence DEF Callers, Base, TypeOK
<1>b. UNCHANGED runs => RunResults' = RunResults
  BY ResultsKept
<1>1. CASE MgrStart \/ Activate \/ UNCHANGED vars
  <2>1. UNCHANGED <<runs, client>> /\ (mgr' = mgr \/ (mgr = "NotStarted" /\ mgr' = "Running"))
    BY <1>1 DEF MgrStart, Activate, vars
  <2>2. QED
    BY <1>b, <2>1 DEF ContractVars, client
<1>2. CASE Fire
  <2>1. StartOrPend({}) /\ UNCHANGED client
    BY <1>2 DEF Fire
  <2>2. mgr = "Running" /\ mgr' = mgr /\ RunResults' \in {RunResults, Append(RunResults, "running")}
    BY <1>a, <2>1, RequestStartsOrKeeps
  <2>3. QED
    BY <2>1, <2>2 DEF ContractVars, client, Contract!Next, Contract!StartRun
<1>3. ASSUME NEW c \in Calls, CallStep(c)
      PROVE  Contract!Next
  <2>1. CASE AskAndWait(c)
    <3>1. mgr = "Running" /\ mgr' = mgr /\ RunResults' \in {RunResults, Append(RunResults, "running")}
      BY <1>a, <2>1, RequestStartsOrKeeps DEF AskAndWait
    <3>2. Len(RunResults) = runCount
      BY <1>a, ResultsType, RunResultsAre DEF TypeOK, runCount
    <3>3. Contract!Accept(c)
      BY <2>1, <3>1, <3>2 DEF AskAndWait, Contract!Accept
    <3>4. QED
      BY <3>3 DEF Contract!Next
  <2>2. ASSUME NEW err \in {"ErrNotRunning", "ErrClosed", "ErrSkipped"}, AskInVain(c, err)
        PROVE  Contract!Next
    <3>1. err = "ErrClosed" => mgr \in {"Stopping", "Stopped"}
      BY <1>a, <2>2 DEF AskInVain, Refusal, Gate, Lifecycle
    <3>2. Contract!Refuse(c)
      BY <1>b, <2>2, <3>1 DEF AskInVain, Contract!Refuse
    <3>3. QED
      BY <3>2 DEF Contract!Next
  <2>3. CASE Receive(c)
    <3>1. Contract!Return(c)
      BY <1>b, <2>3 DEF Receive, Contract!Return, NoAnswer, Contract!NoAnswer
    <3>2. QED
      BY <3>1 DEF Contract!Next
  <2>4. CASE Abandon(c)
    <3>1. Contract!Abandon(c)
      BY <1>b, <2>4 DEF Abandon, Contract!Abandon
    <3>2. QED
      BY <3>1 DEF Contract!Next
  <2>5. QED
    BY <1>3, <2>1, <2>2, <2>3, <2>4 DEF CallStep
<1>4. ASSUME NEW r \in DOMAIN runs, RunStep(r)
      PROVE  Contract!Next \/ UNCHANGED ContractVars
  <2>a. UNCHANGED mgr
    BY <1>4 DEF RunStep, FinishRun, SettleState, DeliverResults, StartMerged
  <2>b. ASSUME SameRuns({r}), runs'[r].outcome = runs[r].outcome
        PROVE  RunResults' = RunResults
    BY <2>b, ResultsKept DEF SameRuns
  <2>1. ASSUME NEW o \in Outcomes, FinishRun(r, o)
        PROVE  Contract!Next
    <3>1. UNCHANGED client
      BY <2>1 DEF FinishRun
    <3>2. /\ RunResults[r] = "running"
          /\ \E k \in ResultKinds : RunResults' = [RunResults EXCEPT ![r] = k]
      BY <1>a, <2>1, FinishResult
    <3>3. r \in DOMAIN RunResults
      BY RunResultsAre DEF ResultsOf
    <3>4. Contract!FinishRun(r)
      BY <2>a, <3>1, <3>2 DEF client, ResultKinds, Contract!FinishRun
    <3>5. QED
      BY <3>3, <3>4 DEF Contract!Next
  <2>2. ASSUME ~ \E o \in Outcomes : FinishRun(r, o)
        PROVE  Contract!Next \/ UNCHANGED ContractVars
    <3>1. CASE RunResults' = RunResults
      <4>1. CASE Rearranges
        BY <2>a, <3>1, <4>1 DEF Rearranges, client, ContractVars
      <4>2. CASE \E p, res : Answers(p, res)
        BY <2>a, <3>1, <4>2, AnswerRefines DEF Contract!Next
      <4>3. QED
        BY <1>4, <4>1, <4>2, RunOnCallers DEF Callers
    <3>2. CASE SettleState(r)
      BY <1>a, <2>b, <3>1, <3>2, SettleEffect
    <3>3. CASE DeliverResults(r)
      BY <1>a, <2>b, <3>1, <3>3, DeliverEffect
    <3>4. CASE StartMerged(r)
      <4>1. CASE MergedClosed(r) \/ MergedBack(r)
        <5>1. runs' = ExitRun(r)
          BY <4>1 DEF MergedClosed, MergedBack
        <5>2. QED
          BY <1>a, <2>b, <3>1, <5>1, ExitEffect
      <4>2. CASE MergedStart(r)
        <5>1. NewRun(runs[r].merged).outcome = "none"
          BY DEF NewRun
        <5>2. RunResults' = Append(RunResults, "running")
          <6>1. /\ Len(runs') = Len(runs) + 1
                /\ DOMAIN runs' = 1..(Len(runs) + 1)
                /\ runs'[Len(runs) + 1] = NewRun(runs[r].merged)
                /\ \A i \in DOMAIN runs \ {r} : runs'[i] = runs[i]
                /\ runs'[r].outcome = runs[r].outcome
            BY <1>a, <4>2, MergedStartEffect
          <6>2. QED
            BY <1>a, <5>1, <6>1, ResultsAppended
        <5>3. UNCHANGED client /\ mgr = "Running"
          BY <4>2 DEF MergedStart, Accepting, Gate
        <5>4. QED
          BY <2>a, <5>2, <5>3 DEF client, Contract!Next, Contract!StartRun
      <4>3. QED
        BY <3>4, <4>1, <4>2 DEF StartMerged
    <3>5. QED
      BY <1>4, <2>2, <3>2, <3>3, <3>4 DEF RunStep
  <2>3. QED
    BY <2>1, <2>2
<1>5. ASSUME NEW k \in Closers, CloserStep(k)
      PROVE  Contract!Next \/ UNCHANGED ContractVars
  <2>a. RunResults' = RunResults
    BY <1>5, <1>b DEF CloserStep, ShutdownBegin, DrainTask, AnswerDrained, ShutdownDone,
       ShutdownTimeout
  <2>1. CASE ShutdownBegin(k)
    <3>1. mgr' \in {"Stopping", "Stopped"}
      BY <1>a, <2>1 DEF ShutdownBegin, TypeOK
    <3>2. UNCHANGED client
      BY <2>1 DEF ShutdownBegin
    <3>3. QED
      BY <2>a, <3>1, <3>2 DEF client, Contract!Next, Contract!Close
  <2>2. CASE ~ShutdownBegin(k)
    <3>1. (mgr' \in {"Stopping", "Stopped"}) = (mgr \in {"Stopping", "Stopped"})
      BY <1>5, <2>2, <1>a DEF CloserStep, DrainTask, AnswerDrained, ShutdownDone, ShutdownTimeout,
         Lifecycle
    <3>2. CASE Rearranges
      BY <2>a, <3>1, <3>2 DEF Rearranges, client, ContractVars
    <3>3. CASE \E p, res : Answers(p, res)
      BY <2>a, <3>1, <3>3, AnswerRefines DEF Contract!Next
    <3>4. QED
      BY <1>5, <3>2, <3>3, CloserOnCallers DEF Callers
  <2>3. QED
    BY <2>1, <2>2
<1>6. QED
  BY <1>1, <1>2, <1>3, <1>4, <1>5 DEF Next

\* What callers of TriggerAndWait see of slots, merging, handing over and Shutdown is what
\* TriggerContract promises: the detailed task implements it, step by step.
THEOREM ImplementsContract == Spec => ContractSpec
<1>1. Init => Contract!Init
  <2> SUFFICES ASSUME Init PROVE Contract!Init
    OBVIOUS
  <2>1. RunResults = <<>>
    <3>1. runs = <<>> /\ Len(<<>>) = 0 /\ <<>> \in Seq(RunType)
      BY EmptySeq DEF Init
    <3>2. RunResults \in Seq(ResultKinds \cup {"running"}) /\ Len(RunResults) = 0
      BY <3>1, ResultsType, RunResultsAre
    <3>3. QED
      BY <3>2, EmptySeq
  <2>2. QED
    BY <2>1 DEF Init, Contract!Init, NoAnswer, Contract!NoAnswer
<1>2. Callers /\ FreshOwners /\ TypeOK' /\ [Next]_vars => [Contract!Next]_(Contract!vars)
  BY StepRefines DEF ContractVars, Contract!vars
<1>3. QED
  BY <1>1, <1>2, CallersInvariant, FreshInvariant, TypeCorrect, PTL
     DEF Spec, ContractSpec, Contract!Spec
=============================================================================
