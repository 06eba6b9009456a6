----------------------------- MODULE HttpClient -----------------------------
(***************************************************************************)
(* The helpers of httpx/client: the transport a client is built on, and    *)
(* reads of a response body up to a limit.                                 *)
(*                                                                         *)
(* A body is its size and the place of a read error: "none", "with" the    *)
(* last bytes, or "after" them.                                            *)
(***************************************************************************)
EXTENDS Integers, Sequences, TLAPS

CONSTANT MaxInt

ASSUME MaxIntAssumption == MaxInt \in Nat \ {0}

\* io.LimitedReader over a body: how much is read, and whether an error is met.  At n bytes it
\* stops without asking the body again.
BytesRead(body, n) == IF body.size < n THEN body.size ELSE n

MeetsError(body, n) ==
  \/ body.error = "after" /\ body.size < n
  \/ body.error = "with" /\ body.size <= n

ReadAllAndCloseLimit(body, limit) ==
  LET most == IF limit < 0 THEN 0 ELSE limit
      n    == IF most < MaxInt THEN most + 1 ELSE most
  IN IF MeetsError(body, n) THEN [err |-> "read", bytes |-> 0]
     ELSE IF BytesRead(body, n) > most THEN [err |-> "ErrBodyTooLarge", bytes |-> 0]
     ELSE [err |-> "nil", bytes |-> BytesRead(body, n)]

\* The error of the drain goes before that of Close.
DrainAndClose(body, max, closeErr) ==
  IF max > 0 /\ MeetsError(body, max) THEN "read" ELSE closeErr

-----------------------------------------------------------------------------
(* New *)

\* A middleware is an element of the sequence, a nil one is "nil"; the first is the outermost.
RoundTrip(base, middlewares) ==
  LET Used(m) == m # "nil" IN Append(SelectSeq(middlewares, Used), base)

Base(config) ==
  IF config.roundTripper THEN "roundTripper"
  ELSE IF config.transport THEN "transportClone" ELSE "defaultClone"

New(config) == RoundTrip(Base(config), config.middlewares)

-----------------------------------------------------------------------------
\* A body that can be read is returned whole or refused, and it is refused exactly when it is longer
\* than the limit: the byte read beyond the limit (io.go:29-33) tells the two apart at every limit up
\* to the largest, where there is no byte beyond and no longer body either.
THEOREM LimitIsExact ==
  ASSUME NEW limit \in Int, NEW size \in Nat, limit <= MaxInt, size <= MaxInt
  PROVE  LET most == IF limit < 0 THEN 0 ELSE limit
         IN ReadAllAndCloseLimit([size |-> size, error |-> "none"], limit) =
              IF size > most THEN [err |-> "ErrBodyTooLarge", bytes |-> 0]
                             ELSE [err |-> "nil", bytes |-> size]
<1> DEFINE body == [size |-> size, error |-> "none"]
           most == IF limit < 0 THEN 0 ELSE limit
           n    == IF most < MaxInt THEN most + 1 ELSE most
<1>1. most \in Nat /\ n \in Nat /\ most <= MaxInt /\ n >= most
  BY MaxIntAssumption, SMT
<1>2. body.size = size /\ ~MeetsError(body, n)
  BY DEF MeetsError
<1>3. BytesRead(body, n) = IF size < n THEN size ELSE n
  BY <1>2 DEF BytesRead
<1>4. BytesRead(body, n) > most <=> size > most
  <2>1. (IF size < n THEN size ELSE n) > most <=> size > most
    BY <1>1, MaxIntAssumption, SMT
  <2> HIDE DEF n, most, body
  <2> QED
    BY <1>3, <2>1
<1>5. size <= most => BytesRead(body, n) = size
  <2>1. size <= most => (IF size < n THEN size ELSE n) = size
    BY <1>1, MaxIntAssumption, SMT
  <2> HIDE DEF n, most, body
  <2> QED
    BY <1>3, <2>1
<1>6. ReadAllAndCloseLimit(body, limit) =
        IF BytesRead(body, n) > most THEN [err |-> "ErrBodyTooLarge", bytes |-> 0]
        ELSE [err |-> "nil", bytes |-> BytesRead(body, n)]
  BY <1>2 DEF ReadAllAndCloseLimit
<1> HIDE DEF body, n
<1>7. size > most \/ size <= most
  BY <1>1, SMT
<1> QED
  BY <1>4, <1>5, <1>6, <1>7 DEF body
=============================================================================
