----------------------------- MODULE TuningTypes -----------------------------
(***************************************************************************)
(* The six types of tuning variables: what registration refuses, which     *)
(* values each accepts, how it reads a text, and what a view of it shows.  *)
(* A registration is a record of its type (kind), default and options; a   *)
(* bound that was not given is NoBound.                                    *)
(*                                                                         *)
(* A float is a record: its class, its number and whether it is -0, so     *)
(* that equality of records is equality of bits.  Which texts strconv and  *)
(* time read as numbers, and as which, is external: IntOf, FloatOf and     *)
(* DurationOf map the readable ones to values.                             *)
(***************************************************************************)
EXTENDS Integers, Sequences

CONSTANTS NoBound, Bad, Redacted, IntOf, FloatOf, DurationOf

Kinds == {"bool", "int64", "float64", "string", "duration", "enum"}

InRange(c, n) == (c.min = NoBound \/ n >= c.min) /\ (c.max = NoBound \/ n <= c.max)

EmptyRange(c) == c.min # NoBound /\ c.max # NoBound /\ c.min > c.max

-----------------------------------------------------------------------------
(* Validation *)

ValidInt64(c, n)    == InRange(c, n)
ValidDuration(c, n) == InRange(c, n)
ValidFloat64(c, f)  == f.class = "finite" /\ InRange(c, f.num)
ValidString(c, s)   == ~c.nonEmpty \/ s # ""

\* The canonical form of an enum value; Bad when the normalizer or the list refuses it.
EnumParse(c, s) ==
  LET n == IF ~c.normalized THEN s ELSE IF s \in DOMAIN c.normalize THEN c.normalize[s] ELSE Bad
  IN IF \E i \in DOMAIN c.allowed : c.allowed[i] = n THEN n ELSE Bad

\* ResetToLastValue validates what it restores once more; a bool has nothing to validate.
RestorableInt64(c, v)    == ValidInt64(c, v)
RestorableDuration(c, v) == ValidDuration(c, v)
RestorableFloat64(c, v)  == ValidFloat64(c, v)
RestorableString(c, v)   == ValidString(c, v)
RestorableEnum(c, v)     == \E i \in DOMAIN c.allowed : c.allowed[i] = v
RestorableBool(v)        == v \in BOOLEAN

StillValid(c, v) ==
  CASE c.kind = "int64"    -> RestorableInt64(c, v)
    [] c.kind = "duration" -> RestorableDuration(c, v)
    [] c.kind = "float64"  -> RestorableFloat64(c, v)
    [] c.kind = "string"   -> RestorableString(c, v)
    [] c.kind = "enum"     -> RestorableEnum(c, v)
    [] c.kind = "bool"     -> RestorableBool(v)

-----------------------------------------------------------------------------
(* Registration: what is refused as ErrInvalidConfig *)

Int64Refused(c)    == EmptyRange(c) \/ ~ValidInt64(c, c.def)
DurationRefused(c) == EmptyRange(c) \/ ~ValidDuration(c, c.def)
Float64Refused(c)  == EmptyRange(c) \/ ~ValidFloat64(c, c.def)
StringRefused(c)   == ~ValidString(c, c.def)
EnumRefused(c) ==
  \/ c.allowed = <<>>
  \/ \E i, j \in DOMAIN c.allowed : i # j /\ c.allowed[i] = c.allowed[j]
  \/ EnumParse(c, c.def) = Bad

ConfigRefused(c) ==
  CASE c.kind = "int64"    -> Int64Refused(c)
    [] c.kind = "duration" -> DurationRefused(c)
    [] c.kind = "float64"  -> Float64Refused(c)
    [] c.kind = "string"   -> StringRefused(c)
    [] c.kind = "enum"     -> EnumRefused(c)
    [] OTHER               -> FALSE

\* The registered default: an enum's is normalized first.
Default(c) == IF c.kind = "enum" THEN EnumParse(c, c.def) ELSE c.def

-----------------------------------------------------------------------------
(* Texts *)

TrueTexts  == {"true", "t", "1", "yes", "y", "on"}
FalseTexts == {"false", "f", "0", "no", "n", "off"}

ParseBool(s) == IF s \in TrueTexts THEN TRUE ELSE IF s \in FalseTexts THEN FALSE ELSE Bad

ReadBy(table, s) == IF s \in DOMAIN table THEN table[s] ELSE Bad

\* setFromString: an enum parses and a string takes its text in Set itself.
FromText(c, s) ==
  CASE c.kind = "bool"     -> ParseBool(s)
    [] c.kind = "int64"    -> ReadBy(IntOf, s)
    [] c.kind = "float64"  -> ReadBy(FloatOf, s)
    [] c.kind = "duration" -> ReadBy(DurationOf, s)
    [] OTHER               -> s

\* SetAny: the Go type each variable takes.
GoType(c) == IF c.kind = "enum" THEN "string" ELSE c.kind

-----------------------------------------------------------------------------
(* Views *)

Shown(c, v) == IF c.redact THEN Redacted ELSE v

\* ExportOverrides lists a variable whose value is not its default, bit by bit.
Overridden(c, v) == v # Default(c)

View(c, v, constraints) ==
  [type |-> c.kind, value |-> Shown(c, v), default |-> Shown(c, Default(c)),
   constraints |-> constraints, override |-> Overridden(c, v)]

BoundsShown(c) == [min |-> c.min, max |-> c.max]

BoolView(c, v)     == View(c, v, <<>>)
Int64View(c, v)    == View(c, v, BoundsShown(c))
DurationView(c, v) == View(c, v, BoundsShown(c))
Float64View(c, v)  == View(c, v, BoundsShown(c))
StringView(c, v)   == View(c, v, [nonEmpty |-> c.nonEmpty])
EnumView(c, v)     == View(c, v, [enumAllowed |-> c.allowed])

ViewOf(c, v) ==
  CASE c.kind = "bool"     -> BoolView(c, v)
    [] c.kind = "int64"    -> Int64View(c, v)
    [] c.kind = "duration" -> DurationView(c, v)
    [] c.kind = "float64"  -> Float64View(c, v)
    [] c.kind = "string"   -> StringView(c, v)
    [] c.kind = "enum"     -> EnumView(c, v)
=============================================================================
