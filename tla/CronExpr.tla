------------------------------ MODULE CronExpr ------------------------------
(***************************************************************************)
(* Cron expressions: the parser that accepts them when a job is scheduled  *)
(* or loaded, and the parser that reads them at every poll                 *)
(* (_validate_cron_field, validate_cron, _cron_field_matches and           *)
(* cron_matches in cron_scheduler/index.py).                               *)
(*                                                                         *)
(* A field is the sequence of its symbols; a run of digits is one symbol   *)
(* with its value, and whatever else a user types is "other".  A part of a *)
(* field is given by its first and its last position.                      *)
(***************************************************************************)
EXTENDS Naturals, Sequences

Symbol == [sym : {"*", "/", ",", "-", "number", "other"}, val : Nat]
Field == Seq(Symbol)
Cron == Seq(Field)                  \* what split() makes of the text
Moment == [minute : 0 .. 59, hour : 0 .. 23, day : 1 .. 31, month : 1 .. 12,
           weekday : 0 .. 6]        \* Monday is 0

At(f, a, b, c) == {i \in a .. b : f[i].sym = c}

IsStar(f, a, b) == a = b /\ f[a].sym = "*"
StartsWithStep(f, a, b) == a < b /\ f[a].sym = "*" /\ f[a + 1].sym = "/"
Plain(f, a, b) == ~IsStar(f, a, b) /\ ~StartsWithStep(f, a, b)
IsNumber(f, a, b) == a = b /\ f[a].sym = "number"       \* isdigit

\* The parts of split(",").
Parts(f) ==
    LET commas == At(f, 1, Len(f), ",")
    IN  {p \in (1 .. Len(f) + 1) \X (0 .. Len(f)) :
           /\ p[1] <= p[2] + 1
           /\ p[1] = 1 \/ p[1] - 1 \in commas
           /\ p[2] = Len(f) \/ p[2] + 1 \in commas
           /\ At(f, p[1], p[2], ",") = {}}

IsList(f) ==
    Plain(f, 1, Len(f)) /\ At(f, 1, Len(f), ",") # {}

-----------------------------------------------------------------------------
(***************************************************************************)
(* Validation.                                                             *)
(***************************************************************************)
\* split("-", 1): at the first dash.
ValidRange(f, a, b, minimum, maximum) ==
    \E d \in At(f, a, b, "-") :
        /\ \A k \in At(f, a, b, "-") : d <= k
        /\ IsNumber(f, a, d - 1) /\ IsNumber(f, d + 1, b)
        /\ minimum <= f[a].val /\ f[a].val <= f[b].val /\ f[b].val <= maximum

\* Mutant of ValidStep: zero is a step.
ValidStepZero(f, a, b) == IsNumber(f, a + 2, b) /\ f[b].val >= 0

ValidStep(f, a, b) == IsNumber(f, a + 2, b) /\ f[b].val > 0

ValidPart(f, a, b, minimum, maximum) ==
    \/ IsStar(f, a, b)
    \/ StartsWithStep(f, a, b) /\ ValidStep(f, a, b)
    \/ Plain(f, a, b) /\ ValidRange(f, a, b, minimum, maximum)
    \/ /\ Plain(f, a, b) /\ At(f, a, b, "-") = {}
       /\ IsNumber(f, a, b) /\ minimum <= f[a].val /\ f[a].val <= maximum

ValidField(f, minimum, maximum) ==
    IF IsList(f)
    THEN \A p \in Parts(f) : ValidPart(f, p[1], p[2], minimum, maximum)
    ELSE ValidPart(f, 1, Len(f), minimum, maximum)

Minimum == <<0, 0, 1, 1, 0>>
Maximum == <<59, 23, 31, 12, 6>>

ValidCron(cron) ==
    /\ Len(cron) = 5
    /\ \A i \in 1 .. 5 : ValidField(cron[i], Minimum[i], Maximum[i])

-----------------------------------------------------------------------------
(***************************************************************************)
(* Matching.  Readable says that no conversion raises; an expression that  *)
(* is not matches nothing, because poll_due_jobs skips the job.            *)
(***************************************************************************)
\* split("-") must yield two numbers, and a step must divide.
ReadablePart(f, a, b) ==
    \/ IsStar(f, a, b)
    \/ StartsWithStep(f, a, b) /\ IsNumber(f, a + 2, b) /\ f[b].val # 0
    \/ /\ Plain(f, a, b)
       /\ \E d \in a .. b : /\ At(f, a, b, "-") = {d}
                            /\ IsNumber(f, a, d - 1) /\ IsNumber(f, d + 1, b)
    \/ Plain(f, a, b) /\ At(f, a, b, "-") = {} /\ IsNumber(f, a, b)

ReadableField(f) ==
    IF IsList(f) THEN \A p \in Parts(f) : ReadablePart(f, p[1], p[2])
                 ELSE ReadablePart(f, 1, Len(f))

Readable(cron) == Len(cron) = 5 => \A i \in 1 .. 5 : ReadableField(cron[i])

PartMatches(f, a, b, value) ==
    \/ IsStar(f, a, b)
    \/ StartsWithStep(f, a, b) /\ value % f[b].val = 0
    \/ Plain(f, a, b) /\ f[a].val <= value /\ value <= f[b].val

FieldMatches(f, value) ==
    IF IsList(f) THEN \E p \in Parts(f) : PartMatches(f, p[1], p[2], value)
                 ELSE PartMatches(f, 1, Len(f), value)

\* Day and weekday: a "*" leaves the choice to the other, two fields are
\* alternatives.
DateMatches(day, weekday, moment) ==
    LET star(f) == IsStar(f, 1, Len(f))
        onDay == FieldMatches(day, moment.day)
        onWeekday == FieldMatches(weekday, (moment.weekday + 1) % 7)
    IN  IF star(day) \/ star(weekday)
        THEN (star(day) \/ onDay) /\ (star(weekday) \/ onWeekday)
        ELSE onDay \/ onWeekday

CronMatches(cron, moment) ==
    /\ Len(cron) = 5 /\ Readable(cron)
    /\ FieldMatches(cron[1], moment.minute)
    /\ FieldMatches(cron[2], moment.hour)
    /\ FieldMatches(cron[4], moment.month)
    /\ DateMatches(cron[3], cron[5], moment)
=============================================================================
