----------------------------- MODULE Calculator -----------------------------
(***************************************************************************)
(* Package ps: the PostScript calculator, and the functions of type 4 that *)
(* run on it.                                                              *)
(*                                                                         *)
(* An object is a record with one field: int, real, bool, proc or op.      *)
(* Integers have Width bits; a real is a fraction in lowest terms, and so  *)
(* exact.  What package math computes is an operator of the client's.      *)
(* A text is the sequence of its tokens; those that the parser takes for   *)
(* operands although they are numbers (".5", "+5") are operands here.      *)
(***************************************************************************)
EXTENDS Integers, Sequences
LOCAL INSTANCE SequencesExt

CONSTANTS Width,         \* of an integer, in bits
          StackLimit,    \* a push is refused on more objects
          Math(_, _),    \* package math: sin, cos, atan, sqrt, exp, log, ln
          Programs,      \* the programs of functions
          Texts,         \* texts of programs that somebody else wrote
          Arguments,     \* tuples of reals functions are evaluated for
          LawCases,      \* pairs of programs that should do the same, with operands
          MaxEvaluations

ASSUME CalcAssumption == Width \in Nat \ {0} /\ StackLimit \in Nat /\ MaxEvaluations \in Nat

(***************************************************************************)
(* Objects.                                                                *)
(***************************************************************************)
Wrap(v) == ((v + 2 ^ (Width - 1)) % 2 ^ Width) - 2 ^ (Width - 1)
Int32(v) == [int |-> Wrap(v)]

Gcd[a \in Nat, b \in Nat] == IF b = 0 THEN a ELSE Gcd[b, a % b]
Mag(p) == IF p < 0 THEN -p ELSE p
Fraction(p, q) ==
  LET g == Gcd[Mag(p), Mag(q)]
      s == IF q < 0 THEN -1 ELSE 1
  IN  <<s * (p \div g), s * (q \div g)>>
Real(f) == [real |-> Fraction(f[1], f[2])]

Boolean(b) == [bool |-> b]
Op(word) == [op |-> word]
Proc(objs) == [proc |-> objs]

IsInt(o) == "int" \in DOMAIN o
IsReal(o) == "real" \in DOMAIN o
IsBool(o) == "bool" \in DOMAIN o
IsProc(o) == "proc" \in DOMAIN o
IsNumber(o) == IsInt(o) \/ IsReal(o)

\* float64(int) and the value of a real.
Value(o) == IF IsInt(o) THEN <<o.int, 1>> ELSE o.real
Less(f, g) == f[1] * g[2] < g[1] * f[2]
Truncated(f) == IF f[1] < 0 THEN -((-f[1]) \div f[2]) ELSE f[1] \div f[2]
Floor(f) == f[1] \div f[2]

(***************************************************************************)
(* The stack.  An operator gives the stack it leaves and its error; what   *)
(* was popped before an error is gone.                                     *)
(***************************************************************************)
\* What an operator that has no result gives.
Undefined == <<[undefined |-> TRUE]>>

Ok(st) == [err |-> "none", st |-> st]
Fail(err, st) == [err |-> err, st |-> st]

Push(st, o) == IF Len(st) > StackLimit THEN Fail("overflow", st) ELSE Ok(Append(st, o))
Rest(st, n) == SubSeq(st, 1, Len(st) - n)
Top(st) == st[Len(st)]
Under(st) == st[Len(st) - 1]

\* One object popped, then f says what is pushed, << >> for a wrong type.
Unary(st, f(_)) ==
  IF st = << >> THEN Fail("underflow", st)
  ELSE IF f(Top(st)) = << >> THEN Fail("type", Rest(st, 1))
  ELSE Push(Rest(st, 1), f(Top(st))[1])

\* Both popped before they are looked at: f(below, above).
Binary(st, f(_, _)) ==
  IF Len(st) < 2 THEN Fail("underflow", << >>)
  ELSE LET r == f(Under(st), Top(st)) IN
       IF r = << >> THEN Fail("type", Rest(st, 2))
       ELSE IF r = Undefined THEN Fail("undefined", Rest(st, 2))
       ELSE Push(Rest(st, 2), r[1])

\* PopNumberAsFloat64, n times: the first that is no number ends it.
PopNumber(st) ==
  IF st = << >> THEN Fail("underflow", st)
  ELSE IF ~IsNumber(Top(st)) THEN Fail("type", Rest(st, 1)) ELSE Ok(Rest(st, 1))
OfFloat(st, f(_)) ==
  LET p == PopNumber(st) IN IF p.err # "none" THEN p ELSE f(Value(Top(st)))
OfFloats(st, f(_, _)) ==
  LET p == PopNumber(st)
      q == PopNumber(p.st)
  IN  IF p.err # "none" THEN p ELSE IF q.err # "none" THEN q ELSE f(Value(Top(p.st)), Value(Top(st)))

\* PopInteger.
PopInteger(st) ==
  IF st = << >> THEN Fail("underflow", st)
  ELSE IF ~IsInt(Top(st)) THEN Fail("type", Rest(st, 1)) ELSE Ok(Rest(st, 1))

(***************************************************************************)
(* Arithmetic.                                                             *)
(***************************************************************************)
\* An integer stays one; otherwise the real.
Kept(o, i(_), r(_)) ==
  IF IsInt(o) THEN <<Int32(i(o.int))>> ELSE IF IsReal(o) THEN <<Real(r(o.real))>> ELSE << >>
Same(v) == v

PsAbs(st) == Unary(st, LAMBDA o : Kept(o, Mag, LAMBDA f : <<Mag(f[1]), f[2]>>))
PsNeg(st) == Unary(st, LAMBDA o : Kept(o, LAMBDA i : -i, LAMBDA f : <<-f[1], f[2]>>))
PsCeiling(st) == Unary(st, LAMBDA o : Kept(o, Same, LAMBDA f : <<-Floor(<<-f[1], f[2]>>), 1>>))
PsFloor(st) == Unary(st, LAMBDA o : Kept(o, Same, LAMBDA f : <<Floor(f), 1>>))
PsRound(st) == Unary(st, LAMBDA o : Kept(o, Same, LAMBDA f : <<Floor(<<2 * f[1] + f[2], 2 * f[2]>>), 1>>))
PsTruncate(st) == Unary(st, LAMBDA o : Kept(o, Same, LAMBDA f : <<Truncated(f), 1>>))
PsCvi(st) == Unary(st, LAMBDA o : IF IsNumber(o) THEN <<Int32(Truncated(Value(o)))>> ELSE << >>)
PsCvr(st) == Unary(st, LAMBDA o : IF IsNumber(o) THEN <<Real(Value(o))>> ELSE << >>)

Numeric(a, b, i(_, _), r(_, _)) ==
  IF ~IsNumber(a) \/ ~IsNumber(b) THEN << >>
  ELSE IF IsInt(a) /\ IsInt(b) THEN <<Int32(i(a.int, b.int))>> ELSE <<Real(r(Value(a), Value(b)))>>

PsAdd(st) == Binary(st, LAMBDA a, b : Numeric(a, b, LAMBDA x, y : x + y,
                        LAMBDA f, g : <<f[1] * g[2] + g[1] * f[2], f[2] * g[2]>>))
PsSub(st) == Binary(st, LAMBDA a, b : Numeric(a, b, LAMBDA x, y : x - y,
                        LAMBDA f, g : <<f[1] * g[2] - g[1] * f[2], f[2] * g[2]>>))
PsMul(st) == Binary(st, LAMBDA a, b : Numeric(a, b, LAMBDA x, y : x * y,
                        LAMBDA f, g : <<f[1] * g[1], f[2] * g[2]>>))
PsDiv(st) == Binary(st, LAMBDA a, b :
             IF ~IsNumber(b) THEN << >> ELSE IF Value(b)[1] = 0 THEN Undefined
             ELSE IF ~IsNumber(a) THEN << >>
             ELSE <<Real(<<Value(a)[1] * Value(b)[2], Value(a)[2] * Value(b)[1]>>)>>)

\* Quotient and remainder of Go: towards zero, with the sign of the dividend.
Quotient(x, y) == IF (x < 0) = (y < 0) THEN Mag(x) \div Mag(y) ELSE -(Mag(x) \div Mag(y))
Integral(a, b, i(_, _)) ==
  IF ~IsInt(b) THEN << >> ELSE IF b.int = 0 THEN Undefined
  ELSE IF ~IsInt(a) THEN << >> ELSE <<Int32(i(a.int, b.int))>>
PsIdiv(st) == Binary(st, LAMBDA a, b : Integral(a, b, Quotient))
PsMod(st) == Binary(st, LAMBDA a, b : Integral(a, b, LAMBDA x, y : x - Quotient(x, y) * y))

\* Package math, of numbers: in degrees, with the cases the code singles out.
Computed(word, st) == OfFloat(st, LAMBDA f : Push(Rest(st, 1), Real(Math(word, <<f>>))))
PsSin(st) == Computed("sin", st)
PsCos(st) == Computed("cos", st)
PsLn(st) == Computed("ln", st)
PsLog(st) == Computed("log", st)
PsSqrt(st) == OfFloat(st, LAMBDA f : IF f[1] < 0 THEN Fail("range", Rest(st, 1))
                                   ELSE Push(Rest(st, 1), Real(Math("sqrt", <<f>>))))
PsExp(st) == OfFloats(st, LAMBDA base, e :
             IF Mag(e[1]) < e[2] /\ base[1] < 0 THEN Fail("undefined", Rest(st, 2))
             ELSE Push(Rest(st, 2), Real(Math("exp", <<base, e>>))))
PsAtan(st) == OfFloats(st, LAMBDA num, den :
              Push(Rest(st, 2),
                   IF den[1] = 0 THEN Real(<<IF num[1] < 0 THEN 270 ELSE 90, 1>>)
                   ELSE Real(Math("atan", <<Fraction(num[1] * den[2], num[2] * den[1])>>))))

(***************************************************************************)
(* Relations and logic.  Numbers nearer than the tolerance are equal: here *)
(* those that are.                                                         *)
(***************************************************************************)
Equal(a, b) ==
  IF IsBool(a) \/ IsBool(b) THEN <<Boolean(IsBool(a) /\ IsBool(b) /\ a = b)>>
  ELSE IF IsNumber(a) /\ IsNumber(b) THEN <<Boolean(Value(a) = Value(b))>> ELSE << >>
Truth(st, b) == Push(Rest(st, 2), Boolean(b))
PsEq(st) == Binary(st, Equal)
PsGe(st) == OfFloats(st, LAMBDA a, b : Truth(st, ~Less(a, b)))
PsGt(st) == OfFloats(st, LAMBDA a, b : Truth(st, Less(b, a)))
PsLe(st) == OfFloats(st, LAMBDA a, b : Truth(st, ~Less(b, a)))
PsLt(st) == OfFloats(st, LAMBDA a, b : Truth(st, Less(a, b)))

\* Bits of an integer, and the integer of bits.
Bits(v) == {i \in 0 .. Width - 1 : (v \div 2 ^ i) % 2 = 1}
OfBits(S) == Int32(FoldSet(LAMBDA i, n : n + 2 ^ i, 0, S))
Logical(a, b, l(_, _), s(_, _)) ==
  IF IsBool(a) /\ IsBool(b) THEN <<Boolean(l(a.bool, b.bool))>>
  ELSE IF IsInt(a) /\ IsInt(b) THEN <<OfBits(s(Bits(a.int), Bits(b.int)))>> ELSE << >>
PsAnd(st) == Binary(st, LAMBDA a, b : Logical(a, b, LAMBDA x, y : x /\ y, LAMBDA S, T : S \cap T))
PsOr(st) == Binary(st, LAMBDA a, b : Logical(a, b, LAMBDA x, y : x \/ y, LAMBDA S, T : S \cup T))
PsXor(st) == Binary(st, LAMBDA a, b : Logical(a, b, LAMBDA x, y : x # y, LAMBDA S, T : (S \ T) \cup (T \ S)))
PsNot(st) == Unary(st, LAMBDA o : IF IsBool(o) THEN <<Boolean(~o.bool)>>
                                ELSE IF IsInt(o) THEN <<OfBits((0 .. Width - 1) \ Bits(o.int))>> ELSE << >>)
PsNe(st) == LET e == PsEq(st) IN IF e.err # "none" THEN e ELSE PsNot(e.st)

PsBitshift(st) ==
  LET p == PopInteger(st)
      q == PopInteger(p.st)
      by == Top(st).int
      v == Top(p.st).int
  IN  IF p.err # "none" THEN p ELSE IF q.err # "none" THEN q
      ELSE Push(q.st, IF by >= 0 THEN Int32(IF by >= Width THEN 0 ELSE v * 2 ^ by) ELSE Int32(v \div 2 ^ (-by)))

(***************************************************************************)
(* The stack itself.                                                       *)
(***************************************************************************)
PsPop(st) == IF st = << >> THEN Fail("underflow", st) ELSE Ok(Rest(st, 1))
PsExch(st) ==
  IF Len(st) < 2 THEN Fail("underflow", << >>)
  ELSE LET p == Push(Rest(st, 2), Top(st)) IN IF p.err # "none" THEN p ELSE Push(p.st, Under(st))
PsDup(st) ==
  IF st = << >> THEN Fail("underflow", st)
  ELSE LET p == Push(Rest(st, 1), Top(st)) IN IF p.err # "none" THEN p ELSE Push(p.st, Top(st))

\* copy does not heed the limit of the stack.
PsCopy(st) ==
  LET p == PopInteger(st)
      n == Top(st).int
  IN  IF p.err # "none" THEN p
      ELSE IF n < 0 \/ n > Len(p.st) THEN Fail("range", p.st)
      ELSE Ok(p.st \o SubSeq(p.st, Len(p.st) - n + 1, Len(p.st)))

PsIndex(st) ==
  LET p == PopInteger(st)
      n == Top(st).int
  IN  IF p.err # "none" THEN p
      ELSE IF n < 0 THEN Fail("range", p.st)
      ELSE IF n > Len(p.st) - 1 THEN Fail("underflow", p.st)
      ELSE Push(p.st, p.st[Len(p.st) - n])

\* Mutant of Turned: the direction is the other one.
TurnedBack(sub, j) == IF j > 0 THEN Append(Tail(sub), Head(sub)) ELSE <<Last(sub)>> \o Front(sub)

\* One turn of the top elements: the topmost below the others, or back.
Turned(sub, j) == IF j > 0 THEN <<Last(sub)>> \o Front(sub) ELSE Append(Tail(sub), Head(sub))

PsRoll(st) ==
  IF Len(st) < 2 THEN Fail("underflow", << >>)
  ELSE IF ~IsInt(Top(st)) \/ ~IsInt(Under(st)) THEN Fail("type", Rest(st, 2))
  ELSE LET j == Top(st).int
           n == Under(st).int
           left == Rest(st, 2)
           turns[i \in Nat] ==
             IF i = 0 THEN SubSeq(left, Len(left) - n + 1, Len(left)) ELSE Turned(turns[i - 1], j)
       IN  IF n < 0 THEN Fail("range", left)
           ELSE IF n \in {0, 1} THEN Ok(left)
           ELSE IF n > Len(left) THEN Fail("underflow", left)
           ELSE Ok(Rest(left, n) \o turns[Mag(j)])

(***************************************************************************)
(* Programs.                                                               *)
(***************************************************************************)
RECURSIVE Exec(_, _)

ifCondition(st) ==
  IF Len(st) < 2 THEN Fail("underflow", << >>)
  ELSE IF ~IsProc(Top(st)) \/ ~IsBool(Under(st)) THEN Fail("type", Rest(st, 2))
  ELSE IF Under(st).bool THEN Exec(Top(st).proc, Rest(st, 2)) ELSE Ok(Rest(st, 2))

ifelse(st) ==
  IF Len(st) < 3 THEN Fail("underflow", << >>)
  ELSE LET left == Rest(st, 3)
           condition == st[Len(st) - 2]
       IN  IF ~IsProc(Top(st)) \/ ~IsProc(Under(st)) \/ ~IsBool(condition) THEN Fail("type", left)
           ELSE Exec(IF condition.bool THEN Under(st).proc ELSE Top(st).proc, left)

\* PSOperand.Exec.
ExecOperand(word, st) ==
  CASE word = "abs" -> PsAbs(st) [] word = "add" -> PsAdd(st) [] word = "and" -> PsAnd(st) [] word = "atan" -> PsAtan(st)
    [] word = "bitshift" -> PsBitshift(st) [] word = "ceiling" -> PsCeiling(st) [] word = "copy" -> PsCopy(st)
    [] word = "cos" -> PsCos(st) [] word = "cvi" -> PsCvi(st) [] word = "cvr" -> PsCvr(st) [] word = "div" -> PsDiv(st)
    [] word = "dup" -> PsDup(st) [] word = "eq" -> PsEq(st) [] word = "exch" -> PsExch(st) [] word = "exp" -> PsExp(st)
    [] word = "floor" -> PsFloor(st) [] word = "ge" -> PsGe(st) [] word = "gt" -> PsGt(st) [] word = "idiv" -> PsIdiv(st)
    [] word = "if" -> ifCondition(st) [] word = "ifelse" -> ifelse(st) [] word = "index" -> PsIndex(st)
    [] word = "le" -> PsLe(st) [] word = "log" -> PsLog(st) [] word = "ln" -> PsLn(st) [] word = "lt" -> PsLt(st)
    [] word = "mod" -> PsMod(st) [] word = "mul" -> PsMul(st) [] word = "ne" -> PsNe(st) [] word = "neg" -> PsNeg(st)
    [] word = "not" -> PsNot(st) [] word = "or" -> PsOr(st) [] word = "pop" -> PsPop(st) [] word = "round" -> PsRound(st)
    [] word = "roll" -> PsRoll(st) [] word = "sin" -> PsSin(st) [] word = "sqrt" -> PsSqrt(st) [] word = "sub" -> PsSub(st)
    [] word = "truncate" -> PsTruncate(st) [] word = "xor" -> PsXor(st)
    [] OTHER -> Fail("unsupported", st)

\* PSProgram.Exec.
Exec(program, st) ==
  FoldLeft(LAMBDA r, o : IF r.err # "none" THEN r
                         ELSE IF "op" \in DOMAIN o THEN ExecOperand(o.op, r.st) ELSE Push(r.st, o),
           Ok(st), program)

(***************************************************************************)
(* Text.                                                                   *)
(***************************************************************************)
Open == [brace |-> "{"]
Close == [brace |-> "}"]
\* What starts with a delimiter that the parser does not expect.
Stray == [brace |-> "other"]

\* PSReal.String has five decimals.
Decimals == 100000
Printed(f) == Fraction(Floor(<<2 * f[1] * Decimals + f[2], 2 * f[2]>>), Decimals)

RECURSIVE String(_), parseFunction(_, _)
String(program) ==
  <<Open>> \o FlattenSeq([i \in DOMAIN program |->
      LET o == program[i]
      IN  IF IsProc(o) THEN String(o.proc) ELSE IF IsReal(o) THEN <<Real(Printed(o.real))>> ELSE <<o>>])
    \o <<Close>>

\* The parser looks two bytes ahead: a last token of one byte is not seen.
OneByte(t) == "brace" \in DOMAIN t \/ (IsInt(t) /\ t.int \in 0 .. 9)
\* Mutant of AtEnd: it looks further ahead.
AtEndEarly(s) == Len(s) < 3

AtEnd(s) == s = << >> \/ (Len(s) = 1 /\ OneByte(s[1]))

\* After a brace: the objects up to the brace that closes, or the end.
parseFunction(s, objs) ==
  IF AtEnd(s) THEN [ok |-> TRUE, objs |-> objs, rest |-> s]
  ELSE LET t == Head(s) IN
       IF t = Close THEN [ok |-> TRUE, objs |-> objs, rest |-> Tail(s)]
       ELSE IF t = Stray THEN [ok |-> FALSE, objs |-> objs, rest |-> s]
       ELSE IF t = Open
       THEN LET inner == parseFunction(Tail(s), << >>)
            IN  IF inner.ok THEN parseFunction(inner.rest, Append(objs, Proc(inner.objs))) ELSE inner
       ELSE parseFunction(Tail(s), Append(objs, t))

\* Parse: what follows the function is not looked at.
Parse(s) ==
  IF Len(s) < 2 \/ s[1] # Open THEN [ok |-> FALSE, objs |-> << >>, rest |-> s] ELSE parseFunction(Tail(s), << >>)

(***************************************************************************)
(* A function of type 4 and its client.                                    *)
(***************************************************************************)
VARIABLE calc

CalcNone ==
  [step |-> "idle", program |-> << >>, data |-> << >>, stack |-> << >>, failed |-> FALSE,
   given |-> << >>, out |-> Ok(<< >>), times |-> 0, first |-> << >>, other |-> Ok(<< >>)]
CalcIdle == calc = CalcNone
CalcInit == CalcIdle

\* The client makes one of a program.
CreateFunction(p) ==
  /\ CalcIdle
  /\ calc' = [calc EXCEPT !.step = "held", !.program = p, !.first = p]

\* newPdfFunctionType4FromStream.
LoadFunction(s) ==
  /\ CalcIdle
  /\ calc' = IF Parse(s).ok
             THEN [calc EXCEPT !.step = "held", !.program = Parse(s).objs, !.first = Parse(s).objs, !.data = s]
             ELSE [calc EXCEPT !.step = "refused"]

\* Mutant of Execute: the stack is not emptied.
ExecuteKept(r) == r.st

\* PSExecutor.Execute: the arguments are pushed onto what there is, and the
\* stack is emptied after a success.
Pushed(st, args) == FoldLeft(LAMBDA s, f : IF Len(s) > StackLimit THEN s ELSE Append(s, Real(f)), st, args)
Execute(r) == IF r.err = "none" THEN << >> ELSE r.st

\* PdfFunctionType4.Evaluate, with the executor made the first time.
Evaluate(args) ==
  /\ calc.step = "held" /\ calc.times < MaxEvaluations
  /\ LET r == Exec(calc.program, Pushed(calc.stack, args))
     IN  calc' = [calc EXCEPT !.times = @ + 1, !.given = args, !.out = r, !.stack = Execute(r),
                              !.failed = @ \/ calc.out.err # "none"]

\* PdfFunctionType4.ToPdfObject: the text is made of the program once.
WriteFunction ==
  /\ calc.step = "held"
  /\ calc' = [calc EXCEPT !.data = IF @ = << >> THEN String(calc.program) ELSE @, !.step = "written"]

\* Another reader loads it.
ReadFunction ==
  /\ calc.step = "written"
  /\ calc' = [calc EXCEPT !.step = "held", !.program = Parse(calc.data).objs, !.stack = << >>,
                          !.times = 0, !.failed = FALSE, !.out = Ok(<< >>), !.given = << >>]

\* Two programs on the same operands.
Compare(c) ==
  /\ CalcIdle
  /\ calc' = [calc EXCEPT !.step = "compared", !.out = Exec(c.left, c.operands), !.other = Exec(c.right, c.operands)]

CalcNext ==
  \/ \E p \in Programs : CreateFunction(p)
  \/ \E s \in Texts : LoadFunction(s)
  \/ \E a \in Arguments : Evaluate(a)
  \/ WriteFunction \/ ReadFunction
  \/ \E c \in LawCases : Compare(c)

\* Programs the definitions of PostScript make equal leave the same on the
\* stack where both can be run: every operator is in one (operations.go).
LawsHold == calc.step = "compared" /\ calc.out.err = "none" /\ calc.other.err = "none" => calc.out = calc.other

\* A function gives for its arguments what its program does with them alone,
\* whatever it was evaluated for before, unless that failed: what a program that
\* failed leaves on the stack is still there (Execute).
EvaluatedAlone ==
  calc.times > 0 /\ ~calc.failed => calc.out = Exec(calc.program, Pushed(<< >>, calc.given))

\* A program with its reals as they are printed.
RECURSIVE ToDecimals(_)
ToDecimals(program) ==
  [i \in DOMAIN program |->
     LET o == program[i]
     IN  IF IsProc(o) THEN Proc(ToDecimals(o.proc)) ELSE IF IsReal(o) THEN Real(Printed(o.real)) ELSE o]

\* Written and read a function has the program it had: what String prints,
\* Parse reads, with every procedure in it and reals to five decimals; and a
\* program that was read is written as it was, even where Parse stopped early.
ProgramKept == calc.step = "held" => calc.program \in {calc.first, ToDecimals(calc.first)}

\* The calculator and the functions that run on it.
CalculatorSound == LawsHold /\ EvaluatedAlone /\ ProgramKept
=============================================================================
