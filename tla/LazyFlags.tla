----------------------------- MODULE LazyFlags -----------------------------
(***************************************************************************)
(* Sequences of guest instructions over the deferred flags of Primop, by   *)
(* the interpreter and by native code in turn, compared with what the x86  *)
(* architecture says.                                                      *)
(*                                                                         *)
(* The reference is arithmetic: an overflow is a result outside the range, *)
(* a shift or a rotation is the one-bit step repeated.  What a program can *)
(* see of the flags is UpdateFlags(emu): they are computed when read.      *)
(***************************************************************************)
EXTENDS Primop, Sequences, FiniteSets

CONSTANT Operands   \* Operands[k]: the operand pairs tried for instruction k

MaxRun == Len(Operands)   \* bound: instructions in one behaviour

VARIABLES
  emu,    \* the part of x64emu_t that Primop works on
  trap,   \* the last instruction raised a divide error
  ins     \* the instructions executed so far

vars == <<emu, trap, ins>>

Binary == {"add", "add64", "adc", "adc64", "sub", "sbb", "and", "or", "xor",
           "cmp", "test", "mul", "imul"}
Unary  == {"inc", "inc32", "dec", "neg"}
Shifts == {"shl", "shr", "sar", "rol", "ror", "rcl", "rcr"}
Double == {"shld", "shrd"}
Native == {"nadc", "nadc32b", "nadc64", "nsbb", "ncmp", "ntst", "nrol", "nror"}
Direct == {"clc", "stc", "cmc", "pushf", "popf", "sahf"}
Divide == {"div8", "div16", "div32", "div64", "idiv8", "idiv16", "idiv32", "idiv64"}
IsSigned(op) == op \in {"idiv8", "idiv16", "idiv32", "idiv64"}

(* The instructions of x64run.c that work on the flags themselves.  popf   *)
(* and sahf take every flag from bit 0 of the operand.                     *)
Carry(e, c) == [CheckFlags(e) EXCEPT !.fl.CF = c]
Popf(e, s) == [ResetFlags(e) EXCEPT !.fl = [f \in Flag |-> s % 2]]
Sahf(e, s) ==
  LET c == CheckFlags(e)
  IN [c EXCEPT !.fl = [f \in Flag |-> IF f = "OF" THEN c.fl.OF ELSE s % 2]]

Exec(op, e, d, s) ==
  CASE op = "add" -> Add(e, d, s)      [] op = "add64" -> Add64(e, d, s)
    [] op = "adc" -> Adc(e, d, s)      [] op = "adc64" -> Adc64(e, d, s)
    [] op = "sub" -> Sub(e, d, s)      [] op = "sbb" -> Sbb(e, d, s)
    [] op = "and" -> AndOp(e, d, s)    [] op = "or" -> OrOp(e, d, s)
    [] op = "xor" -> XorOp(e, d, s)    [] op = "cmp" -> Cmp(e, d, s)
    [] op = "test" -> Test(e, d, s)    [] op = "mul" -> Mul(e, d, s)
    [] op = "imul" -> Imul(e, d, s)    [] op = "inc" -> Inc(e, d)
    [] op = "inc32" -> Inc32(e, d)     [] op = "dec" -> Dec(e, d)
    [] op = "neg" -> Neg(e, d)         [] op = "shl" -> Shl(e, d, Count(s))
    [] op = "shr" -> Shr(e, d, Count(s))        [] op = "sar" -> Sar(e, d, Count(s))
    [] op = "rol" -> Rol(e, d, Count(s))        [] op = "ror" -> Ror(e, d, Count(s))
    [] op = "rcl" -> Rcl(e, d, Count(s))        [] op = "rcr" -> Rcr(e, d, Count(s))
    [] op = "shld" -> Shld(e, d, e.hi, s % W)   [] op = "shrd" -> Shrd(e, d, e.hi, s % W)
    [] op = "nadc" -> NativeAdc(e, d, s, "adc") [] op = "nadc32b" -> NativeAdc(e, d, s, "adc32b")
    [] op = "nadc64" -> NativeAdc(e, d, s, "adc64")
    [] op = "nsbb" -> NativeSbb(e, d, s)        [] op = "ncmp" -> NativeCmp(e, d, s)
    [] op = "ntst" -> NativeTst(e, d, s)        [] op = "nrol" -> NativeRol(e, d, s % W)
    [] op = "nror" -> NativeRor(e, d, s % W)    [] op = "clc" -> Carry(e, 0)
    [] op = "stc" -> Carry(e, 1)                [] op = "cmc" -> Carry(e, 1 - UpdateFlags(e).CF)
    [] op = "pushf" -> CheckFlags(e)            [] op = "popf" -> Popf(e, s)
    [] op = "sahf" -> Sahf(e, s)

Init ==
  /\ \E cf \in {0, 1}, hi \in {1, 2^(W - 1), 2^W - 1} :
       emu = [df |-> "none", op1 |-> 0, op2 |-> 0, res |-> 0, out |-> 0, hi |-> hi,
              fl |-> [f \in Flag |-> IF f = "CF" THEN cf ELSE 0]]
  /\ trap = FALSE
  /\ ins = << >>

Step(op, d, s) ==
  /\ emu' = Exec(op, emu, d, s)
  /\ trap' = FALSE
  /\ ins' = Append(ins, [op |-> op, d |-> d, s |-> s])

(* A division works on hi:d and leaves the flags undefined.                *)
DivStep(op, d, s) ==
  \E q \in Answers(op, emu.hi, d, s) :
    /\ trap' = q.trap
    /\ emu' = Divided(op, emu, q)
    /\ ins' = Append(ins, [op |-> op, d |-> d, s |-> s])

Pairs == Operands[Len(ins) + 1]
Interpret ==
  \E op \in Binary \cup Unary \cup Shifts \cup Double, p \in Pairs : Step(op, p[1], p[2])
RunNative == \E op \in Native, p \in Pairs : Step(op, p[1], p[2])
OnFlags == \E op \in Direct, s \in {0, 1} : Step(op, 0, s)
Division == \E op \in Divide, p \in Pairs : DivStep(op, p[1], p[2])

Next == Len(ins) < MaxRun /\ (Interpret \/ RunNative \/ OnFlags \/ Division)
Spec == Init /\ [][Next]_vars

-----------------------------------------------------------------------------
(* The reference.                                                          *)
RefZSP(f, r) ==
  [f EXCEPT !.ZF = IF r = 0 THEN 1 ELSE 0,
            !.SF = IF r >= 2^(W - 1) THEN 1 ELSE 0,
            !.PF = (Cardinality({i \in 0 .. 7 : Bit(r, i) = 1}) + 1) % 2]

(* d + sign * (s + c): the range decides CF, OF and AF.                    *)
RefSum(f, d, s, c, sign) ==
  LET u == d + sign * (s + c)
      v == Signed(d) + sign * (Signed(s) + c)
      n == (d % 16) + sign * ((s % 16) + c)
      g == RefZSP(f, u % 2^W)
  IN [out |-> u % 2^W,
      fl |-> [g EXCEPT !.CF = Bool(u \notin Word),
                       !.OF = Bool(v \notin -(2^(W - 1)) .. 2^(W - 1) - 1),
                       !.AF = Bool(n \notin 0 .. 15)]]
KeepCF(f, r) == [r EXCEPT !.fl.CF = f.CF]

(* One bit of a shift or of a rotation; v is the value and c the carry.    *)
OneBit(op, x) ==
  LET up == (2 * x.v) % 2^W   down == x.v \div 2   top == 2^(W - 1) * Msb(x.v)
  IN CASE op = "shl" -> [v |-> up, c |-> Msb(x.v)]
       [] op = "shr" -> [v |-> down, c |-> x.v % 2]
       [] op = "sar" -> [v |-> down + top, c |-> x.v % 2]
       [] op = "rol" -> [v |-> up + Msb(x.v), c |-> Msb(x.v)]
       [] op = "ror" -> [v |-> down + 2^(W - 1) * (x.v % 2), c |-> x.v % 2]
       [] op = "rcl" -> [v |-> up + x.c, c |-> Msb(x.v)]
       [] op = "rcr" -> [v |-> down + 2^(W - 1) * x.c, c |-> x.v % 2]
Repeat(op, x, n) ==
  LET after[k \in 0 .. n] == IF k = 0 THEN x ELSE OneBit(op, after[k - 1]) IN after[n]

(* A single bit sets OF when the sign changes; a count of 0 nothing.       *)
RefShift(op, f, d, n) ==
  LET x == Repeat(op, [v |-> d, c |-> f.CF], n)
      g == [IF op \in {"shl", "shr", "sar"} THEN RefZSP(f, x.v) ELSE f
              EXCEPT !.CF = x.c, !.OF = Bool(Msb(x.v) # Msb(d))]
  IN [out |-> x.v, fl |-> IF n = 0 THEN f ELSE g]

(* shld: the operand is the upper half of a shift of twice the width.      *)
RefDouble(op, f, d, fill, n) ==
  LET w == IF op = "shld" THEN d * 2^W + fill ELSE fill * 2^W + d
      r == IF op = "shld" THEN ((w * 2^n) \div 2^W) % 2^W ELSE (w \div 2^n) % 2^W
      c == IF op = "shld" THEN Bit(w, 2 * W - n) ELSE Bit(w, n - 1)
  IN [out |-> r, fl |-> IF n = 0 THEN f
                        ELSE [RefZSP(f, r) EXCEPT !.CF = c, !.OF = Bool(Msb(r) # Msb(d))]]

Logical(f, r) == [out |-> r, fl |-> [RefZSP(f, r) EXCEPT !.CF = 0, !.OF = 0]]
RefProduct(f, p, fits) ==
  [out |-> p % 2^W, fl |-> [f EXCEPT !.CF = Bool(~fits), !.OF = Bool(~fits)]]

Ref(op, f, e, d, s) ==
  CASE op \in {"add", "add64"} -> RefSum(f, d, s, 0, 1)
    [] op \in {"adc", "adc64", "nadc", "nadc32b", "nadc64"} -> RefSum(f, d, s, f.CF, 1)
    [] op = "sub" -> RefSum(f, d, s, 0, -1)
    [] op \in {"sbb", "nsbb"} -> RefSum(f, d, s, f.CF, -1)
    [] op \in {"cmp", "ncmp"} -> [RefSum(f, d, s, 0, -1) EXCEPT !.out = d]
    [] op = "neg" -> RefSum(f, 0, d, 0, -1)
    [] op \in {"inc", "inc32"} -> KeepCF(f, RefSum(f, d, 1, 0, 1))
    [] op = "dec" -> KeepCF(f, RefSum(f, d, 1, 0, -1))
    [] op = "and" -> Logical(f, d & s)
    [] op \in {"test", "ntst"} -> [Logical(f, d & s) EXCEPT !.out = d]
    [] op = "or" -> Logical(f, d | s)
    [] op = "xor" -> Logical(f, d ^^ s)
    [] op = "mul" -> RefProduct(f, d * s, d * s \in Word)
    [] op = "imul" -> LET p == Signed(d) * Signed(s)
                      IN RefProduct(f, p, p \in -(2^(W - 1)) .. 2^(W - 1) - 1)
    [] op \in Shifts -> RefShift(op, f, d, Count(s))
    [] op = "nrol" -> RefShift("rol", f, d, s % W)
    [] op = "nror" -> RefShift("ror", f, d, s % W)
    [] op \in Double -> RefDouble(op, f, d, e.hi, s % W)
    [] op = "clc" -> [out |-> e.out, fl |-> [f EXCEPT !.CF = 0]]
    [] op = "stc" -> [out |-> e.out, fl |-> [f EXCEPT !.CF = 1]]
    [] op = "cmc" -> [out |-> e.out, fl |-> [f EXCEPT !.CF = 1 - f.CF]]
    [] op = "pushf" -> [out |-> e.out, fl |-> f]
    [] op = "popf" -> [out |-> e.out, fl |-> [x \in Flag |-> s]]
    [] op = "sahf" -> [out |-> e.out, fl |-> [x \in Flag |-> IF x = "OF" THEN f.OF ELSE s]]

(* What the architecture leaves undefined.                                 *)
CountOf(op, s) == IF op \in Shifts THEN Count(s) ELSE s % W
Undefined(op, s) ==
  CASE op \in {"and", "or", "xor", "test", "ntst"} -> {"AF"}
    [] op \in {"mul", "imul"} -> {"ZF", "SF", "PF", "AF"}
    [] op \in {"rol", "ror", "rcl", "rcr", "nrol", "nror"} /\ CountOf(op, s) > 1 -> {"OF"}
    [] op \in {"shl", "shr"} /\ Count(s) >= W -> {"OF", "AF", "CF"}
    [] op \in {"shl", "shr", "sar"} \cup Double /\ CountOf(op, s) > 1 -> {"OF", "AF"}
    [] op \in {"shl", "shr", "sar"} \cup Double /\ CountOf(op, s) = 1 -> {"AF"}
    [] op \in Divide -> Flag
    [] OTHER -> {}

(* Where the code keeps another flag than the architecture (README,        *)
(* section 5): the carry an inc or dec keeps when flags are pending, the   *)
(* flags a shift by 0 keeps, OF of sar by 1 and CF of d_adc64.             *)
Pending(e) == e.df # "none"
NotKept(op, e, s) ==
  CASE op \in {"inc", "dec"} /\ Pending(e) -> {"CF"}
    [] op = "inc32" /\ Pending(e) /\ ~(e.df = "shr" /\ e.op2 > 0 /\ e.op2 < W) -> {"CF"}
    [] op \in {"shl", "shr", "sar"} \cup Double /\ CountOf(op, s) = 0 ->
         IF Pending(e) THEN Flag ELSE {"OF"}
    [] op = "sar" /\ Count(s) = 1 -> {"OF"}
    [] op = "nadc64" -> {"CF"}
    [] op \in {"nrol", "nror"} /\ CountOf(op, s) = 0 -> {"CF"}
    [] OTHER -> {}

-----------------------------------------------------------------------------
(* Type invariant.                                                         *)
TypeOK ==
  /\ emu.df \in {"none", "add", "add64", "adc", "adc32b", "adc64", "and", "or", "xor", "tst",
                 "dec", "inc", "mul", "imul", "neg", "sub", "cmp", "sbb", "shl", "sar", "shr",
                 "rol", "ror"}
  /\ emu.op1 \in Word /\ emu.op2 \in Word /\ emu.res \in 0 .. 2^(W + 1) - 1
  /\ emu.out \in Word /\ emu.hi \in Word
  /\ emu.fl \in [Flag -> {0, 1}]
  /\ trap \in BOOLEAN

LastIns == ins'[Len(ins')]

(* Whoever executed the instruction, and whatever was pending before it,   *)
(* every flag the architecture defines has its value when it is next read: *)
(* the deferred computation sees the operands of the right instruction,    *)
(* and the flags an instruction keeps are those of the one before.         *)
FlagsRight ==
  [][\A f \in Flag \ (Undefined(LastIns.op, LastIns.s) \cup NotKept(LastIns.op, emu, LastIns.s)) :
       UpdateFlags(emu')[f] = Ref(LastIns.op, UpdateFlags(emu), emu, LastIns.d, LastIns.s).fl[f]
    ]_vars

(* The result of an instruction that depends on the flags, and of the      *)
(* rotations and double shifts, is the architecture's.                     *)
OtherResult ==
     LastIns.op \notin Divide =>
       /\ emu'.out = Ref(LastIns.op, UpdateFlags(emu), emu, LastIns.d, LastIns.s).out
       /\ LastIns.op = "mul" => emu'.hi * 2^W + emu'.out = LastIns.d * LastIns.s
       /\ LastIns.op = "imul" =>
            Signed(emu'.hi) * 2^W + emu'.out = Signed(LastIns.d) * Signed(LastIns.s)

(* The divisions the wide forms answer where the architecture traps        *)
(* (README, section 5): div64 by 1 of a dividend whose sign bit is set,    *)
(* and the smallest dividend by 1 or -1 in idiv16 and idiv32.              *)
LimitLost(op, dvd, dvs) ==
  \/ op = "div64" /\ dvd >= 2^(2 * W - 1) /\ dvs = 1
  \/ op \in {"idiv16", "idiv32"} /\ dvd = -(2^(2 * W - 1)) /\ dvs \in {1, -1}

(* A division traps exactly when the quotient does not fit (or is the      *)
(* smallest negative number, which idiv refuses too), and otherwise        *)
(* quotient and remainder satisfy the equation of the division with a      *)
(* remainder of the sign of the dividend.                                  *)
DivideResult ==
     LastIns.op \in Divide =>
       LET signed == IsSigned(LastIns.op)
           Val(x) == IF signed THEN Signed(x) ELSE x
           dvd == Val(emu.hi) * 2^W + LastIns.d
           dvs == Val(LastIns.s)
           max == IF signed THEN 2^(W - 1) - 1 ELSE 2^W - 1
       IN ~LimitLost(LastIns.op, dvd, dvs) =>
          IF trap'
          THEN dvs = 0 \/ (max + 1) * Abs(dvs) <= Abs(dvd)
          ELSE LET q == Val(emu'.out) m == Val(emu'.hi)
               IN /\ q * dvs + m = dvd
                  /\ Abs(m) < Abs(dvs)
                  /\ m # 0 => (m < 0 <=> dvd < 0)

(* Every instruction leaves the result of the architecture, in its types,  *)
(* whatever instruction before it left its flags pending.                  *)
ResultRight == [][TypeOK' /\ OtherResult /\ DivideResult]_vars
=============================================================================
