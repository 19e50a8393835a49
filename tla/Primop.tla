------------------------------- MODULE Primop -------------------------------
(***************************************************************************)
(* The arithmetic of the interpreter (src/emu/x64primop.c and .h) and its  *)
(* deferred flags (UpdateFlags, src/emu/x64run_private.c).                 *)
(*                                                                         *)
(* Most instructions only remember what they did (df, op1, op2, res);      *)
(* CHECK_FLAGS computes the flags from that when somebody asks for them.   *)
(* The code has each function four times, for 8, 16, 32 and 64 bits: here  *)
(* the width is the constant W.  Where the forms differ by more than their *)
(* constants, the one that differs has a name of its own ("add64"), scaled *)
(* to W.  No two widths divide alike: each form of div and idiv is kept.   *)
(*                                                                         *)
(* An emulator state e is a record: df, op1, op2, res, the six flags fl,   *)
(* the result out of the last instruction and its upper half hi.           *)
(***************************************************************************)
EXTENDS Integers, Bitwise

CONSTANT W   \* width of an operand in bits

ASSUME WidthAssumption == W \in 8 .. 16 /\ W % 4 = 0

Word == 0 .. 2^W - 1
Half == W \div 2
Flag == {"CF", "PF", "AF", "ZF", "SF", "OF"}

Bit(x, i) == (x \div 2^i) % 2
Msb(x) == Bit(x, W - 1)
Flip(x) == 2^W - 1 - x
Bool(b) == IF b THEN 1 ELSE 0
Signed(x) == IF x >= 2^(W - 1) THEN x - 2^W ELSE x

(* PARITY of the low byte.                                                 *)
Parity(x) ==
  Bool((Bit(x, 0) + Bit(x, 1) + Bit(x, 2) + Bit(x, 3)
        + Bit(x, 4) + Bit(x, 5) + Bit(x, 6) + Bit(x, 7)) % 2 = 0)

(* The carry and borrow chains of the note at the top of x64primop.c.      *)
CarryChain(d, s, r) == (s & d) | (Flip(r) & (s | d))
BorrowChain(d, s, r) == (r & (Flip(d) | s)) | (Flip(d) & s)
Xor2(x) == (Bit(x, 0) + Bit(x, 1)) % 2
TopTwo(c) == Xor2(c \div 2^(W - 2))

(* ZF, SF and PF of a result.                                              *)
ZSP(f, r) == [f EXCEPT !.ZF = Bool(r = 0), !.SF = Msb(r), !.PF = Parity(r)]
(* OF and AF of a chain.                                                   *)
OA(f, c) == [f EXCEPT !.OF = TopTwo(c), !.AF = Bit(c, 3)]

-----------------------------------------------------------------------------
(* UpdateFlags, one operator per kind of deferred instruction.             *)
Lo(e) == e.res % 2^W

FlagsAdd(e) ==
  [OA(ZSP(e.fl, Lo(e)), CarryChain(e.op1, e.op2, Lo(e))) EXCEPT !.CF = Bit(e.res, W)]

(* The carry of the sum of the upper halves, c being the carry into the    *)
(* lower ones.                                                             *)
HalfCarry(d, s, c) ==
  LET lo == c + (d % 2^Half) + (s % 2^Half) IN (lo \div 2^Half) + (d \div 2^Half) + (s \div 2^Half)
FlagsAddHalves(e) ==
  [OA(ZSP(e.fl, e.res), CarryChain(e.op1, e.op2, e.res))
     EXCEPT !.CF = Bit(HalfCarry(e.op1, e.op2, 0), Half)]

(* d_adc32b and d_adc64 find the carry that went in by comparing.  d_adc64 *)
(* tests bit 48 of the upper half, which has 33 bits.                      *)
CarryWentIn(e) == Bool(e.res # (e.op1 + e.op2) % 2^W)
FlagsAdcHalves(e, bit) ==
  [OA(ZSP(e.fl, e.res), CarryChain(e.op1, e.op2, e.res))
     EXCEPT !.CF = Bit(HalfCarry(e.op1, e.op2, CarryWentIn(e)), bit)]

FlagsLogic(e) == [ZSP(e.fl, e.res) EXCEPT !.OF = 0, !.CF = 0, !.AF = 0]
FlagsTest(e) == [ZSP(e.fl, e.res) EXCEPT !.OF = 0, !.CF = 0]

FlagsDec(e) ==
  OA(ZSP(e.fl, e.res), (e.res & (Flip(e.op1) | 1)) | (Flip(e.op1) & 1))
FlagsInc(e) ==
  OA(ZSP(e.fl, e.res), (1 & e.op1) | (Flip(e.res) & (1 | e.op1)))

(* The lower half of a product is in res, the upper one in op1.            *)
FlagsMul(e, fits) ==
  [e.fl EXCEPT !.CF = Bool(~fits), !.OF = Bool(~fits), !.PF = Parity(e.res)]

FlagsNeg(e) ==
  [OA(ZSP(e.fl, e.res), e.res | e.op1) EXCEPT !.CF = Bool(e.op1 # 0)]

(* sub, cmp and sbb                                                        *)
FlagsSub(e) ==
  LET bc == BorrowChain(e.op1, e.op2, e.res)
  IN [OA(ZSP(e.fl, e.res), bc) EXCEPT !.CF = Msb(bc)]

(* A count of 0 leaves the flags, but shl clears OF.                       *)
FlagsShl(e) ==
  IF e.op2 < W
  THEN LET f == IF e.op2 = 0 THEN e.fl
                ELSE [ZSP(e.fl, e.res) EXCEPT !.CF = Bit(e.op1, W - e.op2)]
       IN [f EXCEPT !.OF = IF e.op2 = 1 THEN (Msb(e.res) + f.CF) % 2 ELSE 0]
  ELSE [e.fl EXCEPT !.CF = Bool(e.op2 = W /\ Bit(e.op1, 0) = 1),
                    !.OF = 0, !.SF = 0, !.PF = 1, !.ZF = 1]

FlagsSar(e) ==
  IF e.op2 = 0 THEN e.fl
  ELSE IF e.op2 < W THEN [ZSP(e.fl, e.res) EXCEPT !.CF = Bit(e.op1, e.op2 - 1)]
  ELSE [e.fl EXCEPT !.CF = Msb(e.op1), !.SF = Msb(e.op1), !.ZF = 1 - Msb(e.op1), !.PF = 1]

(* shr8 computes CF for a count of W and more, the others clear it.        *)
FlagsShr(e) ==
  IF e.op2 < W
  THEN LET f == IF e.op2 = 0 THEN e.fl
                ELSE [ZSP(e.fl, e.res) EXCEPT !.CF = Bit(e.op1, e.op2 - 1)]
       IN IF e.op2 = 1 THEN [f EXCEPT !.OF = TopTwo(e.res)] ELSE f
  ELSE [e.fl EXCEPT !.CF = IF W = 8 THEN Bit(e.op1, e.op2 - 1) ELSE 0,
                    !.SF = 0, !.PF = 1, !.ZF = 1]

(* d_rol and d_ror, which only native code defers.                         *)
FlagsRol(e) ==
  LET f == [e.fl EXCEPT !.CF = Bit(e.res, 0)]
  IN IF e.op2 = 1 THEN [f EXCEPT !.OF = (e.res + Msb(e.res)) % 2] ELSE f
FlagsRor(e) ==
  LET f == [e.fl EXCEPT !.CF = Msb(e.res)]
  IN IF e.op2 = 1 THEN [f EXCEPT !.OF = TopTwo(e.res)] ELSE f

UpdateFlags(e) ==
  CASE e.df = "none" -> e.fl
    [] e.df \in {"add", "adc"} -> FlagsAdd(e)
    [] e.df = "add64" -> FlagsAddHalves(e)
    [] e.df = "adc32b" -> FlagsAdcHalves(e, Half)
    [] e.df = "adc64" -> FlagsAdcHalves(e, Half + W \div 4)
    [] e.df \in {"and", "or", "xor"} -> FlagsLogic(e)
    [] e.df = "tst" -> FlagsTest(e)
    [] e.df = "dec" -> FlagsDec(e)
    [] e.df = "inc" -> FlagsInc(e)
    [] e.df = "mul" -> FlagsMul(e, e.op1 = 0)
    [] e.df = "imul" -> FlagsMul(e, e.op1 = IF Msb(e.res) = 0 THEN 0 ELSE 2^W - 1)
    [] e.df = "neg" -> FlagsNeg(e)
    [] e.df \in {"sub", "cmp", "sbb"} -> FlagsSub(e)
    [] e.df = "shl" -> FlagsShl(e)
    [] e.df = "sar" -> FlagsSar(e)
    [] e.df = "shr" -> FlagsShr(e)
    [] e.df = "rol" -> FlagsRol(e)
    [] e.df = "ror" -> FlagsRor(e)

ResetFlags(e) == [e EXCEPT !.df = "none"]
(* Mutant of CheckFlags: the pending instruction is not forgotten, its     *)
(* flags are computed again over later ones.                               *)
CheckFlagsKeeps(e) == [e EXCEPT !.fl = UpdateFlags(e)]
CheckFlags(e) == [e EXCEPT !.fl = UpdateFlags(e), !.df = "none"]

-----------------------------------------------------------------------------
(* The instructions that defer their flags.                                *)
Defer(e, df, op1, op2, res) ==
  [e EXCEPT !.df = df, !.op1 = op1, !.op2 = op2, !.res = res, !.out = res % 2^W]

Add(e, d, s)   == Defer(e, "add", d, s, d + s)
Add64(e, d, s) == Defer(e, "add64", d, s, (d + s) % 2^W)
AndOp(e, d, s)   == Defer(e, "and", e.op1, e.op2, d & s)
OrOp(e, d, s)    == Defer(e, "or", e.op1, e.op2, d | s)
XorOp(e, d, s)   == Defer(e, "xor", e.op1, e.op2, d ^^ s)
Dec(e, d)      == Defer(e, "dec", d, e.op2, (d - 1) % 2^W)
Inc(e, d)      == Defer(e, "inc", d, e.op2, (d + 1) % 2^W)
Neg(e, d)      == Defer(e, "neg", d, e.op2, (-d) % 2^W)
Sub(e, d, s)   == Defer(e, "sub", d, s, (d - s) % 2^W)

(* inc32 and inc64 rescue the carry of a pending shr ("workaround for some *)
(* wine trickery").                                                        *)
Inc32(e, d) ==
  LET r == IF e.df = "shr" /\ e.op2 > 0 THEN [e EXCEPT !.fl.CF = Bit(e.op1, e.op2 - 1)] ELSE e
  IN Inc(r, d)

(* 8, 16 and 32 bits mask the count with 31 (and 64 bits with 63): in the  *)
(* 8 and 16 bit forms the count may exceed the width.                      *)
Count(s) == s % 32

(* Beyond the width a count shifts everything out.                         *)
Pow(c) == 2^(IF c > W THEN W ELSE c)
Shl(e, d, c) == Defer(e, "shl", d, c, (d * Pow(c)) % 2^W)
Shr(e, d, c) == Defer(e, "shr", d, c, d \div Pow(c))
Sar(e, d, c) == Defer(e, "sar", d, c, (Signed(d) \div Pow(c)) % 2^W)

Product(e, df, p) ==
  LET hi == (p \div 2^W) % 2^W
  IN [Defer(e, df, hi, e.op2, p % 2^W) EXCEPT !.hi = hi]
Mul(e, d, s) == Product(e, "mul", d * s)
Imul(e, d, s) == Product(e, "imul", Signed(d) * Signed(s))

-----------------------------------------------------------------------------
(* The instructions that set their flags at once.                          *)
Out(e, r) == [e EXCEPT !.out = r]

(* Mutant of Adc: the carry is read before the pending flags are computed. *)
AdcStaleCarry(e, d, s) ==
  LET c == CheckFlags(e)
      r == d + s + e.fl.CF
  IN Out([c EXCEPT !.fl = [OA(ZSP(c.fl, r % 2^W), CarryChain(d, s, r % 2^W))
                             EXCEPT !.CF = Bit(r, W)]], r % 2^W)
Adc(e, d, s) ==
  LET c == CheckFlags(e)
      r == d + s + c.fl.CF
  IN Out([c EXCEPT !.fl = [OA(ZSP(c.fl, r % 2^W), CarryChain(d, s, r % 2^W))
                             EXCEPT !.CF = Bit(r, W)]], r % 2^W)
(* adc32 and adc64 take the carry from the halves.                         *)
Adc64(e, d, s) ==
  LET c == CheckFlags(e)
      r == (d + s + c.fl.CF) % 2^W
  IN Out([c EXCEPT !.fl = [OA(ZSP(c.fl, r), CarryChain(d, s, r))
                             EXCEPT !.CF = Bit(HalfCarry(d, s, c.fl.CF), Half)]], r)

Borrow(e, d, s, r) ==
  LET bc == BorrowChain(d, s, r)
  IN [e EXCEPT !.fl = [OA(ZSP(e.fl, r), bc) EXCEPT !.CF = Msb(bc)]]
Sbb(e, d, s) ==
  LET c == CheckFlags(e)
      r == (d - s - c.fl.CF) % 2^W
  IN Out(Borrow(c, d, s, r), r)
Cmp(e, d, s) == Out(Borrow(ResetFlags(e), d, s, (d - s) % 2^W), d)
Test(e, d, s) ==
  LET r == d & s
  IN [ResetFlags(e) EXCEPT !.fl = [ZSP(e.fl, r) EXCEPT !.OF = 0, !.CF = 0], !.out = d]

(* Rotate through the carry: the count is taken modulo W + 1.              *)
Rcl(e, d, c) ==
  LET k == CheckFlags(e)
      n == c % (W + 1)
      cf == Bit(d, W - n)
      r == ((d * 2^n) % 2^W) + ((d \div 2^(W + 1 - n)) % 2^(n - 1)) + k.fl.CF * 2^(n - 1)
  IN IF n = 0 THEN Out(k, d)
     ELSE Out([k EXCEPT !.fl.CF = cf, !.fl.OF = Bool(n = 1 /\ cf # Msb(r))], r)
Rcr(e, d, c) ==
  LET k == CheckFlags(e)
      n == c % (W + 1)
      r == (d \div 2^n) + ((d * 2^(W + 1 - n)) % 2^W) + k.fl.CF * 2^(W - n)
      f == [k.fl EXCEPT !.CF = Bit(d, n - 1)]
  IN IF n = 0 THEN Out(k, d)
     ELSE Out([k EXCEPT !.fl = IF n = 1 THEN [f EXCEPT !.OF = (k.fl.CF + Msb(d)) % 2] ELSE f],
              r % 2^W)

(* rol and ror leave everything alone, the pending flags too, when the     *)
(* masked count is 0.                                                      *)
Rol(e, d, c) ==
  LET n == c % W
      r == ((d * 2^n) % 2^W) + (d \div 2^(W - n))
      k == CheckFlags(e)
      o == IF c = 1 THEN [k.fl EXCEPT !.OF = (r + Msb(r)) % 2] ELSE k.fl
  IN IF c = 0 THEN Out(e, d) ELSE Out([k EXCEPT !.fl = [o EXCEPT !.CF = r % 2]], r)
Ror(e, d, c) ==
  LET n == c % W
      r == IF n = 0 THEN d ELSE ((d * 2^(W - n)) % 2^W) + (d \div 2^n)
      k == CheckFlags(e)
      o == IF c = 1 THEN [k.fl EXCEPT !.OF = TopTwo(r)] ELSE k.fl
  IN IF c = 0 THEN Out(e, d) ELSE Out([k EXCEPT !.fl = [o EXCEPT !.CF = Msb(r)]], r)

(* shld32 and shld64, shrd32 and shrd64: the count is below W.             *)
Shld(e, d, fill, c) ==
  LET r == ((d * 2^c) % 2^W) + (fill \div 2^(W - c))
      f == IF c = 0 THEN e.fl ELSE [ZSP(e.fl, r) EXCEPT !.CF = Bit(d, W - c)]
  IN Out([ResetFlags(e) EXCEPT
            !.fl = [f EXCEPT !.OF = IF c = 1 THEN (Msb(r) + f.CF) % 2 ELSE 0]], r)
Shrd(e, d, fill, c) ==
  LET r == (d \div 2^c) + (IF c = 0 THEN 0 ELSE (fill * 2^(W - c)) % 2^W)
      f == IF c = 0 THEN e.fl ELSE [ZSP(e.fl, r) EXCEPT !.CF = Bit(d, c - 1)]
  IN Out([ResetFlags(e) EXCEPT !.fl = [f EXCEPT !.OF = IF c = 1 THEN TopTwo(r) ELSE 0]], r)

(* Native code (src/dynarec/arm64) defers some instructions the            *)
(* interpreter does not.  adc and sbb read the pending flags first, as rol *)
(* and ror do for the flags they keep.                                     *)
NativeAdc(e, d, s, df) ==
  LET c == CheckFlags(e) r == d + s + c.fl.CF
  IN Defer(c, df, d, s, IF df = "adc" THEN r ELSE r % 2^W)
NativeSbb(e, d, s) ==
  LET c == CheckFlags(e) IN Defer(c, "sbb", d, s, (d - s - c.fl.CF) % 2^W)
NativeCmp(e, d, s) == Out(Defer(e, "cmp", d, s, (d - s) % 2^W), d)
NativeTst(e, d, s) == Out(Defer(e, "tst", e.op1, e.op2, d & s), d)
NativeRol(e, d, c) == Defer(CheckFlags(e), "rol", e.op1, c, Rol(e, d, c).out)
NativeRor(e, d, c) == Defer(CheckFlags(e), "ror", e.op1, c, Ror(e, d, c).out)

-----------------------------------------------------------------------------
(* Division of hi:lo by s, rounding towards zero.  A trap is               *)
(* INTR_RAISE_DIV0: it leaves the registers alone.                         *)
Trap == [trap |-> TRUE, quot |-> 0, mod |-> 0]
Answer(q, m) == [trap |-> FALSE, quot |-> q, mod |-> m]

(* div8, div16 and div32 compare unsigned temporaries.                     *)
Div(hi, lo, s) ==
  LET dvd == hi * 2^W + lo IN
  IF s = 0 THEN Trap
  ELSE IF dvd \div s > 2^W - 1 THEN Trap ELSE Answer(dvd \div s, dvd % s)

(* div64 divides unsigned, but keeps the quotient in a signed __int128:    *)
(* one of 2^(2W-1) and more is negative there, and passes the test.        *)
AsSigned(x) == IF x >= 2^(2 * W - 1) THEN x - 2^(2 * W) ELSE x
Div64(hi, lo, s) ==
  LET dvd == hi * 2^W + lo IN
  IF s = 0 THEN Trap
  ELSE IF AsSigned(dvd \div s) > 2^W - 1 THEN Trap ELSE Answer(dvd \div s, dvd % s)

Abs(x) == IF x < 0 THEN -x ELSE x
Sign(x) == IF x < 0 THEN -1 ELSE 1
(* abs(quot) > 0x7f traps: -0x80 does so too.                              *)
IdivFits(q) == Abs(q) <= 2^(W - 1) - 1

(* idiv8, whose temporaries have room to spare, and idiv64, which compares *)
(* with both limits.                                                       *)
Idiv(hi, lo, s) ==
  LET dvd == Signed(hi) * 2^W + lo
      q   == Sign(dvd) * Sign(Signed(s)) * (Abs(dvd) \div Abs(Signed(s)))
      m   == Sign(dvd) * (Abs(dvd) % Abs(Signed(s)))
  IN IF s = 0 THEN Trap
     ELSE IF ~IdivFits(q) THEN Trap ELSE Answer(q, m)

(* idiv16 and idiv32 take abs and labs of a quotient as wide as the        *)
(* dividend: for the smallest dividend by 1 or -1 that is undefined.  It   *)
(* traps, or the quotient stays negative and passes the test.              *)
IdivAbs(hi, lo, s) ==
  LET least == -(2^(2 * W - 1)) IN
  {Idiv(hi, lo, s)} \cup
    (IF Signed(hi) * 2^W + lo = least /\ Signed(s) \in {1, -1} THEN {Answer(least, 0)} ELSE {})

(* What a form may answer; the undefined division has two answers.         *)
Answers(op, hi, lo, s) ==
  CASE op \in {"div8", "div16", "div32"} -> {Div(hi, lo, s)}
    [] op = "div64" -> {Div64(hi, lo, s)}
    [] op \in {"idiv8", "idiv64"} -> {Idiv(hi, lo, s)}
    [] op \in {"idiv16", "idiv32"} -> IdivAbs(hi, lo, s)

(* The flags of a division that does not trap: the 8-bit forms leave them. *)
DivFlags(op, f, q) ==
  LET g == [f EXCEPT !.CF = 0, !.SF = 0, !.PF = Parity(q.mod % 2^W)] IN
  CASE op \in {"div8", "idiv8"} -> f
    [] op \in {"div16", "idiv16"} -> [g EXCEPT !.ZF = Bool(q.quot = 0)]
    [] op \in {"div32", "div64", "idiv32", "idiv64"} -> [g EXCEPT !.AF = 0, !.ZF = 1]

(* Every form but idiv16 forgets the pending flags, also when it traps.    *)
Divided(op, e, q) ==
  LET r == IF op = "idiv16" THEN e ELSE ResetFlags(e) IN
  IF q.trap THEN r
  ELSE [r EXCEPT !.fl = DivFlags(op, r.fl, q), !.out = q.quot % 2^W, !.hi = q.mod % 2^W]
=============================================================================
