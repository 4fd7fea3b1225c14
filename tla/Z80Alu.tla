------------------------------ MODULE Z80Alu ------------------------------
(* Arithmetic and flags of the Z80 (src/src/hw/z80.cpp).  The flag register is the
   set of flags that are up; values are bytes or words.  One action is one
   instruction on the accumulator; the 16-bit, block-transfer and block-I/O
   instructions are operators, compared with references in the properties.       *)
EXTENDS Integers, FiniteSets, FiniteSetsExt

CONSTANT Operands      \* bytes the instructions are given

VARIABLES za,          \* the accumulator
          zf,          \* F
          zq,          \* Q: F if the last instruction wrote it, else no flags
          zsum         \* history: the addition or subtraction just done, or Nothing

aluVars == <<za, zf, zq, zsum>>

Byte(n) == n % 256
Word(n) == n % 65536
Bit(v, i) == (v \div 2^i) % 2
IsUp(v, i) == Bit(v, i) = 1
FlagIf(c, x) == IF c THEN {x} ELSE {}
C_(f) == IF "C" \in f THEN 1 ELSE 0
Bitwise2(Op(_, _), u, v) ==
  MapThenSumSet(LAMBDA i : IF Op(IsUp(u, i), IsUp(v, i)) THEN 2^i ELSE 0, 0..7)

parity_even(v) == MapThenSumSet(LAMBDA i : Bit(v, i), 0..7) % 2 = 0
YX(v) == FlagIf(IsUp(v, 5), "Y") \cup FlagIf(IsUp(v, 3), "X")
sz53(r) == FlagIf(IsUp(r, 7), "S") \cup FlagIf(r = 0, "Z") \cup YX(r)
sz53p(r) == sz53(r) \cup FlagIf(parity_even(r), "P")

\* exclusive or of bit i of three values: a carry into bit i
Carried(u, v, r, i) == (Bit(u, i) + Bit(v, i) + Bit(r, i)) % 2 = 1

(* --- the accumulator group: each returns the new accumulator and flags ------------- *)
\* Mutant: overflow taken from the operands' signs alone
add8_signs(acc, val, c) ==
  LET r == Byte(acc + val + c)
  IN  [a |-> r,
       f |-> sz53(r) \cup FlagIf(acc + val + c > 255, "C") \cup FlagIf(Carried(acc, val, r, 4), "H")
             \cup FlagIf(Bit(acc, 7) = Bit(val, 7), "P")]

add8(acc, val, c) ==
  LET r == Byte(acc + val + c)
  IN  [a |-> r,
       f |-> sz53(r) \cup FlagIf(acc + val + c > 255, "C") \cup FlagIf(Carried(acc, val, r, 4), "H")
             \cup FlagIf(Bit(acc, 7) = Bit(val, 7) /\ Bit(acc, 7) # Bit(r, 7), "P")]

sub8(acc, val, c) ==
  LET r == Byte(acc - val - c)
  IN  [a |-> r,
       f |-> sz53(r) \cup {"N"} \cup FlagIf(acc - val - c < 0, "C")
             \cup FlagIf(Carried(acc, val, r, 4), "H")
             \cup FlagIf(Bit(acc, 7) # Bit(val, 7) /\ Bit(acc, 7) # Bit(r, 7), "P")]

logic8(r, half) == [a |-> r, f |-> sz53p(r) \cup FlagIf(half, "H")]

alu(kind, acc, f, val) ==
  CASE kind = "ADD" -> add8(acc, val, 0)
    [] kind = "ADC" -> add8(acc, val, C_(f))
    [] kind = "SUB" -> sub8(acc, val, 0)
    [] kind = "SBC" -> sub8(acc, val, C_(f))
    [] kind = "AND" -> logic8(Bitwise2(LAMBDA p, q : p /\ q, acc, val), TRUE)
    [] kind = "XOR" -> logic8(Bitwise2(LAMBDA p, q : p # q, acc, val), FALSE)
    [] kind = "OR"  -> logic8(Bitwise2(LAMBDA p, q : p \/ q, acc, val), FALSE)
    [] kind = "CP"  -> [a |-> acc, f |-> (sub8(acc, val, 0).f \ {"Y", "X"}) \cup YX(val)]

\* Mutant: the carry is written like the other flags
inc8_all(val, f) ==
  LET r == Byte(val + 1)
  IN  [a |-> r, f |-> sz53(r) \cup FlagIf(r = 0, "C")
                      \cup FlagIf(r % 16 = 0, "H") \cup FlagIf(r = 128, "P")]

inc8(val, f) ==
  LET r == Byte(val + 1)
  IN  [a |-> r, f |-> (f \cap {"C"}) \cup sz53(r)
                      \cup FlagIf(r % 16 = 0, "H") \cup FlagIf(r = 128, "P")]

dec8(val, f) ==
  LET r == Byte(val - 1)
  IN  [a |-> r, f |-> (f \cap {"C"}) \cup sz53(r) \cup {"N"}
                      \cup FlagIf(r % 16 = 15, "H") \cup FlagIf(r = 127, "P")]

\* the shifts and rotates of CB, and what they push out
Shifted(op, val, f) ==
  LET up == Byte(2 * val)  down == val \div 2  top == Bit(val, 7)  low == Bit(val, 0)
  IN CASE op = "RLC" -> <<up + top, top>>
       [] op = "RRC" -> <<down + 128 * low, low>>
       [] op = "RL"  -> <<up + C_(f), top>>
       [] op = "RR"  -> <<down + 128 * C_(f), low>>
       [] op = "SLA" -> <<up, top>>
       [] op = "SRA" -> <<down + 128 * top, low>>
       [] op = "SLL" -> <<up + 1, top>>
       [] op = "SRL" -> <<down, low>>

cb_shift(op, val, f) ==
  LET s == Shifted(op, val, f)
  IN  [a |-> s[1], f |-> sz53p(s[1]) \cup FlagIf(s[2] = 1, "C")]

acc_rot(op, acc, f) ==
  LET s == Shifted(op, acc, f)
  IN  [a |-> s[1], f |-> (f \cap {"S", "Z", "P"}) \cup YX(s[1]) \cup FlagIf(s[2] = 1, "C")]

\* BIT n: xy is where the undocumented flags come from
cb_bit(n, val, xy, f) ==
  (f \cap {"C"}) \cup {"H"} \cup YX(xy)
    \cup (IF Bit(val, n) = 0 THEN {"Z", "P"} ELSE {}) \cup FlagIf(n = 7 /\ Bit(val, 7) = 1, "S")

\* Mutant: the correction of the high digit forgets the carry that came in
daa_no_carry(acc, f) ==
  LET low == "H" \in f \/ acc % 16 > 9
      high == acc > 153
      fix == (IF low THEN 6 ELSE 0) + (IF high THEN 96 ELSE 0)
      r == Byte(IF "N" \in f THEN acc - fix ELSE acc + fix)
  IN  [a |-> r, f |-> sz53p(r) \cup FlagIf(high, "C") \cup (f \cap {"N"})
                      \cup FlagIf(Bit(acc, 4) # Bit(r, 4), "H")]

daa(acc, f) ==
  LET low == "H" \in f \/ acc % 16 > 9
      high == "C" \in f \/ acc > 153
      fix == (IF low THEN 6 ELSE 0) + (IF high THEN 96 ELSE 0)
      r == Byte(IF "N" \in f THEN acc - fix ELSE acc + fix)
  IN  [a |-> r, f |-> sz53p(r) \cup FlagIf(high, "C") \cup (f \cap {"N"})
                      \cup FlagIf(Bit(acc, 4) # Bit(r, 4), "H")]

cpl(acc, f) ==
  [a |-> 255 - acc, f |-> (f \cap {"S", "Z", "P", "C"}) \cup {"H", "N"} \cup YX(255 - acc)]

\* Y and X of SCF and CCF: of A, or of A or F when the last instruction left F alone
scf_ccf_xy(acc, f, q) == {x \in {"Y", "X"} : (x \in q) # (x \in f)} \cup YX(acc)

scf(acc, f, q) == [a |-> acc, f |-> (f \cap {"S", "Z", "P"}) \cup {"C"} \cup scf_ccf_xy(acc, f, q)]
ccf(acc, f, q) ==
  [a |-> acc, f |-> (f \cap {"S", "Z", "P"}) \cup FlagIf("C" \notin f, "C") \cup FlagIf("C" \in f, "H")
                    \cup scf_ccf_xy(acc, f, q)]

neg(acc) ==
  LET r == Byte(0 - acc)
  IN  [a |-> r, f |-> sz53(r) \cup {"N"} \cup FlagIf(acc # 0, "C")
                      \cup FlagIf(Bit(acc, 4) # Bit(r, 4), "H")
                      \cup FlagIf(Bit(acc, 7) = 1 /\ Bit(r, 7) = 1, "P")]

ld_a_ir(val, f, iff2) == [a |-> val, f |-> (f \cap {"C"}) \cup sz53(val) \cup FlagIf(iff2, "P")]

(* --- words --------------------------------------------------------------------------- *)
add16(hl, val, f) ==
  LET r == Word(hl + val)
  IN  [v |-> r, f |-> (f \cap {"S", "Z", "P"}) \cup YX(r \div 256)
                      \cup FlagIf(Carried(hl, val, r, 12), "H") \cup FlagIf(hl + val > 65535, "C")]

\* Mutant: the incoming carry is left out of the result's own carry
adc16_carry(hl, val, f) ==
  LET r == Word(hl + val + C_(f))
  IN  [v |-> r, f |-> FlagIf(IsUp(r, 15), "S") \cup FlagIf(r = 0, "Z") \cup YX(r \div 256)
                      \cup FlagIf(Carried(hl, val, r, 12), "H") \cup FlagIf(hl + val > 65535, "C")
                      \cup FlagIf(Bit(hl, 15) = Bit(val, 15) /\ Bit(hl, 15) # Bit(r, 15), "P")]

adc16(hl, val, f) ==
  LET r == Word(hl + val + C_(f))
  IN  [v |-> r, f |-> FlagIf(IsUp(r, 15), "S") \cup FlagIf(r = 0, "Z") \cup YX(r \div 256)
                      \cup FlagIf(Carried(hl, val, r, 12), "H") \cup FlagIf(hl + val + C_(f) > 65535, "C")
                      \cup FlagIf(Bit(hl, 15) = Bit(val, 15) /\ Bit(hl, 15) # Bit(r, 15), "P")]

sbc16(hl, val, f) ==
  LET r == Word(hl - val - C_(f))
  IN  [v |-> r, f |-> FlagIf(IsUp(r, 15), "S") \cup FlagIf(r = 0, "Z") \cup YX(r \div 256) \cup {"N"}
                      \cup FlagIf(Carried(hl, val, r, 12), "H") \cup FlagIf(hl - val - C_(f) < 0, "C")
                      \cup FlagIf(Bit(hl, 15) # Bit(val, 15) /\ Bit(hl, 15) # Bit(r, 15), "P")]

(* --- the flags of block compare and block I/O ------------------------------------------- *)
block_cp_flags(acc, val, bc, f) ==
  LET r == Byte(acc - val)
      hf == Carried(acc, val, r, 4)
      n == Byte(r - (IF hf THEN 1 ELSE 0))
  IN  (f \cap {"C"}) \cup {"N"} \cup FlagIf(IsUp(r, 7), "S") \cup FlagIf(r = 0, "Z")
        \cup FlagIf(hf, "H") \cup FlagIf(Word(bc - 1) # 0, "P")
        \cup FlagIf(IsUp(n, 1), "Y") \cup FlagIf(IsUp(n, 3), "X")

\* INI/OUTI and the last turn of INIR/OTIR; k is the sum the chip forms on the side
blkio_f(val, k, b) ==
  sz53(b) \cup FlagIf(IsUp(val, 7), "N") \cup (IF k > 255 THEN {"H", "C"} ELSE {})
    \cup FlagIf(parity_even(Bitwise2(LAMBDA p, q : p # q, k % 8, b)), "P")

\* a turn of INIR/OTIR that repeats
blkio_corrected_f(val, k, b, pch) ==
  LET p == Bitwise2(LAMBDA u, v : u # v, k % 8, b)
      even(m) == parity_even(Bitwise2(LAMBDA u, v : u # v, p, m % 8))
  IN  FlagIf(IsUp(b, 7), "S") \cup YX(pch) \cup FlagIf(IsUp(val, 7), "N")
        \cup (IF k <= 255 THEN FlagIf(even(b), "P")
              ELSE IF IsUp(val, 7)
                   THEN {"C"} \cup FlagIf(b % 16 = 0, "H") \cup FlagIf(even(b - 1), "P")
                   ELSE {"C"} \cup FlagIf(b % 16 = 15, "H") \cup FlagIf(even(b + 1), "P"))

(* --- instructions on the accumulator ------------------------------------------------------ *)
Nothing == [kind |-> "none", x |-> 0, y |-> 0, c |-> 0]

\* an instruction that wrote F: finish() makes Q of it
Wrote(res) == za' = res.a /\ zf' = res.f /\ zq' = res.f

Alu ==
  \E kind \in {"ADD", "ADC", "SUB", "SBC", "AND", "XOR", "OR", "CP"}, val \in Operands :
    /\ Wrote(alu(kind, za, zf, val))
    /\ zsum' = IF kind \in {"ADD", "ADC", "SUB", "SBC"}
               THEN [kind |-> kind, x |-> za, y |-> val,
                     c |-> IF kind \in {"ADC", "SBC"} THEN C_(zf) ELSE 0]
               ELSE Nothing

One ==
  /\ \/ Wrote(inc8(za, zf)) \/ Wrote(dec8(za, zf)) \/ Wrote(neg(za)) \/ Wrote(cpl(za, zf))
     \/ Wrote(scf(za, zf, zq)) \/ Wrote(ccf(za, zf, zq))
     \/ \E op \in {"RLC", "RRC", "RL", "RR"} : Wrote(acc_rot(op, za, zf))
  /\ zsum' = Nothing

Daa == Wrote(daa(za, zf)) /\ zsum' = Nothing

\* LD A,n: F is left alone
LoadByte ==
  /\ za' \in Operands /\ zq' = {} /\ zsum' = Nothing
  /\ UNCHANGED zf

AluInit == za \in Operands /\ zf = {} /\ zq = {} /\ zsum = Nothing
AluNext == Alu \/ One \/ Daa \/ LoadByte

(* --- properties ------------------------------------------------------------------------------ *)
Bcd(n) == 10 * (n \div 16) + (n % 16)
IsBcd(n) == n % 16 <= 9 /\ n \div 16 <= 9
Signed(n) == IF n > 127 THEN n - 256 ELSE n

(* DAA after an addition or subtraction of two packed decimal numbers gives the decimal
   result, and its carry is the decimal carry or borrow (alu, daa).                     *)
DecimalAdjust ==
  zsum.kind # "none" /\ IsBcd(zsum.x) /\ IsBcd(zsum.y) =>
    LET adds == zsum.kind \in {"ADD", "ADC"}
        exact == IF adds THEN Bcd(zsum.x) + Bcd(zsum.y) + zsum.c
                 ELSE Bcd(zsum.x) - Bcd(zsum.y) - zsum.c
        d == daa(za, zf)
    IN  /\ IsBcd(d.a) /\ Bcd(d.a) = exact % 100
        /\ ("C" \in d.f) = (exact > 99 \/ exact < 0)

(* The flags order numbers: after a comparison C is "less" unsigned, S against P is
   "less" signed; and a 16-bit ADC or SBC is the two byte operations chained through
   the carry, the sign, overflow, half-carry and carry those of the high byte
   (alu kinds 1, 3, 7, adc16, sbc16).                                                   *)
FlagsOrder ==
  \A val \in Operands :
    LET cp == alu("CP", za, zf, val).f
        lo == alu("ADC", za, zf, val)
        hi == alu("ADC", val, lo.f, za)
        w  == adc16(256 * val + za, 256 * za + val, zf)
        sl == alu("SBC", za, zf, val)
        sh == alu("SBC", val, sl.f, za)
        ws == sbc16(256 * val + za, 256 * za + val, zf)
        four == {"S", "P", "H", "C", "N", "Y", "X"}
    IN  /\ ("C" \in cp) = (za < val)
        /\ (("S" \in cp) # ("P" \in cp)) = (Signed(za) < Signed(val))
        /\ w.v = 256 * hi.a + lo.a /\ w.f \cap four = hi.f \cap four
        /\ ws.v = 256 * sh.a + sl.a /\ ws.f \cap four = sh.f \cap four
        /\ ("Z" \in w.f) = (w.v = 0) /\ ("Z" \in ws.f) = (ws.v = 0)
        /\ add16(256 * val + za, 256 * za + val, {}).v = adc16(256 * val + za, 256 * za + val, {}).v

(* INC and DEC keep the carry, so a multi-byte loop can count with them; otherwise their
   flags are those of adding or subtracting one.  A rotate through carry undone by its
   opposite gives back the byte and the carry (inc8, dec8, cb_shift).                    *)
CountsAndRotates ==
  /\ LET i == inc8(za, zf)  one == alu("ADD", za, zf, 1)
     IN  i.a = one.a /\ i.f = (one.f \ {"C"}) \cup (zf \cap {"C"})
  /\ LET d == dec8(za, zf)  one == alu("SUB", za, zf, 1)
     IN  d.a = one.a /\ d.f = (one.f \ {"C"}) \cup (zf \cap {"C"})
  /\ LET l == cb_shift("RL", za, zf)  back == cb_shift("RR", l.a, l.f)
     IN  back.a = za /\ back.f \cap {"C"} = zf \cap {"C"}
  /\ neg(za).f = alu("SUB", 0, zf, za).f

(* A block compare that hits says so with Z, whatever the count; INI/OUTI raise Z exactly
   on the last turn, and the turn of INIR/OTIR that repeats agrees with it on the sign
   and the carry (block_cp, block_in, block_out, blkio_corrected_f).                      *)
BlockFlags ==
  \A val \in Operands, b \in Operands :
    LET k == za + val
    IN  /\ ("Z" \in block_cp_flags(za, val, b, zf)) = (za = val)
        /\ ("Z" \in blkio_f(val, k, b)) = (b = 0)
        /\ blkio_f(val, k, b) \cap {"S", "C", "N"} = blkio_corrected_f(val, k, b, za) \cap {"S", "C", "N"}

=============================================================================
