------------------------------ MODULE Encoders ------------------------------
(***************************************************************************)
(* source/lib/armv8: instructions built field by field.  A word is the set *)
(* of its bits that are set, a field a range of bits whose high end is     *)
(* exclusive, as in util::Mask.  The classes of the code overlap their     *)
(* fields (Op0 and the main group, Size and Op0, N and Immr), so that each *)
(* operator sets its fields in the order of the constructors.              *)
(***************************************************************************)
EXTENDS Integers, Sequences, SequencesExt

\* The bits of a number; of a negative one, the low bits in two's complement.
Bits(v) == { k \in 0 .. 30 : (v \div 2^k) % 2 = 1 }

SetBits(w, low, high, v) ==
  { k \in w : k < low \/ k >= high } \cup { low + k : k \in { b \in Bits(v) : b < high - low } }

\* Setters called one after the other, each <<low, high, value>>.
Set(w, fields) == FoldLeft(LAMBDA u, f : SetBits(u, f[1], f[2], f[3]), w, fields)

Bit(b) == IF b THEN 1 ELSE 0

\* m_Index has seven bits: None32 and None64, made with -1, are 127.
Register(is64, index) == [x |-> is64, index |-> index % 128]
X(index) == Register(TRUE, index)
W(index) == Register(FALSE, index)
LR == X(30)
SP == X(31)
None64 == Register(TRUE, -1)
None32 == Register(FALSE, -1)

Instruction(op0) == Set({}, <<<<25, 29, op0>>>>)

-----------------------------------------------------------------------------
(* Branches and hints. *)
Op101xInstruction(op0) == Set(Instruction(10), <<<<29, 32, op0>>>>)

Hints == Set(Op101xInstruction(6), <<<<12, 26, 4146>>, <<0, 5, 31>>>>)
Nop == Set(Hints, <<<<8, 12, 0>>, <<5, 8, 0>>>>)

UnconditionalBranchImmediate(op, relative_address) ==
  Set(Op101xInstruction(0), <<<<31, 32, op>>, <<0, 26, relative_address \div 4>>>>)
Branch(relative_address)     == UnconditionalBranchImmediate(0, relative_address)
BranchLink(relative_address) == UnconditionalBranchImmediate(1, relative_address)

UnconditionalBranchRegister(opc, op2) ==
  Set(Op101xInstruction(6), <<<<12, 26, 8192>>, <<21, 25, opc>>, <<16, 21, op2>>>>)
BranchRegister(rn) ==
  Set(UnconditionalBranchRegister(0, 31), <<<<10, 16, 0>>, <<5, 10, rn.index>>, <<0, 5, 0>>>>)
Ret(rn) ==
  Set(UnconditionalBranchRegister(2, 31), <<<<10, 16, 0>>, <<5, 10, rn.index>>, <<0, 5, 0>>>>)

-----------------------------------------------------------------------------
(* Immediates. *)
Op100xInstruction(op0) == Set(Instruction(8), <<<<23, 26, op0>>>>)

PcRelAddressing(reg, imm, op) ==
  Set(Op100xInstruction(0),
      <<<<31, 32, op>>, <<29, 31, imm>>, <<5, 24, imm \div 4>>, <<0, 5, reg.index>>>>)
Adr(reg, imm) == PcRelAddressing(reg, imm, 0)
\* imm is a u32: what is left of it above bit 12 has twenty bits, and no sign.
Adrp(reg, imm) == PcRelAddressing(reg, (imm \div 4096) % 2^20, 1)

\* Shifted, however small.
CalcShAlways(imm) == imm # 0
CalcSh(imm) == imm # 0 /\ imm % 4096 = 0
CalcImm(imm) == IF CalcSh(imm) THEN imm \div 4096 ELSE imm

AddSubtractImmediate(sf, op, s) ==
  Set(Op100xInstruction(2), <<<<31, 32, sf>>, <<30, 31, op>>, <<29, 30, s>>>>)
AddSubOperands(w, rd, rn, imm) ==
  Set(w, <<<<0, 5, rd.index>>, <<5, 10, rn.index>>, <<10, 22, CalcImm(imm)>>,
           <<22, 23, Bit(CalcSh(imm))>>>>)
AddImmediate(rd, rn, imm)  == AddSubOperands(AddSubtractImmediate(Bit(rd.x), 0, 0), rd, rn, imm)
AddsImmediate(rd, rn, imm) == AddSubOperands(AddSubtractImmediate(Bit(rd.x), 0, 1), rd, rn, imm)
SubImmediate(rd, rn, imm)  == AddSubOperands(AddSubtractImmediate(Bit(rd.x), 1, 0), rd, rn, imm)
SubsImmediate(rd, rn, imm) == AddSubOperands(AddSubtractImmediate(Bit(rd.x), 1, 1), rd, rn, imm)
CmpImmediate(reg, imm) == SubsImmediate(IF reg.x THEN None64 ELSE None32, reg, imm)
CmnImmediate(reg, imm) == AddsImmediate(IF reg.x THEN None64 ELSE None32, reg, imm)

MoveWideImmediate(reg, opc, hw, imm) ==
  Set(Op100xInstruction(5),
      <<<<31, 32, Bit(reg.x)>>, <<29, 31, opc>>, <<21, 23, hw>>, <<5, 21, imm>>,
        <<0, 5, reg.index>>>>)
Movn(reg, imm, shift) == MoveWideImmediate(reg, 0, shift, imm)
Movz(reg, imm, shift) == MoveWideImmediate(reg, 2, shift, imm)
Movk(reg, imm, shift) == MoveWideImmediate(reg, 3, shift, imm)

-----------------------------------------------------------------------------
(* Registers. *)
Opx101Instruction(op0, op1, op2, op3) ==
  Set(Instruction(5), <<<<30, 31, op0>>, <<28, 29, op1>>, <<20, 24, op2>>, <<10, 15, op3>>>>)

LogicalShiftedRegister(sf, opc) ==
  Set(Opx101Instruction(0, 0, 0, 0), <<<<31, 32, sf>>, <<29, 31, opc>>>>)
OrrShiftedRegister(rd, rn, rm, shift, amount) ==
  Set(LogicalShiftedRegister(Bit(rd.x), 1),
      <<<<22, 24, shift>>, <<21, 22, 0>>, <<16, 21, rm.index>>, <<10, 16, amount>>,
        <<5, 10, rn.index>>, <<0, 5, rd.index>>>>)
MovRegister(rd, rm) == OrrShiftedRegister(rd, IF rd.x THEN None64 ELSE None32, rm, 0, 0)

-----------------------------------------------------------------------------
(* Loads and stores. *)
Opx1x0Instruction(op0) == Set(Instruction(4), <<<<28, 32, op0>>>>)

LoadRegisterLiteral(rt, imm19, v, opc) ==
  Set(Opx1x0Instruction(1),
      <<<<28, 32, 1>>, <<23, 25, 0>>, <<30, 31, opc>>, <<26, 27, v>>, <<5, 24, imm19>>,
        <<0, 5, rt.index>>>>)
LdrLiteral(rt, relative_distance) ==
  LoadRegisterLiteral(rt, relative_distance \div 4, 0, Bit(rt.x))

SizeOf(rt) == 2 + Bit(rt.x)              \* GetSize

LoadStoreRegisterOffset(size, v, opc) ==
  Set(Opx1x0Instruction(3),
      <<<<30, 32, size>>, <<22, 24, opc>>, <<26, 27, 0>>, <<23, 25, 0>>, <<16, 22, 32>>,
        <<10, 12, 2>>, <<26, 27, v>>>>)
CreateOption(extend) == IF extend \in {2, 3, 6, 7} THEN extend ELSE 0
CreateS(rt, amount) == amount = (IF rt.x THEN 3 ELSE 2)
RegisterOperands(w, rt, rn, rm, extend, amount) ==
  Set(w, <<<<30, 32, SizeOf(rt)>>, <<16, 21, rm.index>>, <<13, 16, CreateOption(extend)>>,
           <<12, 13, Bit(CreateS(rt, amount))>>, <<0, 5, rt.index>>, <<5, 10, rn.index>>>>)
LdrRegisterOffset(rt, rn, rm, extend, amount) ==
  RegisterOperands(LoadStoreRegisterOffset(SizeOf(rt), 0, 1), rt, rn, rm, extend, amount)
StrRegisterOffset(rt, rn, rm, extend, amount) ==
  RegisterOperands(LoadStoreRegisterOffset(SizeOf(rt), 0, 0), rt, rn, rm, extend, amount)

LoadStoreRegisterUnscaledImmediate(size, v, opc, imm9, rn, rt) ==
  Set(Opx1x0Instruction(3),
      <<<<23, 25, 0>>, <<16, 22, 0>>, <<10, 12, 0>>, <<30, 32, size>>, <<26, 27, v>>,
        <<22, 24, opc>>, <<12, 21, imm9>>, <<5, 10, rn.index>>, <<0, 5, rt.index>>>>)
LdurUnscaledImmediate(rt, rn, imm9) ==
  LoadStoreRegisterUnscaledImmediate(SizeOf(rt), 0, 1, imm9, rn, rt)
SturUnscaledImmediate(rt, rn, imm9) ==
  LoadStoreRegisterUnscaledImmediate(SizeOf(rt), 0, 0, imm9, rn, rt)

LoadStoreRegisterUnsignedImmediate(size, v, opc, imm12, rn, rt) ==
  Set(Opx1x0Instruction(3),
      <<<<23, 25, 2>>, <<30, 32, size>>, <<26, 27, v>>, <<22, 24, opc>>, <<10, 22, imm12>>,
        <<5, 10, rn.index>>, <<0, 5, rt.index>>>>)
LdrRegisterImmediate(rt, rn, imm12) ==
  LoadStoreRegisterUnsignedImmediate(SizeOf(rt), 0, 1, imm12, rn, rt)
StrRegisterImmediate(rt, rn, imm12) ==
  LoadStoreRegisterUnsignedImmediate(SizeOf(rt), 0, 0, imm12, rn, rt)

-----------------------------------------------------------------------------
(* What a client asks for, as a record, and the word it gets. *)
Encode(i) ==
  CASE i.op = "nop"  -> Nop
    [] i.op = "b"    -> Branch(i.imm)
    [] i.op = "bl"   -> BranchLink(i.imm)
    [] i.op = "br"   -> BranchRegister(i.rn)
    [] i.op = "ret"  -> Ret(i.rn)
    [] i.op = "adr"  -> Adr(i.rd, i.imm)
    [] i.op = "adrp" -> Adrp(i.rd, i.imm)
    [] i.op = "add"  -> AddImmediate(i.rd, i.rn, i.imm)
    [] i.op = "adds" -> AddsImmediate(i.rd, i.rn, i.imm)
    [] i.op = "sub"  -> SubImmediate(i.rd, i.rn, i.imm)
    [] i.op = "subs" -> SubsImmediate(i.rd, i.rn, i.imm)
    [] i.op = "cmp"  -> CmpImmediate(i.rn, i.imm)
    [] i.op = "cmn"  -> CmnImmediate(i.rn, i.imm)
    [] i.op = "movn" -> Movn(i.rd, i.imm, i.shift)
    [] i.op = "movz" -> Movz(i.rd, i.imm, i.shift)
    [] i.op = "movk" -> Movk(i.rd, i.imm, i.shift)
    [] i.op = "orr"  -> OrrShiftedRegister(i.rd, i.rn, i.rm, i.shift, i.amount)
    [] i.op = "mov"  -> MovRegister(i.rd, i.rm)
    [] i.op = "ldrl" -> LdrLiteral(i.rd, i.imm)
    [] i.op = "ldrr" -> LdrRegisterOffset(i.rd, i.rn, i.rm, i.extend, i.amount)
    [] i.op = "strr" -> StrRegisterOffset(i.rd, i.rn, i.rm, i.extend, i.amount)
    [] i.op = "ldur" -> LdurUnscaledImmediate(i.rd, i.rn, i.imm)
    [] i.op = "stur" -> SturUnscaledImmediate(i.rd, i.rn, i.imm)
    [] i.op = "ldri" -> LdrRegisterImmediate(i.rd, i.rn, i.imm)
    [] i.op = "stri" -> StrRegisterImmediate(i.rd, i.rn, i.imm)

(* The same record as the architecture reads it back: aliases by their name  *)
(* in the manual, registers by number, with the width the operation has.     *)
Read(op, x, operands) == [op |-> op, x |-> x, operands |-> operands]

Meaning(i) ==
  LET n(r) == r.index % 32 IN
  CASE i.op = "nop" -> Read("nop", TRUE, <<>>)
    [] i.op \in {"b", "bl"} -> Read(i.op, TRUE, <<i.imm>>)
    [] i.op \in {"br", "ret"} -> Read(i.op, TRUE, <<n(i.rn)>>)
    [] i.op = "adr" -> Read(i.op, TRUE, <<n(i.rd), i.imm>>)
    [] i.op = "adrp" -> Read(i.op, TRUE, <<n(i.rd), i.imm \div 4096>>)
    [] i.op \in {"add", "adds", "sub", "subs"} -> Read(i.op, i.rd.x, <<n(i.rd), n(i.rn), i.imm>>)
    [] i.op = "cmp" -> Read("subs", i.rn.x, <<31, n(i.rn), i.imm>>)
    [] i.op = "cmn" -> Read("adds", i.rn.x, <<31, n(i.rn), i.imm>>)
    [] i.op \in {"movn", "movz", "movk"} -> Read(i.op, i.rd.x, <<n(i.rd), i.imm, i.shift>>)
    [] i.op = "orr" -> Read("orr", i.rd.x, <<n(i.rd), n(i.rn), n(i.rm), i.shift, i.amount>>)
    [] i.op = "mov" -> Read("orr", i.rd.x, <<n(i.rd), 31, n(i.rm), 0, 0>>)
    [] i.op = "ldrl" -> Read(i.op, i.rd.x, <<n(i.rd), i.imm>>)
    [] i.op \in {"ldrr", "strr"} ->
         Read(i.op, i.rd.x, <<n(i.rd), n(i.rn), n(i.rm), i.extend, i.amount>>)
    [] i.op \in {"ldur", "stur", "ldri", "stri"} -> Read(i.op, i.rd.x, <<n(i.rd), n(i.rn), i.imm>>)

(* The Arm manual's tables for these instructions. *)
Decode(w) ==
  LET F(low, high) == LET v[k \in low .. high] ==
                            IF k = high THEN 0 ELSE Bit(k \in w) + 2 * v[k + 1]
                      IN  v[low]
      Signed(low, high) == F(low, high) - (IF high - 1 \in w THEN 2^(high - low) ELSE 0)
      x == 31 \in w
      size64 == 30 \in w
      store == 22 \notin w
  IN
  CASE F(26, 31) = 5  -> Read(IF x THEN "bl" ELSE "b", TRUE, <<4 * Signed(0, 26)>>)
    [] F(25, 32) = 107 /\ F(10, 21) = 1984 /\ F(0, 5) = 0 ->
         Read(IF F(21, 25) = 0 THEN "br" ELSE IF F(21, 25) = 2 THEN "ret" ELSE "?",
              TRUE, <<F(5, 10)>>)
    [] F(12, 32) = 872498 /\ F(0, 12) = 31 -> Read("nop", TRUE, <<>>)
    [] F(24, 29) = 16 ->
         Read(IF x THEN "adrp" ELSE "adr", TRUE, <<F(0, 5), 4 * Signed(5, 24) + F(29, 31)>>)
    [] F(23, 29) = 34 ->
         Read((IF 30 \in w THEN "sub" ELSE "add") \o (IF 29 \in w THEN "s" ELSE ""), x,
              <<F(0, 5), F(5, 10), F(10, 22) * (IF 22 \in w THEN 4096 ELSE 1)>>)
    [] F(23, 29) = 37 -> Read(CASE F(29, 31) = 0 -> "movn" [] F(29, 31) = 2 -> "movz"
                                [] F(29, 31) = 3 -> "movk" [] OTHER -> "?",
                              x, <<F(0, 5), F(5, 21), F(21, 23)>>)
    [] F(24, 29) = 10 /\ 21 \notin w /\ F(29, 31) = 1 ->
         Read("orr", x, <<F(0, 5), F(5, 10), F(16, 21), F(22, 24), F(10, 16)>>)
    [] F(24, 30) = 24 /\ F(31, 32) = 0 -> Read("ldrl", size64, <<F(0, 5), 4 * Signed(5, 24)>>)
    [] F(24, 30) = 57 /\ x /\ 23 \notin w ->
         Read(IF store THEN "stri" ELSE "ldri", size64, <<F(0, 5), F(5, 10), F(10, 22)>>)
    [] F(24, 30) = 56 /\ x /\ 23 \notin w /\ 21 \notin w /\ F(10, 12) = 0 ->
         Read(IF store THEN "stur" ELSE "ldur", size64, <<F(0, 5), F(5, 10), Signed(12, 21)>>)
    [] F(24, 30) = 56 /\ x /\ 23 \notin w /\ 21 \in w /\ F(10, 12) = 2 ->
         Read(IF store THEN "strr" ELSE "ldrr", size64,
              <<F(0, 5), F(5, 10), F(16, 21), F(13, 16),
                IF 12 \notin w THEN 0 ELSE IF size64 THEN 3 ELSE 2>>)
    [] OTHER -> Read("?", TRUE, <<>>)
=============================================================================
