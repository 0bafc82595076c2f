----------------------------- MODULE Relocation -----------------------------
(***************************************************************************)
(* source/lib/hook/nx64/hook_impl.cpp: before the first instructions of a  *)
(* function are overwritten with a jump to its replacement, they are       *)
(* copied to a trampoline that ends with a jump behind them.  Instructions *)
(* that depend on where they are get rewritten on the way.  One action per *)
(* __fix_ function; the words are read one by one, so that TLC chooses     *)
(* them one by one.  Addresses count 32-bit words, and the immediate       *)
(* fields keep their width as constants, small enough for TLC.             *)
(***************************************************************************)
EXTENDS Integers, Sequences, FiniteSets, FiniteSetsExt

CONSTANTS
  BranchSpan, CondSpan, TestSpan, LitSpan, AdrSpan, PageSpan,  \* what an immediate field tells apart
  PageSize,        \* words of a page
  UintSpan,        \* words whose bytes a uint32_t counts
  Placements,      \* where the function and its trampoline are, and whether the
                   \* replacement is within reach of one branch
  Offsets,         \* what instructions refer to, from the first instruction
  MaxMixed         \* bound: instructions that are rewritten, unless all are alike

\* Every field holds something, and all that is told of an address is where it is.
ASSUME RelocationConstants ==
  /\ {BranchSpan, CondSpan, TestSpan, LitSpan, AdrSpan, PageSpan, PageSize, UintSpan} \subseteq Nat \ {0}
  /\ Placements \subseteq [base : Nat, tramp : Nat, rw : Nat, near : BOOLEAN]
  /\ Offsets \subseteq Int

TrampolineWords == 50                       \* MaxInstructions * 10
Page(a) == a - (a % PageSize)

\* A field reaches from one end of a trampoline to the other, and 32 bits count what it tells
\* apart; an ADRP reaches 32 bits of bytes to either side.  A trampoline is no part of the
\* program: neither of the function nor of what its instructions refer to.
ASSUME RelocationPlaces ==
  /\ \A span \in {BranchSpan, CondSpan, TestSpan, LitSpan, AdrSpan} :
       span >= 2 * TrampolineWords /\ span % 2 = 0 /\ span <= UintSpan
  /\ PageSpan >= 4 /\ PageSpan % 2 = 0 /\ PageSpan * PageSize = 2 * UintSpan
  /\ \A p \in Placements, w \in 0 .. TrampolineWords - 1 :
       /\ p.tramp + w \notin p.base .. p.base + 5
       /\ \A o \in Offsets : p.tramp + w \notin p.base + o .. p.base + o + 3
       /\ \A i \in 0 .. 4, k \in {-1, 0, 1} : p.tramp + w # Page(p.base + i) + k * PageSize

Loads == [ldrw |-> 1, ldrsw |-> 1, ldrx |-> 2, ldrs |-> 1, ldrd |-> 2, ldrq |-> 4]
Branches == {"b", "bl"}
Conditionals == {"cond", "test"}           \* b.c, cbz, cbnz; tbz, tbnz
AddressOps == {"adr", "adru", "adrp"}      \* adru: the label is not on a word

FieldSpan(op) ==
  CASE op \in Branches -> BranchSpan
    [] op = "cond"     -> CondSpan
    [] op = "test"     -> TestSpan
    [] op \in DOMAIN Loads -> LitSpan
    [] op = "adrp"     -> PageSpan
    [] OTHER           -> AdrSpan

Field(v, span)  == v % span
Signed(v, span) == IF v >= span \div 2 THEN v - span ELSE v
Distance(a, b)  == IF a < b THEN b - a ELSE a - b

\* A signed offset masked with ~3u is an unsigned one of 32 bits, and stays one when it is
\* added to an address: behind the instruction a literal, a label or a page is 4 GiB too high.
Unsigned(offset) == offset % UintSpan

VARIABLES
  place,   \* [base, tramp, rw, near]
  code,    \* the instructions read so far
  out,     \* the words of the trampoline
  dat,     \* ctx.dat[i].ins: where instruction i went
  fmap,    \* ctx.dat[i].fmap: words that wait for instruction i
  start,   \* history: where the words for instruction i begin
  done

movingVars == <<place, code, out, dat, fmap, start, done>>

\* HookFuncImpl: one branch, or 4 words with the address aligned, or 5.
count == IF place.near THEN 1 ELSE 4 + (place.base % 2)

Indices == 0 .. count - 1
idx == Len(code)
pc  == place.base + idx               \* *inprxp
rx  == place.tramp + Len(out)         \* *outprx

is_in_fixing_range(a) == a - place.base \in Indices

MovingInit ==
  /\ place \in Placements
  /\ code = <<>> /\ out = <<>>
  /\ dat = <<>> /\ start = <<>>
  /\ fmap = [i \in 0 .. 4 |-> {}]
  /\ done = FALSE

-----------------------------------------------------------------------------
Word(op, imm) == [op |-> op, imm |-> imm]
Nops(n)       == [k \in 1 .. n |-> Word("nop", 0)]
AddressOf(a)  == <<Word("addr", a), Word("addr", a)>>
JumpTo(a)     == <<Word("ldr17", 2), Word("br17", 0)>> \o AddressOf(a)
CallTo(a)     == <<Word("ldr17", 3), Word("adr30", 4), Word("br17", 0)>> \o AddressOf(a)

\* process_fix_map forgotten.
Forgotten(words, entry) == words

\* process_fix_map: the words that wait for this instruction learn where it is.
process_fix_map(words, entry) ==
  [p \in 1 .. Len(words) |->
     IF p \in fmap[idx]
     THEN [words[p] EXCEPT !.imm = Field(entry - (place.tramp + p - 1), FieldSpan(words[p].op))]
     ELSE words[p]]

(***************************************************************************)
(* The end of every __fix_ function: the words are written, the            *)
(* instruction is known to be at entry, and the next one is read.  later   *)
(* is the instruction the written word waits for, if any.                  *)
(***************************************************************************)
Emit(ins, words, entry, later) ==
  /\ code'  = Append(code, ins)
  /\ out'   = process_fix_map(out \o words, entry)
  /\ dat'   = Append(dat, entry)
  /\ start' = Append(start, rx)
  /\ fmap'  = [i \in 0 .. 4 |-> IF i \in later THEN fmap[i] \cup {Len(out) + 1} ELSE fmap[i]]
  /\ UNCHANGED <<place, done>>

\* The one-word form: a relative reference, from the new place; a reference to an
\* instruction that is moved too goes to its new place, once that is known.
EmitRelative(ins, op, a) ==
  LET ref == a - place.base
      off == IF ~ is_in_fixing_range(a) THEN a - rx
             ELSE IF ref < idx THEN dat[ref + 1] - rx ELSE 0
  IN Emit(ins, <<Word(op, Field(off, FieldSpan(op)))>>, rx,
          IF is_in_fixing_range(a) /\ ref > idx THEN {ref} ELSE {})

OutOfReach(a, span) ==
  /\ ~ is_in_fixing_range(a)
  /\ Distance(a, rx) >= span \div 2 - 1

\* A no-op aligns the address that follows n words later to 8 bytes.
PadFor(n) == (rx + n) % 2

\* The call's address one word off.
PadForCallWrong == PadFor(2)
PadForCall == PadFor(3)

__fix_branch_imm(ins) ==
  /\ ins.op \in Branches
  /\ LET a == pc + Signed(ins.imm, BranchSpan)
         pad == IF ins.op = "b" THEN PadFor(2) ELSE PadForCall
     IN IF OutOfReach(a, BranchSpan)
        THEN Emit(ins, Nops(pad) \o (IF ins.op = "b" THEN JumpTo(a) ELSE CallTo(a)), rx + pad, {})
        ELSE EmitRelative(ins, ins.op, a)

\* The offset is not sign-extended here.
__fix_cond_comp_test_branch(ins) ==
  /\ ins.op \in Conditionals
  /\ LET a == pc + ins.imm
         pad == PadFor(4)
     IN IF OutOfReach(a, FieldSpan(ins.op))
        THEN Emit(ins, Nops(pad) \o <<Word(ins.op, 2), Word("b", 5)>> \o JumpTo(a),
                  rx, {})
        ELSE EmitRelative(ins, ins.op, a)

\* The words copied for a literal: ldrsw takes 8 bytes.  They are copied if they are
\* moved themselves or out of reach of the word at at; from an address where nothing
\* is mapped the copy faults, and no further instruction is read.
Copied(op) == IF op = "ldrsw" THEN 2 ELSE Loads[op]

CopiesLiteral(op, a, at) ==
  \/ is_in_fixing_range(a)
  \/ Distance(a, at) + Copied(op) - 1 >= LitSpan \div 2 - 1

(***************************************************************************)
(* A negative offset, shifted, is masked with ~mask only: it sets the size *)
(* bits of the instruction that mask leaves free.                          *)
(***************************************************************************)
Resized(op, off) ==
  IF off >= 0 \/ op \in {"ldrx", "ldrsw"} THEN op
  ELSE IF op = "ldrw" THEN "ldrx" ELSE "invalid"

__fix_loadlit(ins) ==
  \/ /\ ins.op = "prfm"
     /\ Emit(ins, <<>>, rx, {})
  \/ /\ ins.op \in DOMAIN Loads
     /\ LET a == pc + Unsigned(Signed(ins.imm, LitSpan))
            n == Copied(ins.op)
            copy == CopiesLiteral(ins.op, a, rx)
            pad == IF copy THEN (- rx - 2) % n ELSE (a - rx) % n
            off == a - (rx + pad)
        IN Emit(ins,
                Nops(pad) \o
                (IF copy
                 THEN <<Word(ins.op, 2), Word("b", 1 + n)>> \o
                      [k \in 1 .. n |-> Word("lit", a + k - 1)]
                 ELSE <<Word(Resized(ins.op, off), Field(off, LitSpan))>>),
                rx + pad, {})

\* What __fix_pcreladdr makes of an address that is out of reach.
LoadAddress(a) == <<Word("ldra", 2), Word("b", 3)>> \o AddressOf(a)

\* The low bits of an offset between words and bytes end up in the register's bits.
AdrOf(op, a) == IF op = "adru" /\ ~ is_in_fixing_range(a) THEN "badreg" ELSE op

\* ADRP is recorded at its address in the writable mapping, unless it is padded.
__fix_pcreladdr(ins) ==
  \/ /\ ins.op \in {"adr", "adru"}
     /\ LET a == pc + Unsigned(Signed(ins.imm, AdrSpan))
            lo == IF ins.op = "adru" THEN 1 ELSE 0
            far == /\ ~ is_in_fixing_range(a)
                   /\ Distance(4 * a + lo, 4 * rx) >= 2 * AdrSpan - 1
        IN IF far
           THEN Emit(ins, Nops(PadFor(2)) \o LoadAddress(<<ins.op, a>>), rx + PadFor(2), {})
           ELSE EmitRelative(ins, AdrOf(ins.op, a), a)
  \/ /\ ins.op = "adrp"
     /\ LET a == Page(pc) + Unsigned(Signed(ins.imm, PageSpan) * PageSize)
            rw == place.rw + Len(out)
        IN IF is_in_fixing_range(a)
           THEN Emit(ins, <<ins>>, rw, {})
           ELSE Emit(ins, Nops(PadFor(2)) \o LoadAddress(<<"adr", a>>),
                     IF PadFor(2) = 1 THEN rx + 1 ELSE rw, {})

\* Without PC-relative offset.  Its place in the code stands for the instruction.
CopyInstruction(ins) == ins.op = "plain" /\ Emit(ins, <<Word("plain", idx)>>, rx, {})

\* The jump behind the instructions that were moved.
JumpBehind ==
  /\ idx = count /\ ~ done
  /\ done' = TRUE
  /\ LET callback == place.base + count
     IN out' = out \o IF Distance(callback, rx) >= BranchSpan \div 2 - 1
                      THEN Nops(PadFor(2)) \o JumpTo(callback)
                      ELSE <<Word("b", Field(callback - rx, BranchSpan))>>
  /\ start' = Append(start, rx)
  /\ UNCHANGED <<place, code, dat, fmap>>

-----------------------------------------------------------------------------
\* What the compiler may have put at pc: references within the reach of their field.
Reachable(op) ==
  { place.base + o - pc : o \in Offsets } \cap - (FieldSpan(op) \div 2) .. FieldSpan(op) \div 2 - 1

\* No literal runs into the function.
IsLiteral(op, o) == pc + o < place.base => pc + o + Loads[op] <= place.base

InstructionsAt ==
  { Word("plain", 0), Word("prfm", 0) }
    \cup { Word("adrp", Field(p, PageSpan)) : p \in {-1, 0, 1} }
    \cup (UNION { { Word(op, Field(o, FieldSpan(op))) : o \in Reachable(op) } :
                  op \in Branches \cup Conditionals \cup {"adr", "adru"} })
    \cup (UNION { { Word(op, Field(o, LitSpan)) : o \in { r \in Reachable(op) : IsLiteral(op, r) } } :
                  op \in DOMAIN Loads })

\* What an instruction at a refers to.
RefersTo(ins, a) ==
  LET offset == Signed(ins.imm, FieldSpan(ins.op))
  IN IF ins.op = "adrp" THEN Page(a) + offset * PageSize ELSE a + offset

WithinBound(ins) ==
  \/ ins.op = "plain"
  \/ Cardinality({ i \in 1 .. idx : code[i].op # "plain" }) < MaxMixed
  \/ \A i \in 1 .. idx : /\ code[i].op = ins.op
                          /\ RefersTo(code[i], place.base + i - 1) = RefersTo(ins, pc)

FixNext ==
  /\ idx < count
  /\ \E ins \in InstructionsAt :
       /\ WithinBound(ins)
       /\ \/ __fix_branch_imm(ins) \/ __fix_cond_comp_test_branch(ins)
          \/ __fix_loadlit(ins) \/ __fix_pcreladdr(ins) \/ CopyInstruction(ins)

MovingNext == FixNext \/ JumpBehind

MovingSpec == MovingInit /\ [][MovingNext]_movingVars

-----------------------------------------------------------------------------
(***************************************************************************)
(* What the original instruction does and what its words in the trampoline *)
(* do, as a record: what, to which place, and where control goes next.     *)
(* Instruction j, wherever it is, is the place "at" j; a prefetch may be   *)
(* skipped.                                                                *)
(***************************************************************************)
Effect(does, to, next) == [does |-> does, to |-> to, next |-> next]
Nowhere == <<>>

SkipPrefetch(j) == Min({ k \in j .. count : k = count \/ code[k + 1].op # "prfm" })

OriginalPlace(a) ==
  IF a - place.base \in 0 .. count THEN <<"at", SkipPrefetch(a - place.base)>>
  ELSE <<"elsewhere", a>>

Target(j) == RefersTo(code[j + 1], place.base + j)

Original(j) ==
  LET op == code[j + 1].op
      next == <<"at", SkipPrefetch(j + 1)>>
      to == OriginalPlace(Target(j))
  IN CASE op = "plain" -> Effect(op, <<"instruction", j>>, next)
       [] op = "b"     -> Effect("jump", to, Nowhere)
       [] op = "bl"    -> Effect("call", to, next)
       [] op \in DOMAIN Loads ->
            Effect(op, <<"words", [k \in 1 .. Loads[op] |-> Target(j) + k - 1]>>, next)
       [] op = "adrp"  -> Effect("adr", to, next)
       [] OTHER        -> Effect(op, to, next)

InTrampoline(a) == a - place.tramp \in 0 .. Len(out) - 1
At(a)    == out[a - place.tramp + 1]
Awake(a) == Min({ t \in a .. place.tramp + Len(out) - 1 : At(t).op # "nop" })

Entry(j)   == Awake(start[j + 1])
Entries(a) == { j \in 0 .. count : Entry(j) = Awake(a) }

NewPlace(a) ==
  IF InTrampoline(a)
  THEN IF Entries(a) = {} THEN <<"lost", a>> ELSE <<"at", Max(Entries(a))>>
  ELSE IF a = place.base + count THEN <<"at", count>>
  ELSE IF is_in_fixing_range(a) THEN <<"overwritten", a>>
  ELSE <<"elsewhere", a>>

Relative(a) == a + Signed(At(a).imm, FieldSpan(At(a).op))

Constant(a) == IF InTrampoline(a) /\ At(a).op = "addr" THEN At(a).imm ELSE a

\* Where control that reaches a goes, behind the words that only pass it on.
Continues(a) ==
  IF ~ InTrampoline(a) \/ Entries(a) # {} THEN NewPlace(a)
  ELSE IF At(Awake(a)).op = "b" THEN NewPlace(Relative(Awake(a)))
  ELSE IF At(Awake(a)).op = "ldr17" THEN NewPlace(Constant(Awake(a) + At(Awake(a)).imm))
  ELSE <<"lost", a>>

LoadedWord(a) ==
  IF InTrampoline(a) THEN IF At(a).op = "lit" THEN At(a).imm ELSE -1
  ELSE IF is_in_fixing_range(a) THEN -1 ELSE a

Relocated(j) ==
  LET e == Entry(j)
      w == At(e)
      next == Continues(e + 1)
  IN CASE w.op = "plain" -> Effect("plain", <<"instruction", w.imm>>, next)
       [] w.op = "b"     -> Effect("jump", NewPlace(Relative(e)), Nowhere)
       [] w.op = "bl"    -> Effect("call", NewPlace(Relative(e)), next)
       [] w.op = "ldr17" /\ At(e + 1).op = "br17" ->
            Effect("jump", NewPlace(Constant(e + w.imm)), Nowhere)
       [] w.op = "ldr17" /\ At(e + 1).op = "adr30" ->
            Effect("call", NewPlace(Constant(e + w.imm)), Continues(e + 1 + At(e + 1).imm))
       [] w.op \in Conditionals -> Effect(w.op, Continues(Relative(e)), next)
       [] w.op \in DOMAIN Loads ->
            Effect(w.op, <<"words", [k \in 1 .. Loads[w.op] |-> LoadedWord(Relative(e) + k - 1)]>>, next)
       [] w.op = "ldra"  -> Effect(At(e + w.imm).imm[1], NewPlace(At(e + w.imm).imm[2]), next)
       [] w.op = "adrp"  ->
            Effect("adr", NewPlace(Page(e) + Signed(w.imm, PageSpan) * PageSize), next)
       [] w.op \in AddressOps -> Effect(w.op, NewPlace(Relative(e)), next)
       [] OTHER -> Effect("lost", Nowhere, next)

(***************************************************************************)
(* The instructions the code gets wrong, each with the reason.             *)
(***************************************************************************)
\* The offset is read without its sign, of everything but b and bl.
Backward(j) ==
  /\ code[j + 1].op \in Conditionals \cup DOMAIN Loads \cup AddressOps
  /\ Signed(code[j + 1].imm, FieldSpan(code[j + 1].op)) < 0

\* The size bits of a load are overwritten by the sign of the offset from the trampoline.
LiteralBehind(j) ==
  /\ code[j + 1].op \in DOMAIN Loads \ {"ldrx", "ldrsw"}
  /\ ~ CopiesLiteral(code[j + 1].op, Target(j), start[j + 1])
  /\ Target(j) < start[j + 1] + Loads[code[j + 1].op]

\* The register of an ADR is overwritten by the low bits of the offset.
LabelOffWord(j) == code[j + 1].op = "adru" /\ ~ is_in_fixing_range(Target(j))

\* An ADRP of a page that begins inside the moved instructions is copied as it is.
PageInside(j) == code[j + 1].op = "adrp" /\ is_in_fixing_range(Target(j))

\* An ADRP that is not padded is recorded at its address in the writable mapping.
RefersToAdrp(j) ==
  /\ code[j + 1].op \in Branches \cup Conditionals \cup {"adr", "adru"}
  /\ is_in_fixing_range(Target(j))
  /\ code[Target(j) - place.base + 1].op = "adrp"
  /\ Target(j) # place.base + j

Deviates(j) ==
  \/ Backward(j) \/ LiteralBehind(j) \/ LabelOffWord(j)
  \/ PageInside(j) \/ RefersToAdrp(j)

-----------------------------------------------------------------------------
TypeOK ==
  /\ place \in Placements
  /\ idx <= count /\ Len(dat) = idx
  /\ \A i \in DOMAIN dat : dat[i] - place.tramp \in 0 .. Len(out) \/ dat[i] - place.rw \in 0 .. Len(out)
  /\ \A i \in DOMAIN fmap : /\ fmap[i] \subseteq 1 .. Len(out)
                           /\ fmap[i] # {} => i < count
  /\ done \in BOOLEAN

\* What is behind the moved instructions goes back to the function, behind those that
\* were overwritten.
GoesBack ==
  LET e == Entry(count)
  IN \/ At(e).op = "b" /\ Relative(e) = place.base + count
     \/ /\ At(e).op = "ldr17" /\ At(e + 1).op = "br17"
        /\ Constant(e + At(e).imm) = place.base + count

\* Every moved instruction does in the trampoline what it did in the function, and
\* goes on to where it went on, back in the function at last: the original function,
\* called through the trampoline, does what it always did.
OriginalKept ==
  done => /\ GoesBack
          /\ \A j \in Indices :
               code[j + 1].op = "prfm" \/ Deviates(j) \/ Relocated(j) = Original(j)

\* static_assert(MaxInstructions * 10): no five instructions fill the 50 words.
Fits == Len(out) <= TrampolineWords

\* The addresses and literals the trampoline loads are aligned to their size.
LiteralsAligned ==
  done => \A p \in 1 .. Len(out) :
            /\ out[p].op \in {"ldr17", "ldra"} => (place.tramp + p - 1 + out[p].imm) % 2 = 0
            /\ p > 2 /\ out[p].op = "lit" /\ out[p - 1].op = "b"
                 => (place.tramp + p - 1) % Copied(out[p - 2].op) = 0

\* A trampoline is whole: words of the forms there are, no more than its fifty, and
\* each literal where the processor can load it.
TrampolineWhole == TypeOK /\ Fits /\ LiteralsAligned
=============================================================================
