------------------------------ MODULE LiveCode ------------------------------
(***************************************************************************)
(* Code changed under a running program: source/lib/hook and the patchers  *)
(* of source/lib/patch write instructions (Encoders) through writable      *)
(* mappings (Mappings), and the processor executes what it fetches.        *)
(* Words are records: an instruction the program was built with, one that  *)
(* was encoded here, or half of an address.  How a moved instruction is    *)
(* rewritten is Relocation's subject: here it is moved as it is, a branch  *)
(* is made to reach its target again, and a constant moves with its load.  *)
(***************************************************************************)
EXTENDS Encoders, Mappings

CONSTANTS
  Functions,        \* name -> [base, len]
  Kinds,            \* callback -> "replace", "trampoline", "inline" or "inline_float"
  HookPool, InlinePool,           \* where the pools are: [base, size]
  MainStart, MainSize,            \* what the patchers map
  CallbackBase, ImplBase, Caller, \* code that is not modelled word by word
  Code,             \* sets of words: functions, pools and where patches go
  Spots,            \* where hooks are installed
  PatchSpots,       \* where patches are written, in words from MainStart
  Instructions,     \* what patches write
  MaxHooks, MaxPatches            \* bounds

VARIABLES
  mem,          \* words written over the program's own
  index,        \* trampolines handed out
  s_EntryIndex, \* inline entries handed out
  orig,         \* callback -> its trampoline; for hooks with a trampoline, OrigRef()
  job,          \* the installation under way
  installed,    \* history: instruction -> callbacks
  cpu,          \* the thread of the target
  patcher,      \* the patcher that exists, if any
  asked         \* history: what patches were asked for

codeVars == <<mem, index, s_EntryIndex, orig, job, installed, cpu, patcher, asked>>
vars == <<procVars, mapVars, codeVars>>

Ins(bits) == [kind |-> "instruction", bits |-> bits]
Own(a)    == [kind |-> "own", at |-> a]
Address(a) == <<[kind |-> "address", a |-> a], [kind |-> "high"]>>

Aarch64Nop == Ins(Bits(\h5503201f) \cup {31})
LdrX17     == Ins(Bits(\h58000051))
BrX17      == Ins(Bits(\h561f0220) \cup {31})
B(pc_offset) == Ins(SetBits(Bits(\h14000000), 0, 26, pc_offset))

Fetch(a) == IF Phys(a) \in DOMAIN mem THEN mem[Phys(a)] ELSE Own(a)

\* Words written from address a on; the word at a has kind "own" if it was never written.
Poke(a, words) == [w \in { Phys(a + k - 1) : k \in DOMAIN words }
                     |-> words[CHOOSE k \in DOMAIN words : Phys(a + k - 1) = w]]

InCode(w) == w \in UNION Code

TrampolineSize == 50
HookMax == HookPool.size \div TrampolineSize
EntryWords == 6                             \* sizeof(Entry)
InlinePoolCount == InlinePool.size \div EntryWords

CallbackAt(c) == CallbackBase + 2 * c       \* callbacks are numbers
ResumeAt(c)   == CallbackAt(c) + 1          \* behind its call of Orig
GetImpl(use_float_impl) == ImplBase + 2 * Bit(use_float_impl)

\* What the hook classes ask of Hook and HookInline.
DoTrampoline(c) == Kinds[c] # "replace"
IsInline(c)     == Kinds[c] \in {"inline", "inline_float"}
CaptureFloats(c) == Kinds[c] = "inline_float"

\* Code is mapped, and hooks, patches and both pools are code.  setting::JitSize leaves
\* 46 words behind the last trampoline that HookMax counts.
ASSUME LiveCodeConstants ==
  /\ {HookPool, InlinePool} \subseteq [base : Nat \ {0}, size : Nat \ {0}]
  /\ HookPool.size % TrampolineSize >= 30
  /\ MainStart \in Nat /\ MainSize \in Nat \ {0}
  /\ Spots \subseteq Nat /\ PatchSpots \subseteq 0 .. MainSize - 1
  /\ \A w \in UNION Code : w \in Nat /\ PageOf(w) \in DOMAIN Layout /\ Layout[PageOf(w)] # "unmapped"
  /\ \A pool \in {HookPool, InlinePool} : pool.base .. pool.base + pool.size - 1 \subseteq UNION Code
  /\ \A a \in Spots : a .. a + 4 \subseteq UNION Code
  /\ \A addr \in PatchSpots : MainStart + addr \in UNION Code

NoJob == [step |-> "none"]
Idle  == [f |-> "none", log |-> <<>>]
NoPatcher == [type |-> "none", start |-> NULL, current |-> NULL]

Init ==
  /\ ProcInit /\ MapInit
  /\ mem = <<>> /\ index = -1 /\ s_EntryIndex = 0
  /\ orig = <<>> /\ job = NoJob /\ installed = <<>>
  /\ cpu = Idle /\ patcher = NoPatcher /\ asked = <<>>

Quiet == ~ dead /\ job = NoJob /\ cpu = Idle /\ patcher = NoPatcher

-----------------------------------------------------------------------------
(* Start-up, in the order of exl_init and exl_main. *)
Setup == ~ dead /\ virtmemSetup /\ UNCHANGED <<procVars, codeVars>>

\* proc_handle::Get, as the first mapping is made.
GetHandle ==
  /\ regions # <<>>
  /\ ClientNext \/ ServerNext
  /\ UNCHANGED <<mapVars, codeVars>>

InitPatcherImpl == regions # <<>> /\ claims = <<>> /\ RwPages("patcher", MainStart, MainSize)
\* A Jit is a pool that is mapped again for as long as the module lives.
JitInitialize(name, pool) == RwPages(name, pool.base, pool.size)
InitializeHooks == DOMAIN claims = {"patcher"} /\ JitInitialize("hooks", HookPool)
InitializeInline == DOMAIN claims = {"patcher", "hooks"} /\ JitInitialize("inline", InlinePool)

Start == (InitPatcherImpl \/ InitializeHooks \/ InitializeInline) /\ UNCHANGED <<procVars, codeVars>>

Ready == {"patcher", "hooks", "inline"} \subseteq DOMAIN claims

-----------------------------------------------------------------------------
(***************************************************************************)
(* Hook and HookInline.  Everything runs on the thread that starts the     *)
(* module, before the target does.                                         *)
(***************************************************************************)
\* llabs(pc_offset) >= (mask >> 1).
Far(a, b) == (IF a < b THEN b - a ELSE a - b) >= 2^25 - 1

\* The words a hook overwrites: a branch, or a load, a branch and an address.
CountAt(a, replace) == IF ~ Far(a, replace) THEN 1 ELSE IF (a + 2) % 2 = 0 THEN 4 ELSE 5
ClaimedAt(a, replace) == IF Far(a, replace) THEN 5 ELSE 1

Jump(from, to, pad) ==
  IF Far(from, to)
  THEN (IF pad THEN <<Aarch64Nop>> ELSE <<>>) \o <<LdrX17, BrX17>> \o Address(to)
  ELSE <<B(to - from)>>

\* Branches taken along as they are.
MovedAsItIs(a, rx) == <<Fetch(a)>>

\* The word at a, made to do at rx what it did at a.
Moved(a, rx) ==
  LET w == Fetch(a) IN
  IF w.kind # "instruction" \/ Decode(w.bits).op \notin {"b", "ldrl"} THEN <<w>>
  ELSE LET to == a + Decode(w.bits).operands[Len(Decode(w.bits).operands)] \div 4
       IN IF Decode(w.bits).op = "b" THEN Jump(rx, to, (rx + 2) % 2 = 1)
          ELSE (IF rx % 2 = 1 THEN <<Aarch64Nop>> ELSE <<>>) \o
               <<LdrX17, B(3), Fetch(to), [kind |-> "high"]>>

\* A trampoline that goes back to the hook.
BackToTheHook(a, count, rx) ==
  [k \in 1 .. count |-> Fetch(a + k - 1)]
  \o Jump(rx + count, a, (rx + count + 2) % 2 = 1)

\* With the k-th of the words at a, if it is among those that a hook overwrites.
MoveOn(out, k, a, count, rx) ==
  IF k > count THEN out ELSE out \o Moved(a + k - 1, rx + Len(out))

\* __fix_instructions: the first count words at a, and a jump behind them.
Trampoline(a, count, rx) ==
  LET moved == MoveOn(MoveOn(MoveOn(MoveOn(Moved(a, rx), 2, a, count, rx), 3, a, count, rx),
                             4, a, count, rx), 5, a, count, rx)
      end == rx + Len(moved)
  IN moved \o Jump(end, a + count, (end + 2) % 2 = 1)

\* Callers keep hooks apart that overwrite more than one word.
Apart(a, n) ==
  \A s \in DOMAIN installed : s = a \/ s \notin a - 4 .. a + n - 1

InstalledCallbacks == UNION { ToSet(installed[a]) : a \in DOMAIN installed }

(* HookInline's entry is taken first; AllocForTrampoline may hand out one slot *)
(* more than HookPool has.                                                     *)
HookBegin(a, c) ==
  /\ Quiet /\ Ready /\ asked = <<>>
  /\ c \notin InstalledCallbacks /\ Cardinality(InstalledCallbacks) < MaxHooks
  /\ LET inline == IsInline(c)
         entry == IF inline THEN InlinePool.base + s_EntryIndex * EntryWords ELSE 0
         replace == IF inline THEN entry ELSE CallbackAt(c)
         slot == IF DoTrampoline(c) THEN index + 1 ELSE -1
     IN /\ Apart(a, ClaimedAt(a, replace))
        /\ index' = IF slot = -1 THEN index ELSE slot
        /\ s_EntryIndex' = s_EntryIndex + Bit(inline)
        /\ IF slot > HookMax \/ (inline /\ s_EntryIndex >= InlinePoolCount)
           THEN Abort /\ UNCHANGED job
           ELSE /\ job' = [step |-> "claim", at |-> a, cb |-> c, replace |-> replace,
                           slot |-> slot, entry |-> entry]
                /\ UNCHANGED mapVars
  /\ UNCHANGED <<procVars, mem, orig, installed, cpu, patcher, asked>>

HookClaim ==
  /\ job.step = "claim"
  /\ RwPages("hook", job.at, ClaimedAt(job.at, job.replace))
  /\ job' = [job EXCEPT !.step = "write"]
  /\ UNCHANGED <<procVars, mem, index, s_EntryIndex, orig, installed, cpu, patcher, asked>>

\* Words that were written, through the mapping at rw, and the cache lines dropped since.
Wrote(rw, words, dropped) ==
  /\ mem' = Over(Poke(rw, words), mem)
  /\ stale' = (stale \cup DOMAIN Poke(rw, words)) \ dropped

HookWrite ==
  /\ ~ dead /\ job.step = "write"
  /\ LET count == CountAt(job.at, job.replace)
         rx == HookPool.base + job.slot * TrampolineSize
         rw == claims["hooks"].rw + job.slot * TrampolineSize
         words == Jump(job.at, job.replace, count = 5)
         moved == IF job.slot = -1 THEN <<>> ELSE Trampoline(job.at, count, rx)
         target == Poke(claims["hook"].rw, words)
     IN /\ mem' = Over(Poke(rw, moved), Over(target, mem))
        /\ stale' = ((stale \cup DOMAIN target \cup DOMAIN Poke(rw, moved))
                      \ (IF moved = <<>> THEN {} ELSE Invalidated(rw, Len(moved))))
                      \ Invalidated(job.at, ClaimedAt(job.at, job.replace))
  /\ job' = [job EXCEPT !.step = "release"]
  /\ UNCHANGED <<procVars, regions, reservations, window, claims, dead,
                 index, s_EntryIndex, orig, installed, cpu, patcher, asked>>

HookRelease ==
  /\ ~ dead /\ job.step = "release"
  /\ Unclaim("hook")
  /\ job' = [job EXCEPT !.step = "finish"]
  /\ UNCHANGED <<procVars, mem, index, s_EntryIndex, orig, installed, cpu, patcher, asked>>

\* An entry that does not give LR back.
EntryWithoutLR(c, entry, trampoline) ==
  LET impl == GetImpl(CaptureFloats(c)) IN
  <<Ins(SturUnscaledImmediate(LR, SP, -16)),
    Ins(BranchLink(4 * (impl - (entry + 1)))),
    Ins(Nop),
    Ins(Branch(4 * (trampoline - (entry + 3))))>> \o Address(CallbackAt(c))

\* Only now is an inline hook's entry written: nobody has called it yet.
EntryOf(c, entry, trampoline) ==
  LET impl == GetImpl(CaptureFloats(c)) IN
  <<Ins(SturUnscaledImmediate(LR, SP, -16)),
    Ins(BranchLink(4 * (impl - (entry + 1)))),
    Ins(LdurUnscaledImmediate(LR, SP, -16)),
    Ins(Branch(4 * (trampoline - (entry + 3))))>> \o Address(CallbackAt(c))

HookFinish ==
  /\ ~ dead /\ job.step = "finish"
  /\ LET rx == IF job.slot = -1 THEN 0 ELSE HookPool.base + job.slot * TrampolineSize
         entry == IF job.entry = 0 THEN <<>> ELSE EntryOf(job.cb, job.entry, rx)
     IN /\ Wrote(claims["inline"].rw + (job.entry - InlinePool.base), entry,
                 Flushed("hooks") \cup (IF entry = <<>> THEN {} ELSE Flushed("inline")))
        /\ orig' = Put(job.cb, rx, orig)
  /\ installed' =
       Put(job.at, (IF job.at \in DOMAIN installed THEN installed[job.at] ELSE <<>>) \o <<job.cb>>,
           installed)
  /\ job' = NoJob
  /\ UNCHANGED <<procVars, regions, reservations, window, claims, dead,
                 index, s_EntryIndex, cpu, patcher, asked>>

HookNext ==
  \/ \E a \in Spots, c \in DOMAIN Kinds : HookBegin(a, c)
  \/ HookClaim \/ HookWrite \/ HookRelease \/ HookFinish

-----------------------------------------------------------------------------
(***************************************************************************)
(* CodePatcher and RandomAccessPatcher: addresses count from the start of  *)
(* the main module; what was written is flushed as the patcher moves on or *)
(* is destroyed.                                                           *)
(***************************************************************************)
RoFromAddr(addr) == claims["patcher"].ro + addr
RwFromAddr(addr) == claims["patcher"].rw + addr

PatchFrame == UNCHANGED <<procVars, regions, reservations, window, claims, dead,
                          index, s_EntryIndex, orig, job, installed, cpu>>

StreamPatcher(start) ==
  /\ Quiet /\ Ready /\ installed = <<>> /\ asked = <<>>
  /\ patcher' = [type |-> "stream", start |-> start, current |-> start]
  /\ UNCHANGED <<mem, stale, asked>> /\ PatchFrame

RandomAccessPatcher ==
  /\ Quiet /\ Ready /\ installed = <<>> /\ asked = <<>>
  /\ patcher' = [NoPatcher EXCEPT !.type = "random"]
  /\ UNCHANGED <<mem, stale, asked>> /\ PatchFrame

WriteInst(bits, meaning) ==
  /\ patcher.type = "stream" /\ patcher.current \in PatchSpots
  /\ Wrote(RwFromAddr(patcher.current), <<Ins(bits)>>, {})
  /\ patcher' = [patcher EXCEPT !.current = @ + 1]
  /\ asked' = Put(patcher.current, meaning, asked)
  /\ PatchFrame

\* The bounds: any instruction alone, branches also together, after each other.
OnlyBranches == \A p \in DOMAIN asked : asked[p].op \in {"b", "bl"}

Write(i) == asked = <<>> /\ patcher.current = patcher.start /\ WriteInst(Encode(i), Meaning(i))

\* Relative to where the patcher is.
BranchInst(link, address) ==
  LET relative == 4 * (address - patcher.current) IN
  /\ patcher.type = "stream"
  /\ OnlyBranches
  /\ Cardinality(DOMAIN asked) < MaxPatches
  /\ WriteInst(IF link THEN BranchLink(relative) ELSE Branch(relative),
               Read(IF link THEN "bl" ELSE "b", TRUE, <<relative>>))

Dropped == IF patcher.start = patcher.current THEN {}
           ELSE Invalidated(RoFromAddr(patcher.start), patcher.current - patcher.start)

Seek(address) ==
  /\ patcher.type = "stream" /\ address # patcher.current /\ OnlyBranches
  /\ stale' = stale \ Dropped
  /\ patcher' = [patcher EXCEPT !.start = address, !.current = address]
  /\ UNCHANGED <<mem, asked>> /\ PatchFrame

\* The end of the words that were written, one short.
HighestShort(addr) == IF patcher.start = NULL THEN addr + 1
                      ELSE IF addr > patcher.current THEN addr ELSE patcher.current

\* m_Highest: behind the highest word that was written.
Highest(addr) == IF patcher.start = NULL THEN addr + 1
                 ELSE IF addr + 1 > patcher.current THEN addr + 1 ELSE patcher.current

Lowest(addr) == IF patcher.start = NULL \/ addr < patcher.start THEN addr ELSE patcher.start

RandomWrite(addr) ==
  /\ patcher.type = "random" /\ Cardinality(DOMAIN asked) < MaxPatches
  /\ patcher' = [patcher EXCEPT !.start = Lowest(addr), !.current = Highest(addr)]
  /\ Wrote(RwFromAddr(addr), <<Ins(Nop)>>, {})
  /\ asked' = Put(addr, Read("nop", TRUE, <<>>), asked)
  /\ PatchFrame

DestroyPatcher ==
  /\ patcher.type # "none"
  /\ stale' = stale \ Dropped
  /\ patcher' = NoPatcher
  /\ UNCHANGED <<mem, asked>> /\ PatchFrame

PatchNext ==
  \/ \E a \in PatchSpots : StreamPatcher(a) \/ Seek(a) \/ RandomWrite(a)
  \/ RandomAccessPatcher \/ DestroyPatcher
  \/ \E i \in Instructions : Write(i)
  \/ \E link \in BOOLEAN, a \in PatchSpots : BranchInst(link, a)

-----------------------------------------------------------------------------
(***************************************************************************)
(* The thread of the target, once the module is installed.  The registers  *)
(* are some of X0 to X30, SP as 31 and a vector register as 32; the stack  *)
(* is counted in 8 bytes.  want is what the code finds in its registers if *)
(* callbacks change nothing but what they mean to.                         *)
(***************************************************************************)
Saved == {0, 17, 19, 20, 29}               \* of X0 to X29, what a frame keeps
LRNo == 30
SPNo == 31
QNo == 32

Registers == [r \in Saved \cup {LRNo, SPNo, QNo} |->
                IF r = LRNo THEN Caller ELSE IF r = SPNo THEN 0 ELSE - 100 - r]

CtxStackBaseSize == 32
CtxStackFloatSize == 64

CpuFrame == UNCHANGED <<procVars, mapVars, mem, index, s_EntryIndex, orig, job, installed,
                        patcher, asked>>

Call(f) ==
  /\ Quiet /\ Ready /\ DOMAIN claims = {"patcher", "hooks", "inline"} /\ asked = <<>>
  /\ cpu' = [f |-> f, pc |-> Functions[f].base, x |-> Registers, stack |-> <<>>,
             want |-> Registers, log |-> <<>>]
  /\ CpuFrame

EndOf(a) == \E f \in DOMAIN Functions : a = Functions[f].base + Functions[f].len - 1

Go(pc) == [cpu EXCEPT !.pc = pc]

\* One word of the program: an instruction it was built with, or one written here.
Execute ==
  /\ ~ dead /\ cpu.f # "none" /\ InCode(Phys(cpu.pc))
  /\ LET w == Fetch(cpu.pc)
         d == Decode(w.bits)
         n == d.operands
         address == cpu.x[SPNo] + n[3] \div 8
     IN cpu' =
       IF w.kind = "own"
       THEN [Go(IF EndOf(w.at) THEN cpu.x[LRNo] ELSE cpu.pc + 1)
               EXCEPT !.log = Append(@, <<"instruction", w.at>>)]
       ELSE CASE d.op = "nop"  -> Go(cpu.pc + 1)
              [] d.op = "b"    -> Go(cpu.pc + n[1] \div 4)
              [] d.op = "bl"   -> [Go(cpu.pc + n[1] \div 4) EXCEPT !.x[LRNo] = cpu.pc + 1]
              [] d.op = "br"   -> [Go(cpu.x[n[1]]) EXCEPT !.want = Without(@, {17})]
              [] d.op = "ldrl" -> [Go(cpu.pc + 1) EXCEPT !.x[n[1]] = Fetch(cpu.pc + n[2] \div 4).a]
              [] d.op = "stur" -> [Go(cpu.pc + 1) EXCEPT !.stack = Put(address, cpu.x[n[1]], @)]
              [] d.op = "ldur" -> [Go(cpu.pc + 1) EXCEPT !.x[n[1]] = cpu.stack[address]]
  /\ CpuFrame

\* Where SP is while the callback runs, and where the registers are from there.
FrameOf(float) == CtxStackBaseSize + (IF float THEN CtxStackFloatSize ELSE 0)
GpAt(float) == IF float THEN CtxStackFloatSize ELSE 0

\* exl_inline_hook_impl and exl_inline_float_hook_impl, up to the call.
InlineHookImpl(float) ==
  /\ ~ dead /\ cpu.f # "none" /\ cpu.pc = GetImpl(float)
  /\ LET sp == cpu.x[SPNo] - FrameOf(float)
         gps == [a \in { sp + GpAt(float) + r : r \in Saved } |-> cpu.x[a - sp - GpAt(float)]]
         callback == Fetch(cpu.x[LRNo] + 2).a
     IN cpu' = [Go(callback) EXCEPT
                  !.stack = IF float THEN Put(sp, cpu.x[QNo], Over(gps, @)) ELSE Over(gps, @),
                  !.x = [@ EXCEPT ![SPNo] = sp, ![0] = sp, ![19] = cpu.x[LRNo],
                                  ![20] = callback, ![LRNo] = cpu.pc + 1]]
  /\ CpuFrame

\* Behind the call: LR is kept in X19, which the callback keeps.
InlineHookReturn(float) ==
  /\ ~ dead /\ cpu.f # "none" /\ cpu.pc = GetImpl(float) + 1
  /\ LET sp == cpu.x[SPNo]
     IN cpu' = [Go(cpu.x[19]) EXCEPT
                  !.x = [r \in DOMAIN @ |->
                           CASE r \in Saved -> cpu.stack[sp + GpAt(float) + r]
                             [] r = LRNo -> cpu.x[19]
                             [] r = SPNo -> sp + FrameOf(float)
                             [] r = QNo  -> IF float THEN cpu.stack[sp] ELSE @[r]]]
  /\ CpuFrame

-----------------------------------------------------------------------------
(* Callbacks: compiled code, which keeps the registers a function keeps.  *)
Clobbered(x) == [r \in DOMAIN x |-> IF r \in {0, 17, QNo} THEN -1 ELSE x[r]]
Logged(c) == Append(cpu.log, <<"callback", c>>)

\* It returns to the caller, and never gets to the function.
ReturnFrom(c) ==
  /\ cpu.pc = CallbackAt(c) /\ Kinds[c] \in {"replace", "trampoline"}
  /\ cpu' = [Go(cpu.x[LRNo]) EXCEPT !.x = Clobbered(@), !.log = Logged(c)]

\* Orig, with the arguments it got, from a frame that keeps its LR.
CallOrig(c) ==
  /\ cpu.pc = CallbackAt(c) /\ Kinds[c] = "trampoline"
  /\ LET sp == cpu.x[SPNo] - 4
         regs(x) == [r \in DOMAIN x |-> CASE r = SPNo -> sp [] r = LRNo -> ResumeAt(c)
                                          [] OTHER -> x[r]]
     IN cpu' = [Go(orig[c]) EXCEPT !.stack = Put(sp, cpu.x[LRNo], @), !.x = regs(@),
                                   !.want = regs(@), !.log = Logged(c)]

ResumeCallback(c) ==
  /\ cpu.pc = ResumeAt(c)
  /\ LET sp == cpu.x[SPNo]
     IN cpu' = [Go(cpu.stack[sp]) EXCEPT !.x[SPNo] = sp + 4, !.x[LRNo] = cpu.stack[sp]]

\* Registers an inline hook does not save, and those of a callback with floats that
\* writes X[0]: InlineFloatCtx has the general registers where the stack has vectors.
Unpromised(c, edits) ==
  IF ~ CaptureFloats(c) THEN {QNo} ELSE IF edits THEN {0, QNo} ELSE {}

InlineCallback(c, edits) ==
  /\ cpu.pc = CallbackAt(c) /\ IsInline(c)
  /\ LET ctx == cpu.x[0]
         kept == Without(cpu.want, Unpromised(c, edits))
     IN cpu' = [Go(cpu.x[LRNo]) EXCEPT
                  !.stack = IF edits THEN Put(ctx, -7, @) ELSE @,
                  !.want = IF edits /\ 0 \in DOMAIN kept THEN [kept EXCEPT ![0] = -7] ELSE kept,
                  !.x = Clobbered(@), !.log = Logged(c)]

CallbackNext ==
  /\ ~ dead /\ cpu.f # "none"
  /\ \E c \in DOMAIN Kinds :
       ReturnFrom(c) \/ CallOrig(c) \/ ResumeCallback(c)
       \/ \E edits \in BOOLEAN : InlineCallback(c, edits)
  /\ CpuFrame

\* Whatever the caller does next, it has lost what the call left below its stack.
ReturnToCaller ==
  /\ ~ dead /\ cpu.f # "none" /\ cpu.pc = Caller
  /\ cpu' = Idle
  /\ CpuFrame

CpuNext ==
  \/ Execute \/ CallbackNext \/ ReturnToCaller
  \/ \E float \in BOOLEAN : InlineHookImpl(float) \/ InlineHookReturn(float)

Next ==
  \/ Setup \/ GetHandle \/ Start \/ HookNext \/ PatchNext
  \/ (\E f \in DOMAIN Functions : Call(f)) \/ CpuNext

\* The processor goes on.
Spec == Init /\ [][Next]_vars /\ WF_vars(CpuNext)

-----------------------------------------------------------------------------
(***************************************************************************)
(* Whenever nobody is writing code, no word that was written is left in    *)
(* the instruction cache as it was before.                                 *)
(***************************************************************************)
CodeIsFresh == Quiet \/ cpu # Idle => stale = {}

(***************************************************************************)
(* Code is written over the functions of the target and into the pools and *)
(* nowhere else: no trampoline grows out of the pool's mapping, the one    *)
(* that AllocForTrampoline hands out past HookMax included.                *)
(***************************************************************************)
WritesStayInCode == \A w \in DOMAIN mem : InCode(w)

(***************************************************************************)
(* What is writable is what is meant: every claim shows its own pages, and *)
(* what was written through one landed in code.                            *)
(***************************************************************************)
WritesInPlace == ClaimsApart /\ WritesStayInCode

(***************************************************************************)
(* An instruction the program was built with, moved or not, finds the      *)
(* registers its function had, as changed by those callbacks that mean to; *)
(* X17 is not kept by a jump that needs it.                                *)
(***************************************************************************)
ContextKept ==
  cpu.f # "none" /\ InCode(Phys(cpu.pc)) =>
    (Fetch(cpu.pc).kind = "own" => \A r \in DOMAIN cpu.want : cpu.x[r] = cpu.want[r])

(***************************************************************************)
(* Where a patch was written, the processor reads the instruction that was *)
(* asked for: every operand in its field, relative ones from that place.   *)
(***************************************************************************)
PatchesDecode ==
  \A p \in DOMAIN asked : /\ Fetch(RoFromAddr(p)).kind = "instruction"
                          /\ Decode(Fetch(RoFromAddr(p)).bits) = asked[p]

\* Hooks as a promise: who runs, in which order, how often.
I == INSTANCE Interposition WITH hooked <- installed, running <- cpu.f, log <- cpu.log

ImplementsInterposition == I!Spec

\* A call of a hooked function returns.
CallsReturn == cpu.f # "none" ~> cpu.f = "none"
=============================================================================
