------------------------------ MODULE StartUp ------------------------------
(***************************************************************************)
(* From the runtime linker to exl_main (source/lib/init/init.cpp): the     *)
(* modules are linked, this one looks for them (MemLayout), maps the code  *)
(* of the program, overrides names in its own slots (Loader), runs its     *)
(* constructors and installs its hooks, before any thread of the program   *)
(* calls through a slot.  A check that fails anywhere ends in Abort.       *)
(***************************************************************************)
EXTENDS MemLayout, Loader, Abort

CONSTANTS
  Layouts,        \* address spaces
  Place,         \* module -> its ModuleIndex
  This,           \* this module
  TableSets,      \* UserTableSet; the program's is empty
  Versions,       \* UserVersion
  Order,          \* in which the modules are linked
  Lazy            \* modules whose calls are bound when they are made

ASSUME StartUpAssumption ==
  /\ \A l \in Layouts : AddressSpace(l)
  /\ \A tables \in TableSets : Compiles(tables)

VARIABLES
  pc,             \* what exl_module_init is at
  s_UserTableSet, s_UserVersion,
  loaded,         \* history: ModuleIndex -> where the module is
  patched         \* what InitPatcherImpl maps: [start, size]

userVars == <<s_UserTableSet, s_UserVersion>>
vars == <<layoutVars, loaderVars, abortVars, pc, userVars, loaded, patched>>

Unset == "unset"

\* Where the modules are.
Bases(l) ==
  LET s == Starts(l)
  IN [k \in { IndexIn(s, i) : i \in s } |-> l[CHOOSE i \in s : IndexIn(s, i) = k].start]
Base(m) == loaded[Place[m]]

(***************************************************************************)
(* What a linker writes into a file.  A word has one relocation; relative  *)
(* ones come first and are counted; slots of the linkage table have their  *)
(* stub in the word, no addend, and two words before them for the runtime  *)
(* linker.  A name has one definition; symbol 0 is none.                   *)
(***************************************************************************)
RelativeFirst(m, relocations, count) ==
  \A i \in DOMAIN relocations :
    IF relocations[i].type = "RELATIVE"
    THEN i <= Tag(m, count, 0) \/ (Place[m] = Rtld /\ Tag(m, count, 0) = 0)
    ELSE relocations[i].type # "JUMP_SLOT" /\ (i > Tag(m, count, 0) \/ Place[m] = Rtld)

Relocations(m) ==
  Seq([type : STRING, sym : DOMAIN File[m].symbols, offset : DOMAIN File[m].words, addend : Int])

OnePerWord(r) == \A i, j \in DOMAIN r : r[i].offset = r[j].offset => i = j
OtherWords(r, s) == \A i \in DOMAIN r, j \in DOMAIN s : r[i].offset # s[j].offset

LinkedFile(m) ==
  LET f == File[m]
      got == Tag(m, "PLTGOT", 0)
  IN /\ f.rel \in Relocations(m) /\ f.rela \in Relocations(m) /\ f.plt \in Relocations(m)
     /\ f.words \in [DOMAIN f.words -> Int]
     /\ f.symbols \in [DOMAIN f.symbols -> [name : DOMAIN Hash, value : Nat, defined : BOOLEAN,
                                            bind : STRING, hidden : BOOLEAN]]
     /\ \A i, j \in DOMAIN f.symbols :
          /\ f.symbols[i].defined => i # 0
          /\ f.symbols[i].defined /\ f.symbols[j].defined /\ f.symbols[i].name = f.symbols[j].name => i = j
     /\ OnePerWord(f.rel) /\ OnePerWord(f.rela) /\ OnePerWord(f.plt)
     /\ OtherWords(f.rel, f.rela) /\ OtherWords(f.rel, f.plt) /\ OtherWords(f.rela, f.plt)
     /\ Tag(m, "RELSZ", 0) = Len(f.rel) /\ Tag(m, "RELASZ", 0) = Len(f.rela)
     /\ Tag(m, "PLTRELSZ", 0) = Len(f.plt)
     /\ Tag(m, "RELCOUNT", 0) \in 0 .. Len(f.rel) /\ Tag(m, "RELACOUNT", 0) \in 0 .. Len(f.rela)
     /\ RelativeFirst(m, f.rel, "RELCOUNT") /\ RelativeFirst(m, f.rela, "RELACOUNT")
     /\ \A i \in DOMAIN f.plt : f.plt[i].type = "JUMP_SLOT" /\ f.plt[i].addend = 0
     /\ got \in Nat
     /\ f.plt # <<>> => got # 0 /\ got + 1 \in DOMAIN f.words /\ Tag(m, "PLTREL", "REL") = "RELA"
     /\ got # 0 => \A r \in {f.rel, f.rela, f.plt} : \A i \in DOMAIN r :
                     r[i].offset \notin {got + 1, got + 2}

(***************************************************************************)
(* The linker asks for no names and is not in the list.  This module's     *)
(* words have their addends beside them, as is usual on AArch64, and no    *)
(* name it asks for has the hash of another one's entry in a table.        *)
(***************************************************************************)
ASSUME FileAssumption ==
  /\ \A m \in DOMAIN File : LinkedFile(m)
  /\ \A l \in Layouts, m \in DOMAIN File : Place[m] \in DOMAIN Bases(l)
  /\ This \in DOMAIN File
  /\ List \in Seq({ m \in DOMAIN File : Place[m] # Rtld })
  /\ Order \in Seq(DOMAIN File) /\ \A m \in DOMAIN File : \E k \in DOMAIN Order : Order[k] = m
  /\ Manual \in [DOMAIN Manual -> Nat \ {0}] /\ Hash \in [DOMAIN Hash -> Nat]
  /\ \A m \in DOMAIN File : Place[m] = Rtld =>
       /\ File[m].plt = <<>>
       /\ \A r \in {File[m].rel, File[m].rela} : \A i \in DOMAIN r : ~ ByName(r[i].type)
  /\ \A i \in DOMAIN File[This].rel : ~ ByName(File[This].rel[i].type)
  /\ TableSets \subseteq Seq([version : STRING,
                              entries : Seq([name : DOMAIN Hash, index : Nat, offset : Int])])
  /\ \A tables \in TableSets : \A k \in DOMAIN tables : \A i \in DOMAIN tables[k].entries :
       \A j \in DOMAIN File[This].symbols :
         LET entry == tables[k].entries[i]  s == File[This].symbols[j]
         IN Hash[entry.name] = Hash[s.name] => entry.name = s.name

Init ==
  /\ \E l \in Layouts : loaded = Bases(l) /\ LayoutInit(l, loaded[Place[This]])
  /\ LoaderInit
  /\ AbortInit
  /\ pc = "link" /\ s_UserTableSet \in TableSets /\ s_UserVersion = Unset /\ patched = Nothing

NobodyAborts == \A t \in Aborters : aborting[t] = "running"

Alive == gone = "no" /\ ~ aborted

\* The runtime linker of the console, whose code source/rtld repeats: it relocates itself,
\* then one module after the other, and goes over them again for their names.
Link ==
  /\ Alive /\ pc = "link"
  /\ \E k \in DOMAIN Order :
       LET m == Order[k]
           Earlier(n, done) == \A i \in 1 .. n - 1 : linked[Order[i]] = done
       IN \/ /\ Earlier(k, "relocated")
             /\ IF Place[m] = Rtld THEN RelocateSelf(m, Base(m))
                ELSE Initialize(m, Base(m)) \/ Relocate(m)
          \/ /\ Earlier(k, "resolved")
             /\ \A i \in k .. Len(Order) : linked[Order[i]] = "relocated"
             /\ ResolveSymbols(m, m \in Lazy)
  /\ pc' = IF \A m \in DOMAIN File : linked'[m] = "resolved" THEN "layout" ELSE pc
  /\ UNCHANGED <<layoutVars, abortVars, userVars, loaded, patched>>

FindLayout ==
  /\ Alive /\ pc = "layout"
  /\ InitMemLayout /\ UNCHANGED pc
  /\ UNCHANGED <<loaderVars, abortVars, userVars, loaded, patched>>

\* GetMainModuleInfo() to the end of the read-only data.
CodeOf(info) == MemRange(info.total.start, RangeEnd(info.rodata) - info.total.start)

InitPatcherImpl ==
  /\ Alive /\ pc = "layout" /\ LayoutKnown
  /\ patched' = CodeOf(GetModuleInfo(Main))
  /\ pc' = "version"
  /\ UNCHANGED <<layoutVars, loaderVars, abortVars, userVars, loaded>>

\* The answer of DetermineUserVersion.
InitVersion ==
  /\ Alive /\ pc = "version"
  /\ s_UserVersion' \in Versions
  /\ pc' = "tables"
  /\ UNCHANGED <<layoutVars, loaderVars, abortVars, s_UserTableSet, loaded, patched>>

\* reloc::Initialize: nothing to do without tables, or without one for this version.
ApplyTables ==
  /\ Alive /\ pc = "tables"
  /\ IF s_UserTableSet = <<>> \/ ~ DoesTableExist(s_UserTableSet, s_UserVersion)
     THEN UNCHANGED loaderVars
     ELSE ApplyTable(This, GetSelfStart, Get(s_UserTableSet, s_UserVersion),
                     [j \in DOMAIN s_ModuleInfos |-> s_ModuleInfos[j].total.start])
  /\ pc' = "main"
  /\ UNCHANGED <<layoutVars, abortVars, userVars, loaded, patched>>

\* A result that is not a success, found by R_ABORT_UNLESS, or an assertion.  It reads
\* nothing of the linker's: it is tried where no call is being bound.
FailedCheck ==
  /\ gone = "no" /\ \A t \in Threads : call[t] = NoCall
  /\ \E t \in Aborters : (aborted \/ pc = "main") /\ AbortImpl(t)
  /\ UNCHANGED <<layoutVars, loaderVars, pc, userVars, loaded, patched>>

Aborting ==
  /\ \E t \in Aborters : AbortWithCtx(t)
  /\ UNCHANGED <<layoutVars, loaderVars, pc, userVars, loaded, patched>>

Calling ==
  /\ Alive /\ pc = "main" /\ NobodyAborts
  /\ \E t \in Threads :
       \/ \E m \in DOMAIN File : \E i \in DOMAIN File[m].plt : CallThrough(t, m, i)
       \/ LazyBind(t) \/ StoreSlot(t) \/ Jumped(t)
  /\ UNCHANGED <<layoutVars, abortVars, pc, userVars, loaded, patched>>

Next ==
  \/ Link \/ FindLayout \/ InitPatcherImpl \/ InitVersion \/ ApplyTables
  \/ FailedCheck \/ Aborting \/ Calling

\* The thread that starts goes on, and whoever aborts does.
Spec ==
  /\ Init /\ [][Next]_vars
  /\ WF_vars(Link \/ FindLayout \/ InitPatcherImpl \/ InitVersion \/ ApplyTables \/ (aborted /\ FailedCheck))
  /\ WF_vars(Aborting)

-----------------------------------------------------------------------------
(* What the linker promises, said without its steps. *)
\* The symbols of a module that define a name; those of others see none that are local.
Definitions(n, s) ==
  { i \in DOMAIN File[n].symbols :
      LET d == File[n].symbols[i] IN
      d.name = s.name /\ d.defined /\ (s.hidden \/ d.bind # "local") }

\* The module of the list that is asked first, or this one for a hidden name.
Definers(m, s) ==
  IF s.hidden THEN { n \in {m} : Definitions(n, s) # {} }
  ELSE LET those == { k \in DOMAIN List : Definitions(List[k], s) # {} }
       IN { List[k] : k \in { k \in those : \A j \in those : j <= k } }

Undefined(m, s) == Definers(m, s) = {} /\ (s.hidden \/ s.name \notin DOMAIN Manual)

Denoted(m, s) ==
  LET definers == Definers(m, s)
      n == The(definers)
  IN CASE definers # {} -> Base(n) + File[n].symbols[The(Definitions(n, s))].value
       [] Undefined(m, s) -> 0
       [] OTHER -> Manual[s.name]

\* What is written for a version, in whatever order.
TableOf(version) ==
  UNION { ToSet(s_UserTableSet[k].entries) :
          k \in First({ i \in DOMAIN s_UserTableSet : s_UserTableSet[i].version = version }) }

Promised(m, r, rela) ==
  LET old == File[m].words[r.offset]
      s == File[m].symbols[r.sym]
      With(address) == address + (IF rela THEN r.addend ELSE old)
      entries == { e \in TableOf(s_UserVersion) :
                     e.name = s.name /\ m = This /\ pc = "main" /\ e.index \in DOMAIN loaded }
  IN CASE r.type = "RELATIVE" -> With(Base(m))
       [] r.type # "RELATIVE" /\ ~ ByName(r.type) -> old
       [] ByName(r.type) /\ entries # {} ->
            With(loaded[The(entries).index] + The(entries).offset)
       [] ByName(r.type) /\ entries = {} /\ Undefined(m, s) /\ ~ (s.hidden /\ s.bind = "weak") -> old
       [] OTHER -> With(Denoted(m, s))

Bound(m, r) ==
  LET s == File[m].symbols[r.sym]
  IN IF Undefined(m, s) THEN 0 ELSE Denoted(m, s) + r.addend

(***************************************************************************)
(* When all is linked every word that is relocated holds what it stands    *)
(* for, whichever module defines it: the base of its own module and no     *)
(* other, counted once; the definition that is asked first; or, in this    *)
(* module, the place a table gives.  A word of the linkage table holds its *)
(* stub until a call has bound it.                                         *)
(***************************************************************************)
SlotsResolve ==
  pc # "link" =>
    \A m \in DOMAIN File :
      /\ \A i \in DOMAIN File[m].rela :
           slots[m][File[m].rela[i].offset] = Promised(m, File[m].rela[i], TRUE)
      /\ \A i \in DOMAIN File[m].rel :
           slots[m][File[m].rel[i].offset] = Promised(m, File[m].rel[i], FALSE)
      /\ \A i \in DOMAIN File[m].plt :
           LET r == File[m].plt[i] IN
           slots[m][r.offset] \in {Bound(m, r), Base(m) + File[m].words[r.offset]}

(***************************************************************************)
(* A call through the linkage table gets to the definition of its name,    *)
(* however many threads bind it at once; if there is none it jumps to 0.   *)
(***************************************************************************)
CallsReachDefinition ==
  \A t \in Threads : call[t].step = "jump" => call[t].to = Bound(call[t].m, File[call[t].m].plt[call[t].i])

(***************************************************************************)
(* What the patchers may write to is the code and the constants of the     *)
(* program, all of it and nothing of its data or of another module.        *)
(***************************************************************************)
PatchersMapProgram ==
  pc = "main" =>
    \E i \in Starts(layout) :
      /\ Cardinality(Before(Starts(layout), i)) = 1
      /\ patched = MemRange(layout[i].start, layout[i + 2].start - layout[i].start)

(***************************************************************************)
(* The names of a module mean what they should, in the words the linker    *)
(* filled in and in the calls that are bound as they are made.             *)
(***************************************************************************)
NamesBound == SlotsResolve /\ CallsReachDefinition

(***************************************************************************)
(* Every module is found for what it is, the program by the patchers too.  *)
(***************************************************************************)
ProgramFound == ModulesFound /\ PatchersMapProgram

(***************************************************************************)
(* Start-up comes to exl_main or the process ends, and so it does whenever *)
(* a check has failed.                                                     *)
(***************************************************************************)
StartsOrStops ==
  /\ <>(pc = "main" \/ gone # "no")
  /\ (~ NobodyAborts) ~> gone # "no"
=============================================================================
