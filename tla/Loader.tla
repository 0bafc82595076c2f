------------------------------- MODULE Loader -------------------------------
(***************************************************************************)
(* source/rtld: what a module's dynamic section says, the relocation of    *)
(* its words, and the binding of names to the modules that define them,    *)
(* at once or at the first call.  source/lib/reloc overrides that binding  *)
(* in the own module, from a table of names.                               *)
(*                                                                         *)
(* A file is a record: dynamic (tag -> value), the relocations that        *)
(* DT_REL, DT_RELA and DT_JMPREL point to, its symbols, and the words that *)
(* are relocated as they are before.  A word is named by its module and    *)
(* its distance from the module's base.                                    *)
(***************************************************************************)
EXTENDS Integers, Sequences, FiniteSets, SequencesExt

CONSTANTS
  File,         \* module -> its file
  List,         \* g_pAutoLoadList, front to back
  Manual,       \* what g_LookupGlobalManualFunctionPointer knows: name -> address
  Hash,         \* of a name: __rtld_elf_hash and Murmur3
  Resolver,     \* __rtld_runtime_resolve
  Threads

VARIABLES
  object,       \* module -> its ModuleObject
  slots,        \* module -> offset -> the word there
  linked,       \* history: module -> "no", "initialized", "relocated" or "resolved"
  call          \* thread -> the call through a slot it is making

loaderVars == <<object, slots, linked, call>>

\* ModuleObject, before Initialize: in .bss, or = {}.
Zeroed == [base |-> 0, is_rela |-> FALSE, plt_size |-> 0, rel_count |-> 0, rela_count |-> 0,
           rel_size |-> 0, rela_size |-> 0, stub |-> 0, got |-> 0, nbucket |-> 0]

NoCall == [step |-> "none"]

LoaderInit ==
  /\ object = [m \in DOMAIN File |-> Zeroed]
  /\ slots = [m \in DOMAIN File |-> File[m].words]
  /\ linked = [m \in DOMAIN File |-> "no"]
  /\ call = [t \in Threads |-> NoCall]

-----------------------------------------------------------------------------
\* What one tag sets, or what is there if no tag mentions it.
Tag(m, tag, otherwise) ==
  IF tag \in DOMAIN File[m].dynamic THEN File[m].dynamic[tag] ELSE otherwise

\* All fields are cleared first, but for the two counts and the hash table.
Initialized(o, m, base) ==
  [base       |-> base,
   is_rela    |-> Tag(m, "PLTREL", "REL") = "RELA",
   plt_size   |-> Tag(m, "PLTRELSZ", 0),
   rel_count  |-> Tag(m, "RELCOUNT", o.rel_count),
   rela_count |-> Tag(m, "RELACOUNT", o.rela_count),
   rel_size   |-> Tag(m, "RELSZ", 0),
   rela_size  |-> Tag(m, "RELASZ", 0),
   stub       |-> 0,
   got        |-> Tag(m, "PLTGOT", 0),
   nbucket    |-> Tag(m, "HASH", o.nbucket)]

Initialize(m, base) ==
  /\ linked[m] = "no"
  /\ object' = [object EXCEPT ![m] = Initialized(@, m, base)]
  /\ linked' = [linked EXCEPT ![m] = "initialized"]
  /\ UNCHANGED <<slots, call>>

(***************************************************************************)
(* A file has one relocation for a word, so that all those of a module are *)
(* applied at once: each word as the relocation of its offset asks.        *)
(***************************************************************************)
At(relocations, from, to, offset) == { i \in from .. to : relocations[i].offset = offset }

Relocated(m, offset) ==
  LET o == object[m]
      Relative(relocations, count) ==
        { i \in At(relocations, 1, count, offset) : relocations[i].type = "RELATIVE" }
      rela == Relative(File[m].rela, o.rela_count)
  IN CASE Relative(File[m].rel, o.rel_count) # {} -> slots[m][offset] + o.base
       [] rela # {} -> LET i == CHOOSE i \in rela : TRUE IN o.base + File[m].rela[i].addend
       [] OTHER -> slots[m][offset]

Relocate(m) ==
  /\ linked[m] = "initialized"
  /\ slots' = [slots EXCEPT ![m] = [offset \in DOMAIN @ |-> Relocated(m, offset)]]
  /\ linked' = [linked EXCEPT ![m] = "relocated"]
  /\ UNCHANGED <<object, call>>

\* exl_relocate_self, of the module that is started first, whose ModuleObject stays as it
\* is: where no tag counts the relative relocations all of a table are gone through.
RelocateSelf(m, base) ==
  /\ linked[m] = "no"
  /\ LET Count(count, size) == IF Tag(m, count, 0) = 0 THEN Tag(m, size, 0) ELSE Tag(m, count, 0)
         Relative(relocations, n, offset) ==
           { i \in At(relocations, 1, n, offset) : relocations[i].type = "RELATIVE" }
         rel(offset)  == Relative(File[m].rel, Count("RELCOUNT", "RELSZ"), offset)
         rela(offset) == Relative(File[m].rela, Count("RELACOUNT", "RELASZ"), offset)
     IN slots' = [slots EXCEPT ![m] =
          [offset \in DOMAIN @ |->
             CASE rela(offset) # {} -> LET i == CHOOSE i \in rela(offset) : TRUE IN base + File[m].rela[i].addend
               [] rela(offset) = {} /\ rel(offset) # {} -> @[offset] + base
               [] OTHER -> @[offset]]]
  /\ linked' = [linked EXCEPT ![m] = "relocated"]
  /\ UNCHANGED <<object, call>>

-----------------------------------------------------------------------------
(***************************************************************************)
(* What is looked for is a set, empty where the code returns NULL.  The    *)
(* symbols of a name are searched in its bucket: undefined and common ones *)
(* are passed over, and symbol 0, which has no name, ends the chain.       *)
(***************************************************************************)
GetSymbolByName(m, name) ==
  { i \in DOMAIN File[m].symbols \ {0} :
      LET s == File[m].symbols[i] IN
      /\ s.defined /\ s.name = name
      /\ Hash[s.name] % object[m].nbucket = Hash[name] % object[m].nbucket }

SymbolAddress(m, i) == object[m].base + File[m].symbols[i].value

Exported(m, name) ==
  { SymbolAddress(m, i) :
      i \in { j \in GetSymbolByName(m, name) : object[m].base # 0 /\ File[m].symbols[j].bind # "local" } }

\* The iterator of a list: begin() is its back, what was put in last, and ++ goes to prev.
Iterated == Reverse(List)

\* The first of some numbers.
First(numbers) == { k \in numbers : \A j \in numbers : k <= j }

lookup_global_auto(name) ==
  UNION { Exported(Iterated[k], name) :
          k \in First({ k \in DOMAIN Iterated : Exported(Iterated[k], name) # {} }) }

TryResolveSymbol(m, i) ==
  LET s == File[m].symbols[i]
      Else(targets, others) == IF targets = {} THEN others ELSE targets
  IN IF s.hidden
     THEN Else({ SymbolAddress(m, j) : j \in GetSymbolByName(m, s.name) },
               IF s.bind = "weak" THEN {0} ELSE {})
     ELSE Else(lookup_global_auto(s.name), { Manual[n] : n \in {s.name} \cap DOMAIN Manual })

The(S) == CHOOSE x \in S : TRUE

ByName(type) == type \in {"ABS64", "GLOB_DAT"}

ResolveAbsolute(m, r, rela, old) ==
  The({ IF ~ ByName(r.type) \/ targets = {} THEN old
        ELSE The(targets) + (IF rela THEN r.addend ELSE old) : targets \in {TryResolveSymbol(m, r.sym)} })

\* A slot of the procedure linkage table: its stub, or what it is bound to.
ResolveJumpSlot(m, o, r, lazy, old) ==
  The({ IF r.type # "JUMP_SLOT" THEN old
        ELSE IF lazy \/ targets = {} THEN o.base + old
        ELSE The(targets) + (IF o.is_rela THEN r.addend ELSE old) : targets \in {TryResolveSymbol(m, r.sym)} })

StubsOf(m) ==
  LET o == object[m]
  IN { o.base + slots[m][File[m].plt[i].offset] :
         i \in { j \in 1 .. o.plt_size : File[m].plt[j].type = "JUMP_SLOT" } }

\* ResolveSymbols: what RELATIVE relocations come first is counted and skipped.
Resolved(m, lazy, offset) ==
  LET o == object[m]
      old == slots[m][offset]
      rel  == At(File[m].rel, o.rel_count + 1, o.rel_size, offset)
      rela == At(File[m].rela, o.rela_count + 1, o.rela_size, offset)
      plt  == At(File[m].plt, 1, o.plt_size, offset)
  IN CASE o.got # 0 /\ offset = o.got + 1 -> m
       [] o.got # 0 /\ offset = o.got + 2 -> Resolver
       [] rel # {}  -> ResolveAbsolute(m, File[m].rel[The(rel)], FALSE, old)
       [] rela # {} -> ResolveAbsolute(m, File[m].rela[The(rela)], TRUE, old)
       [] plt # {}  -> ResolveJumpSlot(m, o, File[m].plt[The(plt)], lazy, old)
       [] OTHER -> old

NoStub == -1

\* The assertion that all slots begin with one stub holds, or the process ends.
ResolveSymbols(m, lazy) ==
  /\ linked[m] = "relocated"
  /\ \A a, b \in StubsOf(m) : a = b
  /\ slots' = [slots EXCEPT ![m] = [offset \in DOMAIN @ |-> Resolved(m, lazy, offset)]]
  /\ object' = [object EXCEPT ![m].stub =
                  The(IF StubsOf(m) = {} THEN {NoStub} ELSE StubsOf(m))]
  /\ linked' = [linked EXCEPT ![m] = "resolved"]
  /\ UNCHANGED call

-----------------------------------------------------------------------------
(* Calls through the procedure linkage table, while other threads make theirs. *)
CallThrough(t, m, i) ==
  /\ call[t] = NoCall /\ linked[m] = "resolved"
  /\ call' = [call EXCEPT ![t] =
                LET to == slots[m][File[m].plt[i].offset] IN
                [step |-> IF to = object[m].stub THEN "bind" ELSE "jump", m |-> m, i |-> i, to |-> to]]
  /\ UNCHANGED <<object, slots, linked>>

\* __rtld_lazy_bind_symbol, by the module that got[1] names; NULL if nothing defines the name.
LazyTarget(m, i) ==
  LET r == File[m].plt[i]
  IN The({ IF targets \in {{}, {0}} THEN 0
           ELSE The(targets) + (IF object[m].is_rela THEN r.addend ELSE 0) :
             targets \in {TryResolveSymbol(m, r.sym)} })

LazyBind(t) ==
  /\ call[t].step = "bind"
  /\ LET c == call[t] IN
     call' = [call EXCEPT ![t] =
                [c EXCEPT !.step = "store", !.to = LazyTarget(slots[c.m][object[c.m].got + 1], c.i)]]
  /\ UNCHANGED <<object, slots, linked>>

\* __rtld_runtime_resolve: the address is stored in the slot, whatever it is, and jumped to.
StoreSlot(t) ==
  /\ call[t].step = "store"
  /\ slots' = [slots EXCEPT ![call[t].m][File[call[t].m].plt[call[t].i].offset] = call[t].to]
  /\ call' = [call EXCEPT ![t].step = "jump"]
  /\ UNCHANGED <<object, linked>>

Jumped(t) ==
  /\ call[t].step = "jump"
  /\ call' = [call EXCEPT ![t] = NoCall]
  /\ UNCHANGED <<object, slots, linked>>

-----------------------------------------------------------------------------
(***************************************************************************)
(* source/lib/reloc.  An entry of a table gives a name its place in a      *)
(* module: [name, index, offset].  The compiler puts the hash in for the   *)
(* name and sorts by it; a set has a table for each version of the         *)
(* program: [version, entries].                                            *)
(***************************************************************************)
Convert(e) == [hash |-> Hash[e.name], index |-> e.index, offset |-> e.offset]
Converted(entries) == [i \in DOMAIN entries |-> Convert(entries[i])]

\* A table as it is written.
UnsortedTable(entries) == Converted(entries)

\* How many are not behind an entry; two equal ones do not compile.
HashRank(table, i) ==
  Cardinality({ j \in DOMAIN table : \/ table[j].hash < table[i].hash
                                    \/ (table[j].hash = table[i].hash /\ j <= i) })

SortedTable(entries) ==
  LET table == Converted(entries)
  IN [k \in DOMAIN table |-> table[CHOOSE i \in DOMAIN table : HashRank(table, i) = k]]

\* What static_assert asks of a set: neighbours that differ.
IsUnique(s) == \A i \in 1 .. Len(s) - 1 : s[i] # s[i + 1]
Compiles(tables) ==
  /\ IsUnique([k \in DOMAIN tables |-> tables[k].version])
  /\ \A k \in DOMAIN tables :
       LET entries == tables[k].entries  sorted == SortedTable(entries)
       IN /\ IsUnique([i \in DOMAIN entries |-> entries[i].name])
          /\ IsUnique([i \in DOMAIN sorted |-> sorted[i].hash])

SIZE_MAX == 0
FindTableIndex(tables, version) ==
  LET those == { k \in DOMAIN tables : tables[k].version = version }
  IN IF those = {} THEN SIZE_MAX ELSE The(First(those))
DoesTableExist(tables, version) == FindTableIndex(tables, version) # SIZE_MAX
Get(tables, version) == SortedTable(tables[FindTableIndex(tables, version)].entries)

\* std::lower_bound: the first entry that is not less, or the end.  What lies at the end is
\* compared as well, and is no entry of that hash.
LowerBound(table, hash) ==
  CHOOSE i \in 1 .. Len(table) + 1 :
    /\ i > Len(table) \/ ~ table[i].hash < hash
    /\ i = 1 \/ table[i - 1].hash < hash

FindByHash(table, hash) ==
  { table[i] : i \in { j \in {LowerBound(table, hash)} \cap DOMAIN table : table[j].hash = hash } }
FindByName(table, name) == FindByHash(table, Hash[name])

\* ApplyRels over DT_RELA or DT_REL; start has the modules that were found.
Larger(count, size) == IF count > size THEN count ELSE size

Applied(m, o, table, start, offset) ==
  LET rela == o.rela_count # 0 \/ o.rela_size # 0
      all == IF rela THEN File[m].rela ELSE File[m].rel
      here == At(all, 1, IF rela THEN Larger(o.rela_count, o.rela_size)
                                 ELSE Larger(o.rel_count, o.rel_size), offset)
  IN The({ IF entries = {} THEN slots[m][offset]
           ELSE start[The(entries).index] + The(entries).offset
                + (IF rela THEN all[The(here)].addend ELSE 0) :
             entries \in { UNION { { e \in FindByName(table, File[m].symbols[all[i].sym].name) :
                                       e.index \in DOMAIN start } :
                                   i \in { j \in here : ByName(all[j].type) \/ all[j].type = "JUMP_SLOT" } } } })

ApplyTable(m, base, table, start) ==
  /\ slots' = [slots EXCEPT ![m] = [offset \in DOMAIN @ |->
                 Applied(m, Initialized(Zeroed, m, base), table, start, offset)]]
  /\ UNCHANGED <<object, linked, call>>
=============================================================================
