------------------------------ MODULE Mappings ------------------------------
(***************************************************************************)
(* Writable mappings of read-only code.  source/lib/nx/kernel/virtmem.c    *)
(* finds free address space, source/lib/util/sys/rw_pages.cpp maps pages   *)
(* of the process there a second time, and source/lib/nx/arm/cache.s makes *)
(* what is written there visible to the fetch of instructions.  Addresses  *)
(* are numbers of pages where memory is mapped, and of 32-bit words where  *)
(* it is used.                                                             *)
(***************************************************************************)
EXTENDS ProcHandle, Sequences, SequencesExt, Functions, FiniteSets

CONSTANTS
  PageWords, LineWords,   \* words of a page and of a cache line
  Layout,                 \* page -> what is there before anything is mapped
  Kernel,                 \* what svcGetInfo and svcUnmapMemory answer
  Hard32, Hard36          \* the ASLR and the stack region hard-coded for old kernels

Regions == [start : Nat, end : Nat]
FourRegions == [alias : Regions, heap : Regions, aslr : Regions, stack : Regions]

ASSUME MappingsAssumption ==
  /\ PageWords \in Nat \ {0} /\ LineWords \in 1 .. PageWords
  /\ Kernel.unmap \in {"unused", "InvalidMemoryState", "InvalidMemoryRange"}
  /\ {Kernel.alias, Kernel.heap, Kernel.aslr, Kernel.stack} \subseteq Regions
  /\ {Hard32.aslr, Hard32.stack, Hard36.aslr, Hard36.stack} \subseteq Regions

NULL == -1
\* A claim as it is told the size and the place, and once it is mapped.
Claim(ro, rw, size, reserve) == [ro |-> ro, rw |-> rw, size |-> size, reserve |-> reserve]

\* f over g, g with f(a) = b, and g without a set of its arguments.
Over(f, g) == [x \in DOMAIN f \cup DOMAIN g |-> IF x \in DOMAIN f THEN f[x] ELSE g[x]]
Put(a, b, g) == [x \in DOMAIN g \cup {a} |-> IF x = a THEN b ELSE g[x]]
Without(g, S) == Restrict(g, DOMAIN g \ S)

VARIABLES
  regions,       \* g_AliasRegion, g_HeapRegion, g_AslrRegion, g_StackRegion
  reservations,  \* g_Reservations, the newest first
  window,        \* page -> the page of the process that is mapped there again
  claims,        \* RwPages that exist: id -> m_Claim
  stale,         \* words written since the instruction cache dropped them
  dead           \* exl_abort, a failed assertion or a data abort

mapVars == <<regions, reservations, window, claims, stale, dead>>

Region(start, end) == [start |-> start, end |-> end]
Overlaps(r, start, end) == start < r.end /\ r.start < end

MapInit ==
  /\ regions = <<>> /\ reservations = <<>>
  /\ window = <<>> /\ claims = <<>>
  /\ stale = {} /\ dead = FALSE

Abort == dead' = TRUE /\ UNCHANGED <<regions, reservations, window, claims, stale>>

\* On kernels without ASLR information, the error of a call tells 32 from 36 bits.
virtmemSetup ==
  LET R(aslr, stack) == [alias |-> Kernel.alias, heap |-> Kernel.heap,
                         aslr |-> aslr, stack |-> stack]
  IN /\ regions = <<>>
     /\ regions' = CASE Kernel.unmap = "unused"             -> R(Kernel.aslr, Kernel.stack)
                     [] Kernel.unmap = "InvalidMemoryState" -> R(Hard32.aslr, Hard32.stack)
                     [] Kernel.unmap = "InvalidMemoryRange" -> R(Hard36.aslr, Hard36.stack)
     /\ UNCHANGED <<reservations, window, claims, stale, dead>>

IsMapped(start, end) ==
  \E p \in start .. end - 1 : p \notin DOMAIN Layout \/ Layout[p] # "unmapped" \/ p \in DOMAIN window

IsReserved(start, end) == \E i \in DOMAIN reservations : Overlaps(reservations[i], start, end)

(***************************************************************************)
(* _memregionFindRandom: any of the places that fit, or NULL if the region *)
(* is too small or RANDOM_MAX_ATTEMPTS were unlucky.  Where the alias and  *)
(* the heap leave no room at all the loop never ends: no result.           *)
(***************************************************************************)
FindRandom(r, size, guard) ==
  IF size > r.end - r.start THEN {NULL}
  ELSE LET outside == { a \in r.start .. r.end - size :
                          /\ ~ Overlaps(regions.alias, a, a + size)
                          /\ ~ Overlaps(regions.heap, a, a + size) }
       IN IF outside = {} THEN {}
          ELSE {NULL} \cup { a \in outside : /\ ~ IsMapped(a - guard, a + size + guard)
                                             /\ ~ IsReserved(a - guard, a + size + guard) }

virtmemFindAslr(size, guard) == FindRandom(regions.aslr, size, guard)

\* The list of reservations, with a new head, and without one of its elements.
virtmemAddReservation(r) == <<r>> \o reservations
virtmemRemoveReservation(r) ==
  RemoveAt(reservations, CHOOSE i \in DOMAIN reservations : reservations[i] = r)

-----------------------------------------------------------------------------
PageOf(a) == a \div PageWords

GetAlignedRo(c) == PageOf(c.ro)
GetAlignedRw(c) == PageOf(c.rw)
\* The size alone, not what the claim's place in its page adds to it.
GetAlignedSize(c) == PageOf(c.size + PageWords - 1)

Crosses(c) == PageOf(c.ro + c.size - 1) - GetAlignedRo(c) >= GetAlignedSize(c)

\* Pages whose ranges ForEachMemRange hands to its callback, and what they show.
ForEachMemRange(c) ==
  [p \in GetAlignedRw(c) .. GetAlignedRw(c) + GetAlignedSize(c) - 1
     |-> GetAlignedRo(c) + (p - GetAlignedRw(c))]

(***************************************************************************)
(* The constructor.  A claim that crosses into a page that is not mapped   *)
(* with it faults as the two mappings are compared.                        *)
(***************************************************************************)
RwPages(id, ro, size) ==
  /\ s_Handle # INVALID_HANDLE /\ ~ dead /\ id \notin DOMAIN claims
  /\ LET sized == Claim(ro, 0, size, <<>>)
         pages == GetAlignedSize(sized)
     IN \E rw \in virtmemFindAslr(pages, 0) :
          IF rw = NULL \/ Crosses(sized) THEN Abort
          ELSE LET c == Claim(ro, rw * PageWords + (ro % PageWords), size, Region(rw, rw + pages))
               IN /\ reservations' = virtmemAddReservation(c.reserve)
                  /\ window' = Over(ForEachMemRange(c), window)
                  /\ claims' = Put(id, c, claims)
                  /\ UNCHANGED <<regions, stale, dead>>

\* A place in memory, whichever mapping it is seen through.
Phys(a) == IF PageOf(a) \in DOMAIN window THEN window[PageOf(a)] * PageWords + (a % PageWords) ELSE a

LinesOf(a, n) ==
  (a \div LineWords) * LineWords .. ((a + n - 1) \div LineWords) * LineWords + LineWords - 1

\* armDCacheFlush and armICacheInvalidate: by line, at least one.
Invalidated(a, n) == { Phys(w) : w \in LinesOf(a, IF n = 0 THEN 1 ELSE n) }

\* RwPages::Flush, by the writable addresses: the caches are physically tagged.
Flushed(id) ==
  Invalidated(GetAlignedRw(claims[id]) * PageWords, GetAlignedSize(claims[id]) * PageWords)

\* The destructor that does not unmap.
UnreservedOnly(id) ==
  /\ id \in DOMAIN claims
  /\ stale' = stale \ Invalidated(claims[id].ro, claims[id].size)
  /\ reservations' = virtmemRemoveReservation(claims[id].reserve)
  /\ claims' = Without(claims, {id})
  /\ UNCHANGED <<regions, window, dead>>

\* The destructor of the object that owns the claim.
Unclaim(id) ==
  /\ id \in DOMAIN claims
  /\ stale' = stale \ Invalidated(claims[id].ro, claims[id].size)
  /\ window' = Without(window, DOMAIN ForEachMemRange(claims[id]))
  /\ reservations' = virtmemRemoveReservation(claims[id].reserve)
  /\ claims' = Without(claims, {id})
  /\ UNCHANGED <<regions, dead>>

-----------------------------------------------------------------------------
(***************************************************************************)
(* What is mapped twice is what the RwPages that exist have claimed: each  *)
(* shows the words it was made for in pages of its own, outside the alias  *)
(* and the heap region, and none leaves a mapping or a reservation behind. *)
(***************************************************************************)
ClaimsApart ==
  /\ \A id \in DOMAIN claims :
       LET c == claims[id] IN
       /\ c.rw % PageWords = c.ro % PageWords
       /\ \A k \in 0 .. PageOf(c.ro + c.size - 1) - PageOf(c.ro) :
            /\ PageOf(c.rw) + k \in DOMAIN window
            /\ window[PageOf(c.rw) + k] = PageOf(c.ro) + k
  /\ \A a, b \in DOMAIN claims :
       a # b => ~ Overlaps(claims[a].reserve, claims[b].reserve.start, claims[b].reserve.end)
  /\ DOMAIN window = UNION { DOMAIN ForEachMemRange(claims[id]) : id \in DOMAIN claims }
  /\ \A p \in DOMAIN window : /\ Layout[p] = "unmapped"
                              /\ ~ Overlaps(regions.alias, p, p + 1)
                              /\ ~ Overlaps(regions.heap, p, p + 1)
  /\ ToSet(reservations) = { claims[id].reserve : id \in DOMAIN claims }
  /\ Len(reservations) = Cardinality(DOMAIN claims)
=============================================================================
