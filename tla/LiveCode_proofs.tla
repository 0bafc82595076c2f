-------------------------- MODULE LiveCode_proofs --------------------------
(***************************************************************************)
(* What holds of changing code while it runs for any program, any pools    *)
(* and any order of hooks and patches: the handshake that gets the handle  *)
(* of the process ends before the stack of its thread goes away, the       *)
(* writable mappings show what they were made for, writes land in code,    *)
(* and what was written is dropped from the instruction cache.             *)
(***************************************************************************)
EXTENDS LiveCode, TLAPS, FiniteSetTheorems, SequenceTheorems

-----------------------------------------------------------------------------
(***************************************************************************)
(* The handshake of ProcHandle.  The two threads pass one message, and     *)
(* which handles are open follows from where they are.                     *)
(***************************************************************************)
OpenHandles == {"server", "client", "thread"}

HandInv ==
  \/ /\ client \in {"none", "create"} /\ server = "none" /\ ~ message /\ handles = {}
  \/ client = "start" /\ server = "none" /\ ~ message /\ handles = OpenHandles
  \/ client = "send" /\ server = "receive" /\ ~ message /\ handles = OpenHandles
  \/ client = "sent" /\ server = "receive" /\ message /\ handles = OpenHandles
  \/ client = "sent" /\ server = "store" /\ ~ message /\ handles = OpenHandles
  \/ /\ client = "sent" /\ server = "close" /\ ~ message /\ handles = OpenHandles
     /\ s_Handle = OwnProcess
  \/ /\ client = "sent" /\ server \in {"exit", "gone"} /\ ~ message
     /\ handles = {"client", "thread"} /\ s_Handle = OwnProcess
  \/ /\ client = "wait" /\ server \in {"exit", "gone"} /\ ~ message
     /\ handles = {"thread"} /\ s_Handle = OwnProcess

LEMMA HandStep ==
  ASSUME HandInv, ClientNext \/ ServerNext
  PROVE HandInv'
<1> USE DEF HandInv, OpenHandles
<1>1. CASE GetViaMesosphere
  BY <1>1 DEF GetViaMesosphere, INVALID_HANDLE, OwnProcess
<1>2. CASE CreateSession
  BY <1>2 DEF CreateSession
<1>3. CASE StartThread
  BY <1>3 DEF StartThread
<1>4. CASE SendSyncRequest
  BY <1>4 DEF SendSyncRequest
<1>5. CASE CloseClient
  BY <1>5 DEF CloseClient
<1>6. CASE WaitSynchronization
  BY <1>6 DEF WaitSynchronization
<1>7. CASE ReplyAndReceive
  BY <1>7 DEF ReplyAndReceive
<1>8. CASE StoreHandle
  BY <1>8 DEF StoreHandle
<1>9. CASE CloseServer
  BY <1>9 DEF CloseServer
<1>10. CASE ExitThread
  BY <1>10 DEF ExitThread
<1> QED
  BY <1>1, <1>2, <1>3, <1>4, <1>5, <1>6, <1>7, <1>8, <1>9, <1>10 DEF ClientNext, ServerNext

\* No other step touches the handshake.
LEMMA HandFrame ==
  ASSUME [Next]_vars
  PROVE (ClientNext \/ ServerNext) \/ UNCHANGED procVars
<1>1. CASE HookNext
  BY <1>1 DEF HookNext, HookBegin, HookClaim, HookWrite, HookRelease, HookFinish
<1>2. CASE PatchNext
  BY <1>2 DEF PatchNext, PatchFrame, StreamPatcher, Seek, RandomWrite, RandomAccessPatcher,
              DestroyPatcher, Write, WriteInst, BranchInst
<1>3. CASE CpuNext
  BY <1>3 DEF CpuNext, CpuFrame, Execute, CallbackNext, ReturnToCaller, InlineHookImpl,
              InlineHookReturn
<1>4. ASSUME NEW f \in DOMAIN Functions, Call(f) PROVE UNCHANGED procVars
  BY <1>4 DEF Call, CpuFrame
<1> QED
  BY <1>1, <1>2, <1>3, <1>4 DEF Next, vars, Setup, GetHandle, Start

(***************************************************************************)
(* Whoever goes on after the handle was asked for finds it, with every     *)
(* handle of the session and of the thread closed, and the thread is gone  *)
(* before its stack is: cur_proc_handle.cpp, in every interleaving of the  *)
(* two threads and whatever the module does next to them.                  *)
(***************************************************************************)
THEOREM HandshakeEnds == Spec => []HandshakeDone
<1>1. Init => HandInv
  BY DEF Init, ProcInit, HandInv
<1>2. HandInv /\ [Next]_vars => HandInv'
  BY HandStep, HandFrame DEF procVars, HandInv
<1>3. HandInv => HandshakeDone
  BY DEF HandInv, HandshakeDone
<1> QED
  BY <1>1, <1>2, <1>3, PTL DEF Spec

-----------------------------------------------------------------------------
(***************************************************************************)
(* Pages, lines and sequences.                                             *)
(***************************************************************************)
LEMMA DivMod ==
  ASSUME NEW a \in Int, NEW n \in Nat \ {0}
  PROVE  /\ a \div n \in Int /\ a % n \in 0 .. n - 1
         /\ a = n * (a \div n) + (a % n)
OBVIOUS

LEMMA DivUnique ==
  ASSUME NEW n \in Nat \ {0}, NEW q \in Int, NEW r \in 0 .. n - 1
  PROVE  (n * q + r) \div n = q /\ (n * q + r) % n = r
OBVIOUS

LEMMA DivGrows ==
  ASSUME NEW n \in Nat \ {0}, NEW a \in Int, NEW b \in Int, a <= b
  PROVE  a \div n <= b \div n
BY DivMod

LEMMA PageParts ==
  ASSUME NEW a \in Int
  PROVE  /\ PageOf(a) \in Int /\ a % PageWords \in 0 .. PageWords - 1
         /\ a = PageWords * PageOf(a) + (a % PageWords)
BY MappingsAssumption, DivMod DEF PageOf

LEMMA PageUnique ==
  ASSUME NEW q \in Int, NEW r \in 0 .. PageWords - 1
  PROVE  PageOf(PageWords * q + r) = q /\ (PageWords * q + r) % PageWords = r
BY MappingsAssumption, DivUnique DEF PageOf

LEMMA PageGrows ==
  ASSUME NEW a \in Int, NEW b \in Int, a <= b
  PROVE  PageOf(a) <= PageOf(b)
BY MappingsAssumption, DivGrows DEF PageOf

\* The lines of words a to b hold them.
LEMMA LinesHold ==
  ASSUME NEW a \in Nat, NEW n \in Nat \ {0}
  PROVE  a .. a + n - 1 \subseteq LinesOf(a, n)
<1> DEFINE b == a + n - 1
<1>1. LineWords \in Nat \ {0}
  BY MappingsAssumption
<1>2. \A w \in a .. b : w \in (a \div LineWords) * LineWords .. (b \div LineWords) * LineWords + LineWords - 1
  BY <1>1, DivMod
<1> QED
  BY <1>2 DEF LinesOf

\* What is dropped from address a on: what is seen there.
LEMMA InvalidatedHolds ==
  ASSUME NEW a \in Nat, NEW n \in Nat \ {0}, NEW w \in a .. a + n - 1
  PROVE  Phys(w) \in Invalidated(a, n)
<1>1. w \in LinesOf(a, n)
  BY LinesHold
<1>2. LinesOf(a, n) = LinesOf(a, IF n = 0 THEN 1 ELSE n)
  OBVIOUS
<1> QED
  BY <1>1, <1>2 DEF Invalidated

Distinct(s) == \A j, k \in DOMAIN s : j # k => s[j] # s[k]

\* An element taken out of a sequence that has each of its elements once.
LEMMA RemoveAtHolds ==
  ASSUME NEW S, NEW s \in Seq(S), NEW i \in DOMAIN s,
         Distinct(s), NEW t, t = RemoveAt(s, i)
  PROVE  /\ t \in Seq(S) /\ Len(t) = Len(s) - 1
         /\ Distinct(t)
         /\ ToSet(t) = ToSet(s) \ {s[i]}
<1> DEFINE n == Len(s)
<1>1. n \in Nat /\ DOMAIN s = 1 .. n /\ i \in 1 .. n
  OBVIOUS
<1> HIDE DEF n
<1>2. t \in Seq(S) /\ Len(t) = n - 1 /\ \A j \in 1 .. n - 1 : t[j] = IF j < i THEN s[j] ELSE s[j + 1]
  <2> DEFINE u == SubSeq(s, 1, i - 1)
             v == SubSeq(s, i + 1, n)
  <2>1. u \in Seq(S) /\ Len(u) = i - 1 /\ \A j \in 1 .. i - 1 : u[j] = s[j]
    BY <1>1
  <2>2. v \in Seq(S) /\ Len(v) = n - i /\ \A j \in 1 .. n - i : v[j] = s[i + j]
    BY <1>1
  <2> HIDE DEF u, v
  <2> HIDE DEF u, v
  <2>3. /\ u \o v \in Seq(S) /\ Len(u \o v) = Len(u) + Len(v)
        /\ \A j \in 1 .. Len(u) + Len(v) :
             (u \o v)[j] = IF j <= Len(u) THEN u[j] ELSE v[j - Len(u)]
    BY <2>1, <2>2, ConcatProperties
  <2>4. Len(u) + Len(v) = n - 1
    BY <1>1, <2>1, <2>2
  <2>5. ASSUME NEW j \in 1 .. n - 1 PROVE (u \o v)[j] = IF j < i THEN s[j] ELSE s[j + 1]
    <3>1. CASE j < i
      <4>1. j \in 1 .. Len(u) + Len(v) /\ j <= Len(u) /\ j \in 1 .. i - 1
        BY <1>1, <2>1, <2>4, <3>1
      <4> QED
        BY <2>1, <2>3, <3>1, <4>1
    <3>2. CASE j >= i
      <4>1. ~ (j <= Len(u)) /\ j - Len(u) \in 1 .. n - i /\ i + (j - Len(u)) = j + 1
        BY <1>1, <2>1, <3>2
      <4>2. (u \o v)[j] = v[j - Len(u)] /\ v[j - Len(u)] = s[j + 1]
        BY <2>2, <2>3, <2>4, <4>1
      <4> QED
        BY <1>1, <3>2, <4>2
    <3>3. j < i \/ j >= i
      BY <1>1
    <3> QED
      BY <3>1, <3>2, <3>3
  <2> QED
    BY <2>3, <2>4, <2>5 DEF RemoveAt, n, u, v
<1>3. DOMAIN t = 1 .. n - 1
  BY <1>1, <1>2
<1> DEFINE at(j) == IF j < i THEN j ELSE j + 1
<1>0. \A j \in DOMAIN t : at(j) \in DOMAIN s /\ at(j) # i /\ t[j] = s[at(j)]
  BY <1>1, <1>2, <1>3
<1>4. ASSUME NEW j \in DOMAIN t, NEW k \in DOMAIN t, j # k PROVE t[j] # t[k]
  <2>1. at(j) # at(k)
    BY <1>1, <1>3, <1>4
  <2> QED
    BY <1>0, <2>1 DEF Distinct
<1>5. ASSUME NEW x \in ToSet(t) PROVE x \in ToSet(s) \ {s[i]}
  <2>1. PICK j \in DOMAIN t : x = t[j]
    BY <1>5 DEF ToSet
  <2>2. at(j) \in DOMAIN s /\ at(j) # i /\ x = s[at(j)]
    BY <1>0, <2>1
  <2> HIDE DEF at
  <2> QED
    BY <2>2 DEF ToSet, Distinct
<1>6. ASSUME NEW x \in ToSet(s), x # s[i] PROVE x \in ToSet(t)
  <2>1. PICK k \in 1 .. n : x = s[k] /\ k # i
    BY <1>1, <1>6 DEF ToSet
  <2>2. CASE k < i
    BY <1>1, <1>2, <1>3, <2>1, <2>2 DEF ToSet
  <2>3. CASE k > i
    <3>1. k - 1 \in 1 .. n - 1 /\ ~ (k - 1 < i) /\ k - 1 + 1 = k
      BY <1>1, <2>1, <2>3
    <3> QED
      <4>1. k - 1 \in DOMAIN t /\ t[k - 1] = s[(k - 1) + 1] /\ (k - 1) + 1 = k
        BY <1>1, <1>2, <1>3, <2>1, <3>1
      <4> QED
        BY <2>1, <4>1 DEF ToSet
  <2> QED
    BY <1>1, <2>1, <2>2, <2>3
<1>7. ToSet(t) = ToSet(s) \ {s[i]}
  BY <1>5, <1>6
<1> QED
  BY <1>2, <1>4, <1>7 DEF n, Distinct

-----------------------------------------------------------------------------
(***************************************************************************)
(* The mappings.  A claim the constructor made stays inside the pages it   *)
(* reserved; those pages show the ones it was made for, are unmapped in    *)
(* the program, and belong to no other claim.                              *)
(***************************************************************************)
ClaimType == [ro : Nat, rw : Nat, size : Nat \ {0}, reserve : Regions]

WellMapped(c) ==
  /\ c \in ClaimType
  /\ c.reserve.end = c.reserve.start + GetAlignedSize(c)
  /\ c.rw = PageWords * c.reserve.start + (c.ro % PageWords)
  /\ ~ Crosses(c)

PagesOf(c) == c.reserve.start .. c.reserve.end - 1

Shown == \A id \in DOMAIN claims : \A p \in PagesOf(claims[id]) :
           /\ p \in DOMAIN window
           /\ window[p] = PageOf(claims[id].ro) + (p - claims[id].reserve.start)

OnlyClaimed == \A p \in DOMAIN window : \E id \in DOMAIN claims : p \in PagesOf(claims[id])

FreeSpace ==
  \A p \in DOMAIN window : /\ Layout[p] = "unmapped"
                           /\ ~ Overlaps(regions.alias, p, p + 1)
                           /\ ~ Overlaps(regions.heap, p, p + 1)

AreApart(a, b) == ~ Overlaps(a, b.start, b.end)

ReservedOnce ==
  /\ \A a, b \in DOMAIN claims : a # b => AreApart(claims[a].reserve, claims[b].reserve)
  /\ reservations \in Seq(Regions)
  /\ Distinct(reservations)
  /\ ToSet(reservations) = { claims[id].reserve : id \in DOMAIN claims }
  /\ Len(reservations) = Cardinality(DOMAIN claims)

MapInv ==
  /\ regions = <<>> \/ regions \in FourRegions
  /\ regions = <<>> => DOMAIN claims = {}
  /\ IsFiniteSet(DOMAIN claims)
  /\ \A id \in DOMAIN claims : WellMapped(claims[id])
  /\ Shown /\ OnlyClaimed /\ FreeSpace /\ ReservedOnce

\* A page at least, and the whole of the claim.
LEMMA ClaimFits ==
  ASSUME NEW c, WellMapped(c), NEW j \in 0 .. c.size - 1
  PROVE  LET k == PageOf(c.ro + j) - PageOf(c.ro) IN
         /\ k \in Nat /\ c.reserve.start + k \in PagesOf(c)
         /\ PageOf(c.rw + j) = c.reserve.start + k
         /\ (c.rw + j) % PageWords = (c.ro + j) % PageWords
<1>1. PageWords \in Nat \ {0} /\ c.ro \in Nat /\ c.size \in Nat \ {0}
      /\ c.reserve.start \in Nat /\ c.reserve.end \in Nat
  BY MappingsAssumption DEF WellMapped, ClaimType, Regions
<1>2. GetAlignedSize(c) \in Int
  <2>1. c.size + PageWords - 1 \in Int
    BY <1>1
  <2> QED
    BY <2>1, PageParts DEF GetAlignedSize
<1>3. PageOf(c.ro + c.size - 1) - PageOf(c.ro) < GetAlignedSize(c)
  <2>1. \A a \in Int : PageOf(a) \in Int
    BY PageParts
  <2>2. c.ro + c.size - 1 \in Int /\ c.ro \in Int
    BY <1>1
  <2>3. PageOf(c.ro + c.size - 1) \in Int /\ PageOf(c.ro) \in Int
    BY <2>1, <2>2
  <2> QED
    BY <1>2, <2>3 DEF WellMapped, Crosses, GetAlignedRo
<1> DEFINE start == c.reserve.start
           pages == GetAlignedSize(c)
           x == c.ro
           a == PageOf(c.ro)
           b == PageOf(c.ro + j)
           z == PageOf(c.ro + c.size - 1)
           q == c.ro % PageWords
           r == (c.ro + j) % PageWords
<1>4. a \in Int /\ q \in 0 .. PageWords - 1 /\ x = PageWords * a + q
  <2>1. c.ro \in Int
    BY <1>1
  <2> QED
    BY <2>1, PageParts
<1>5. c.ro + j \in Int /\ c.ro + c.size - 1 \in Int /\ c.ro <= c.ro + j /\ c.ro + j <= c.ro + c.size - 1
  BY <1>1
<1>6. b \in Int /\ r \in 0 .. PageWords - 1 /\ x + j = PageWords * b + r
  BY <1>5, PageParts
<1>7. a <= b /\ b <= z /\ z \in Int
  <2>1. a <= b
    BY <1>1, <1>5, PageGrows
  <2>2. b <= z
    BY <1>5, PageGrows
  <2> QED
    BY <1>5, <2>1, <2>2, PageParts
<1>8. z - a < pages /\ pages \in Int /\ start \in Nat /\ PageWords \in Nat \ {0} /\ x \in Nat
      /\ j \in Int
  BY <1>1, <1>2, <1>3
<1>9. c.rw + j = (PageWords * start + q) + j
  BY DEF WellMapped
<1> HIDE DEF start, pages, x, a, b, z, q, r
<1>10. (PageWords * start + q) + j = PageWords * (start + (b - a)) + r
  BY <1>4, <1>6, <1>8
<1>11. start + (b - a) \in Int /\ b - a \in 0 .. pages - 1
  BY <1>4, <1>6, <1>7, <1>8
<1>12. PageOf(c.rw + j) = start + (b - a) /\ (c.rw + j) % PageWords = r
  BY <1>6, <1>9, <1>10, <1>11, PageUnique
<1>13. start + (b - a) \in PagesOf(c)
  BY <1>1, <1>2, <1>11 DEF WellMapped, PagesOf, start, pages
<1> QED
  BY <1>11, <1>12, <1>13 DEF start, a, b, r

\* What ForEachMemRange maps is what was reserved.
LEMMA RangesReserved ==
  ASSUME NEW c, WellMapped(c)
  PROVE  /\ GetAlignedRw(c) = c.reserve.start
         /\ DOMAIN ForEachMemRange(c) = PagesOf(c)
         /\ \A p \in PagesOf(c) : ForEachMemRange(c)[p] = PageOf(c.ro) + (p - c.reserve.start)
<1>1. PageWords \in Nat \ {0} /\ c.ro \in Nat /\ c.size \in Nat \ {0}
      /\ c.reserve.start \in Nat /\ c.reserve.end \in Nat
  BY MappingsAssumption DEF WellMapped, ClaimType, Regions
<1>2. GetAlignedRw(c) = c.reserve.start
  <2>1. c.ro \in Int /\ c.reserve.start \in Int
    BY <1>1
  <2>2. PageOf(PageWords * c.reserve.start + (c.ro % PageWords)) = c.reserve.start
    BY <2>1, PageParts, PageUnique
  <2> QED
    BY <2>2 DEF WellMapped, GetAlignedRw
<1>3. GetAlignedSize(c) = c.reserve.end - c.reserve.start
  <2>1. c.size + PageWords - 1 \in Int
    BY <1>1
  <2>2. GetAlignedSize(c) \in Int
    BY <2>1, PageParts DEF GetAlignedSize
  <2>3. c.reserve.end = c.reserve.start + GetAlignedSize(c)
    BY DEF WellMapped
  <2> QED
    BY <1>1, <2>2, <2>3
<1>4. c.reserve.start + GetAlignedSize(c) - 1 = c.reserve.end - 1
  BY <1>1, <1>3
<1> QED
  BY <1>2, <1>4 DEF ForEachMemRange, PagesOf, GetAlignedRo

\* Where the claim of id is, each of its words is seen in both places.
LEMMA SeenThrough ==
  ASSUME MapInv, NEW id \in DOMAIN claims, NEW j \in 0 .. claims[id].size - 1
  PROVE  Phys(claims[id].rw + j) = claims[id].ro + j
<1> DEFINE c == claims[id]
           k == PageOf(c.ro + j) - PageOf(c.ro)
           r == (c.ro + j) % PageWords
<1>1. WellMapped(c)
  BY DEF MapInv
<1>2. PageWords \in Nat \ {0} /\ c.ro \in Nat /\ c.ro + j \in Int /\ c.reserve.start \in Nat
  BY <1>1, MappingsAssumption DEF WellMapped, ClaimType, Regions
<1>3. /\ k \in Nat /\ c.reserve.start + k \in PagesOf(c)
      /\ PageOf(c.rw + j) = c.reserve.start + k /\ (c.rw + j) % PageWords = r
  BY <1>1, ClaimFits
<1>4. PageOf(c.ro + j) \in Int /\ PageOf(c.ro) \in Int /\ r \in Int
      /\ c.ro + j = PageWords * PageOf(c.ro + j) + r
  <2>1. PageOf(c.ro) \in Int
    <3>1. c.ro \in Int
      BY <1>2
    <3> QED
      BY <3>1, PageParts
  <2>2. PageOf(c.ro + j) \in Int /\ r \in Int /\ c.ro + j = PageWords * PageOf(c.ro + j) + r
    <3> DEFINE y == c.ro + j
    <3>1. y \in Int
      BY <1>2
    <3> HIDE DEF y
    <3>2. PageOf(y) \in Int /\ y % PageWords \in Int /\ y = PageWords * PageOf(y) + (y % PageWords)
      BY <3>1, PageParts
    <3> QED
      BY <3>2 DEF y
  <2> QED
    BY <2>1, <2>2
<1>5. /\ c.reserve.start + k \in DOMAIN window
      /\ window[c.reserve.start + k] = PageOf(c.ro) + ((c.reserve.start + k) - c.reserve.start)
  BY <1>3 DEF MapInv, Shown
<1>6. PageOf(c.ro) + ((c.reserve.start + k) - c.reserve.start) = PageOf(c.ro + j)
  BY <1>2, <1>3, <1>4
<1>7. Phys(c.rw + j) = PageOf(c.ro + j) * PageWords + r
  BY <1>3, <1>5, <1>6 DEF Phys
<1> QED
  BY <1>2, <1>4, <1>7

LEMMA MapApart ==
  ASSUME MapInv
  PROVE  ClaimsApart
<1>1. ASSUME NEW id \in DOMAIN claims
      PROVE  LET c == claims[id] IN
             /\ c.rw % PageWords = c.ro % PageWords
             /\ \A k \in 0 .. PageOf(c.ro + c.size - 1) - PageOf(c.ro) :
                  /\ PageOf(c.rw) + k \in DOMAIN window
                  /\ window[PageOf(c.rw) + k] = PageOf(c.ro) + k
  <2> DEFINE c == claims[id]
  <2>1. WellMapped(c)
    BY <1>1 DEF MapInv
  <2>2. PageWords \in Nat \ {0} /\ c.ro \in Nat /\ c.rw \in Nat /\ c.size \in Nat \ {0}
        /\ c.reserve.start \in Nat /\ c.reserve.end \in Nat
    BY <2>1, MappingsAssumption DEF WellMapped, ClaimType, Regions
  <2>3. 0 \in 0 .. c.size - 1 /\ c.rw + 0 = c.rw /\ c.ro + 0 = c.ro
    BY <2>2
  <2>4. c.rw % PageWords = c.ro % PageWords /\ PageOf(c.rw) = c.reserve.start
    BY <2>1, <2>2, <2>3, ClaimFits, RangesReserved DEF GetAlignedRw
  <2>5. ASSUME NEW k \in 0 .. PageOf(c.ro + c.size - 1) - PageOf(c.ro)
        PROVE  c.reserve.start + k \in PagesOf(c)
    <3>1. c.size - 1 \in 0 .. c.size - 1 /\ c.ro + (c.size - 1) = c.ro + c.size - 1
          /\ c.ro + c.size - 1 \in Int
      BY <2>2
    <3>2. c.reserve.start + (PageOf(c.ro + c.size - 1) - PageOf(c.ro)) \in PagesOf(c)
      BY <2>1, <3>1, ClaimFits
    <3>3. PageOf(c.ro) \in Int /\ PageOf(c.ro + c.size - 1) \in Int
      <4>1. c.ro \in Int
        BY <2>2
      <4> QED
        BY <3>1, <4>1, PageParts
    <3> QED
      BY <2>2, <2>5, <3>2, <3>3 DEF PagesOf
  <2>6. ASSUME NEW k \in 0 .. PageOf(c.ro + c.size - 1) - PageOf(c.ro)
        PROVE  /\ PageOf(c.rw) + k \in DOMAIN window
               /\ window[PageOf(c.rw) + k] = PageOf(c.ro) + k
    <3>1. /\ c.reserve.start + k \in DOMAIN window
          /\ window[c.reserve.start + k] = PageOf(c.ro) + ((c.reserve.start + k) - c.reserve.start)
      BY <2>5, <2>6 DEF MapInv, Shown
    <3>2. (c.reserve.start + k) - c.reserve.start = k
      BY <2>2, <2>6
    <3> QED
      BY <2>4, <3>1, <3>2
  <2> QED
    BY <2>4, <2>6
<1>2. \A a, b \in DOMAIN claims :
        a # b => ~ Overlaps(claims[a].reserve, claims[b].reserve.start, claims[b].reserve.end)
  BY DEF MapInv, ReservedOnce, AreApart
<1>3. DOMAIN window = UNION { DOMAIN ForEachMemRange(claims[id]) : id \in DOMAIN claims }
  <2>1. \A id \in DOMAIN claims : DOMAIN ForEachMemRange(claims[id]) = PagesOf(claims[id])
    BY RangesReserved DEF MapInv
  <2>2. \A p \in DOMAIN window : \E id \in DOMAIN claims : p \in PagesOf(claims[id])
    BY DEF MapInv, OnlyClaimed
  <2>3. \A id \in DOMAIN claims : \A p \in PagesOf(claims[id]) : p \in DOMAIN window
    BY DEF MapInv, Shown
  <2> QED
    BY <2>1, <2>2, <2>3
<1> QED
  BY <1>1, <1>2, <1>3 DEF ClaimsApart, MapInv, FreeSpace, ReservedOnce
(***************************************************************************)
(* The constructor: what it finds is free, and what it makes keeps MapInv. *)
(***************************************************************************)
LEMMA Placed ==
  ASSUME MapInv, regions # <<>>, NEW id, NEW ro \in Nat, NEW size \in Nat \ {0},
         RwPages(id, ro, size)
  PROVE  \/ Abort
         \/ /\ MapInv' /\ UNCHANGED <<regions, stale, dead>>
            /\ \E c : c.ro = ro /\ c.size = size /\ claims' = Put(id, c, claims)
            /\ id \notin DOMAIN claims
<1> DEFINE sized == Claim(ro, 0, size, <<>>)
           pages == GetAlignedSize(sized)
<1> SUFFICES ASSUME ~ Abort
             PROVE  /\ MapInv' /\ UNCHANGED <<regions, stale, dead>>
                    /\ \E c : c.ro = ro /\ c.size = size /\ claims' = Put(id, c, claims)
                    /\ id \notin DOMAIN claims
  OBVIOUS
<1>1. PICK rw \in virtmemFindAslr(pages, 0) :
        /\ rw # NULL /\ ~ Crosses(sized)
        /\ LET c == Claim(ro, rw * PageWords + (ro % PageWords), size, Region(rw, rw + pages))
           IN /\ reservations' = virtmemAddReservation(c.reserve)
              /\ window' = Over(ForEachMemRange(c), window)
              /\ claims' = Put(id, c, claims)
              /\ UNCHANGED <<regions, stale, dead>>
  BY DEF RwPages
<1>2. id \notin DOMAIN claims
  BY DEF RwPages
<1> DEFINE c == Claim(ro, rw * PageWords + (ro % PageWords), size, Region(rw, rw + pages))
<1>3. /\ c = [ro |-> ro, size |-> size, rw |-> rw * PageWords + (ro % PageWords),
              reserve |-> [start |-> rw, end |-> rw + pages]]
      /\ sized.ro = ro /\ sized.size = size
  BY DEF Claim, Region
<1>4. regions \in FourRegions
  BY DEF MapInv
<1>5. PageWords \in Nat \ {0} /\ ro % PageWords \in 0 .. PageWords - 1 /\ pages \in Nat \ {0}
  <2>1. PageWords \in Nat \ {0}
    BY MappingsAssumption
  <2>2. ro \in Int /\ size + PageWords - 1 \in Int /\ PageWords <= size + PageWords - 1
    BY <2>1
  <2>3. ro % PageWords \in 0 .. PageWords - 1
    BY <2>2, PageParts
  <2>4. PageOf(PageWords * 1 + 0) = 1 /\ PageWords * 1 + 0 = PageWords
    <3>1. 0 \in 0 .. PageWords - 1 /\ 1 \in Int /\ PageWords * 1 + 0 = PageWords
      BY <2>1
    <3> QED
      BY <3>1, PageUnique
  <2>5. PageOf(size + PageWords - 1) \in Int
    BY <2>2, PageParts
  <2>6. PageOf(PageWords) <= PageOf(size + PageWords - 1)
    BY <2>1, <2>2, PageGrows
  <2> QED
    BY <1>3, <2>1, <2>3, <2>4, <2>5, <2>6 DEF GetAlignedSize
<1> HIDE DEF sized, pages
<1>6. /\ rw \in Nat
      /\ ~ Overlaps(regions.alias, rw, rw + pages) /\ ~ Overlaps(regions.heap, rw, rw + pages)
      /\ ~ IsMapped(rw, rw + pages) /\ ~ IsReserved(rw, rw + pages)
  <2>1. rw \in FindRandom(regions.aslr, pages, 0) /\ rw # NULL
    BY <1>1 DEF virtmemFindAslr
  <2>2. pages <= regions.aslr.end - regions.aslr.start
    <3>1. NULL = -1 /\ FindRandom(regions.aslr, pages, 0) # {NULL}
      BY <2>1 DEF NULL
    <3>2. regions.aslr.end \in Int /\ regions.aslr.start \in Int /\ pages \in Int
      BY <1>4, <1>5 DEF FourRegions, Regions
    <3>3. regions.aslr.end - regions.aslr.start < pages => FindRandom(regions.aslr, pages, 0) = {NULL}
      BY <3>2 DEF FindRandom
    <3> QED
      BY <3>1, <3>2, <3>3
  <2>3. /\ rw \in regions.aslr.start .. regions.aslr.end - pages
        /\ ~ Overlaps(regions.alias, rw, rw + pages) /\ ~ Overlaps(regions.heap, rw, rw + pages)
        /\ ~ IsMapped(rw - 0, rw + pages + 0) /\ ~ IsReserved(rw - 0, rw + pages + 0)
    BY <1>4, <1>5, <2>1, <2>2 DEF FindRandom, FourRegions, Regions
  <2>4. rw \in Nat /\ rw - 0 = rw /\ rw + pages + 0 = rw + pages
    BY <1>4, <1>5, <2>3 DEF FourRegions, Regions
  <2> QED
    BY <2>3, <2>4
<1>7. /\ WellMapped(c) /\ c.ro = ro /\ c.size = size
      /\ c.reserve.start = rw /\ c.reserve.end = rw + pages /\ c.reserve \in Regions
  <2>1. c \in ClaimType /\ c.reserve.start = rw /\ c.reserve.end = rw + pages
    <3>1. rw * PageWords + (ro % PageWords) \in Nat /\ rw + pages \in Nat
      BY <1>5, <1>6
    <3> QED
      BY <1>6, <3>1 DEF Claim, Region, ClaimType, Regions
  <2>2. c.ro = sized.ro /\ c.size = sized.size
    BY <1>3
  <2>3. GetAlignedSize(c) = pages /\ ~ Crosses(c)
    BY <1>1, <2>2 DEF pages, Crosses, GetAlignedSize, GetAlignedRo
  <2>4. c.rw = PageWords * rw + (ro % PageWords)
    BY <1>3, <1>5, <1>6
  <2> QED
    BY <1>3, <2>1, <2>3, <2>4 DEF WellMapped, ClaimType
<1>9. /\ reservations' = <<c.reserve>> \o reservations
      /\ window' = Over(ForEachMemRange(c), window)
      /\ claims' = Put(id, c, claims)
      /\ UNCHANGED <<regions, stale, dead>>
  BY <1>1 DEF virtmemAddReservation
<1> HIDE DEF c
<1>8. PagesOf(c) = rw .. rw + pages - 1
  BY <1>5, <1>6, <1>7 DEF PagesOf
<1>10. \A p \in PagesOf(c) :
         /\ Layout[p] = "unmapped" /\ p \notin DOMAIN window
         /\ ~ Overlaps(regions.alias, p, p + 1) /\ ~ Overlaps(regions.heap, p, p + 1)
  <2> SUFFICES ASSUME NEW p \in rw .. rw + pages - 1
               PROVE  /\ Layout[p] = "unmapped" /\ p \notin DOMAIN window
                      /\ ~ Overlaps(regions.alias, p, p + 1) /\ ~ Overlaps(regions.heap, p, p + 1)
    BY <1>8
  <2>1. Layout[p] = "unmapped" /\ p \notin DOMAIN window
    <3> DEFINE end == rw + pages
    <3>1. ~ IsMapped(rw, end)
      BY <1>6
    <3>2. p \in rw .. end - 1
      BY <1>5, <1>6
    <3> HIDE DEF end
    <3> QED
      BY <3>1, <3>2 DEF IsMapped
  <2>2. p \in Nat /\ rw <= p /\ p + 1 <= rw + pages
    BY <1>5, <1>6
  <2> QED
    <3> DEFINE alias == regions.alias
               heap == regions.heap
    <3>1. alias.start \in Nat /\ alias.end \in Nat /\ heap.start \in Nat /\ heap.end \in Nat
      BY <1>4 DEF FourRegions, Regions
    <3>2. /\ ~ (rw < alias.end /\ alias.start < rw + pages)
          /\ ~ (rw < heap.end /\ heap.start < rw + pages)
      BY <1>6 DEF Overlaps
    <3> HIDE DEF alias, heap
    <3>3. ~ (p < alias.end /\ alias.start < p + 1) /\ ~ (p < heap.end /\ heap.start < p + 1)
      <4>1. pages \in Nat /\ rw \in Nat
        BY <1>5, <1>6
      <4>2. p < alias.end /\ alias.start < p + 1 => rw < alias.end /\ alias.start < rw + pages
        BY <2>2, <3>1, <4>1
      <4>3. p < heap.end /\ heap.start < p + 1 => rw < heap.end /\ heap.start < rw + pages
        BY <2>2, <3>1, <4>1
      <4> QED
        BY <3>2, <4>2, <4>3 DEF alias, heap
    <3> QED
      BY <2>1, <3>3 DEF alias, heap, Overlaps
<1>11. \A i \in DOMAIN reservations : ~ Overlaps(reservations[i], rw, rw + pages)
  BY <1>6 DEF IsReserved
<1>12. \A other \in DOMAIN claims : /\ AreApart(c.reserve, claims[other].reserve)
                                    /\ AreApart(claims[other].reserve, c.reserve)
  <2> TAKE other \in DOMAIN claims
  <2> DEFINE r == claims[other].reserve
  <2>1. PICK i \in DOMAIN reservations : reservations[i] = r
    BY DEF MapInv, ReservedOnce, ToSet
  <2>2. ~ Overlaps(r, rw, rw + pages)
    BY <1>11, <2>1
  <2>3. r.start \in Nat /\ r.end \in Nat
    BY DEF MapInv, WellMapped, ClaimType, Regions
  <2> HIDE DEF r
  <2> QED
    <3>1. ~ (rw < r.end /\ r.start < rw + pages)
      BY <2>2 DEF Overlaps
    <3>2. ~ (r.start < rw + pages /\ rw < r.end) /\ ~ (rw < r.end /\ r.start < rw + pages)
      BY <3>1
    <3> QED
      BY <1>7, <3>2 DEF AreApart, Overlaps, r
<1>13. DOMAIN claims' = DOMAIN claims \cup {id} /\ claims'[id] = c
       /\ \A other \in DOMAIN claims : claims'[other] = claims[other]
  BY <1>2, <1>9 DEF Put
<1>14. \A p \in DOMAIN ForEachMemRange(c) : window'[p] = ForEachMemRange(c)[p]
  BY <1>9 DEF Over
<1>15. /\ DOMAIN window' = PagesOf(c) \cup DOMAIN window
       /\ \A p \in PagesOf(c) : window'[p] = PageOf(c.ro) + (p - c.reserve.start)
       /\ \A p \in DOMAIN window : window'[p] = window[p]
  <2>1. DOMAIN ForEachMemRange(c) = PagesOf(c)
    BY <1>7, RangesReserved
  <2>2. \A p \in PagesOf(c) : window'[p] = PageOf(c.ro) + (p - c.reserve.start)
    BY <1>7, <1>14, <2>1, RangesReserved
  <2> QED
    BY <1>9, <1>10, <2>1, <2>2 DEF Over
<1>16. IsFiniteSet(DOMAIN claims') /\ Cardinality(DOMAIN claims') = Cardinality(DOMAIN claims) + 1
  BY <1>2, <1>13, FS_AddElement DEF MapInv
<1>17. \A x \in DOMAIN claims' : WellMapped(claims'[x])
  BY <1>7, <1>13 DEF MapInv
<1> HIDE DEF MapInv
<1>18. Shown'
  <2> SUFFICES ASSUME NEW x \in DOMAIN claims', NEW p \in PagesOf(claims'[x])
               PROVE  /\ p \in DOMAIN window'
                      /\ window'[p] = PageOf(claims'[x].ro) + (p - claims'[x].reserve.start)
    BY DEF Shown, PagesOf
  <2>1. CASE x = id
    BY <1>13, <1>15, <2>1
  <2>2. CASE x \in DOMAIN claims
    <3>1. claims'[x] = claims[x]
      BY <1>13, <2>2
    <3>2. p \in DOMAIN window /\ window[p] = PageOf(claims[x].ro) + (p - claims[x].reserve.start)
      BY <2>2, <3>1 DEF MapInv, Shown
    <3>3. p \in DOMAIN window' /\ window'[p] = window[p]
      BY <1>15, <3>2
    <3> QED
      BY <3>1, <3>2, <3>3
  <2> QED
    BY <1>13, <2>1, <2>2
<1>19. OnlyClaimed'
  BY <1>13, <1>15 DEF MapInv, OnlyClaimed, PagesOf
<1>20. FreeSpace'
  <2> SUFFICES ASSUME NEW p \in DOMAIN window'
               PROVE  /\ Layout[p] = "unmapped"
                      /\ ~ Overlaps(regions'.alias, p, p + 1)
                      /\ ~ Overlaps(regions'.heap, p, p + 1)
    BY DEF FreeSpace, Overlaps
  <2>1. p \in PagesOf(c) \/ p \in DOMAIN window
    BY <1>15
  <2> QED
    BY <1>9, <1>10, <2>1 DEF MapInv, FreeSpace
<1>21. ReservedOnce'
  <2>1. \A a, b \in DOMAIN claims' : a # b => AreApart(claims'[a].reserve, claims'[b].reserve)
    BY <1>12, <1>13 DEF MapInv, ReservedOnce
  <2> DEFINE old == reservations
             new == reservations'
  <2>2. /\ old \in Seq(Regions) /\ <<c.reserve>> \in Seq(Regions) /\ Len(<<c.reserve>>) = 1
        /\ <<c.reserve>>[1] = c.reserve /\ new = <<c.reserve>> \o old
    BY <1>7, <1>9 DEF MapInv, ReservedOnce
  <2>3. /\ new \in Seq(Regions) /\ Len(new) = 1 + Len(old)
        /\ \A i \in 1 .. 1 + Len(old) : new[i] = IF i <= 1 THEN <<c.reserve>>[i] ELSE old[i - 1]
    BY <2>2, ConcatProperties
  <2> HIDE DEF old, new
  <2>4. Len(old) \in Nat /\ DOMAIN old = 1 .. Len(old) /\ DOMAIN new = 1 .. 1 + Len(old)
    BY <2>2, <2>3
  <2>5. new[1] = c.reserve /\ \A i \in DOMAIN old : new[i + 1] = old[i]
    BY <2>2, <2>3, <2>4
  <2>6. \A i \in DOMAIN new : i = 1 \/ (i - 1 \in DOMAIN old /\ new[i] = old[i - 1])
    BY <2>3, <2>4
  <2>7. \A i \in DOMAIN old : old[i] # c.reserve
    BY <1>5, <1>6, <1>7, <1>11 DEF Overlaps, old
  <2>8. Distinct(old)
    BY DEF MapInv, ReservedOnce, old
  <2>9. Distinct(new)
    BY <2>4, <2>5, <2>6, <2>7, <2>8 DEF Distinct
  <2>10. ToSet(new) = ToSet(old) \cup {c.reserve}
    <3>1. ASSUME NEW x \in ToSet(new) PROVE x \in ToSet(old) \cup {c.reserve}
      BY <2>5, <2>6, <3>1 DEF ToSet
    <3>2. ASSUME NEW x \in ToSet(old) PROVE x \in ToSet(new)
      <4>1. PICK i \in DOMAIN old : x = old[i]
        BY <3>2 DEF ToSet
      <4>2. i + 1 \in DOMAIN new /\ new[i + 1] = x
        BY <2>4, <2>5, <4>1
      <4> QED
        BY <4>2 DEF ToSet
    <3>3. c.reserve \in ToSet(new)
      BY <2>4, <2>5 DEF ToSet
    <3> QED
      BY <3>1, <3>2, <3>3
  <2>11. ToSet(new) = { claims'[x].reserve : x \in DOMAIN claims' }
    <3>1. ToSet(old) = { claims[x].reserve : x \in DOMAIN claims }
      BY DEF MapInv, ReservedOnce, old
    <3>2. \A x \in DOMAIN claims : claims'[x].reserve = claims[x].reserve
      BY <1>13
    <3>3. claims'[id].reserve = c.reserve /\ DOMAIN claims' = DOMAIN claims \cup {id}
      BY <1>13
    <3> HIDE DEF MapInv
    <3> QED
      BY <2>10, <3>1, <3>2, <3>3
  <2>12. Len(new) = Cardinality(DOMAIN claims')
    <3>1. Len(old) = Cardinality(DOMAIN claims)
      BY DEF MapInv, ReservedOnce, old
    <3> QED
      BY <1>16, <2>3, <2>4, <3>1
  <2> QED
    BY <2>1, <2>3, <2>9, <2>11, <2>12 DEF ReservedOnce, AreApart, Overlaps, Distinct, new
<1> QED
  BY <1>2, <1>4, <1>7, <1>9, <1>13, <1>16, <1>17, <1>18, <1>19, <1>20, <1>21 DEF MapInv
(***************************************************************************)
(* The destructor: what it gives back was the claim's alone.               *)
(***************************************************************************)
LEMMA GivenBack ==
  ASSUME MapInv, NEW id, Unclaim(id)
  PROVE  MapInv'
<1> DEFINE c == claims[id]
           left == DOMAIN claims \ {id}
<1>1. id \in DOMAIN claims /\ UNCHANGED <<regions, dead>> /\ claims' = Without(claims, {id})
      /\ window' = Without(window, DOMAIN ForEachMemRange(c))
      /\ reservations' = virtmemRemoveReservation(c.reserve)
  BY DEF Unclaim
<1>2. WellMapped(c) /\ DOMAIN ForEachMemRange(c) = PagesOf(c)
  BY <1>1, RangesReserved DEF MapInv
<1>3. DOMAIN claims' = left /\ \A x \in left : claims'[x] = claims[x]
  BY <1>1 DEF Without, Restrict
<1>4. DOMAIN window' = DOMAIN window \ PagesOf(c)
      /\ \A p \in DOMAIN window' : window'[p] = window[p]
  BY <1>1, <1>2 DEF Without, Restrict
<1>5. \A x \in left : /\ WellMapped(claims[x]) /\ AreApart(claims[x].reserve, c.reserve)
                      /\ claims[x].reserve # c.reserve
  <2> TAKE x \in left
  <2> DEFINE r == claims[x].reserve
             t == c.reserve
  <2>1. WellMapped(claims[x]) /\ AreApart(r, t)
    BY <1>1 DEF MapInv, ReservedOnce
  <2>2. t.start \in Nat /\ t.end \in Nat /\ t.start < t.end
    <3>1. 0 \in 0 .. c.size - 1
      BY <1>2 DEF WellMapped, ClaimType
    <3>2. c.reserve.start + (PageOf(c.ro + 0) - PageOf(c.ro)) \in PagesOf(c)
      BY <1>2, <3>1, ClaimFits
    <3>3. t.start \in Nat /\ t.end \in Nat
      BY <1>2 DEF WellMapped, ClaimType, Regions
    <3>4. \E p \in Int : t.start <= p /\ p <= t.end - 1
      BY <3>2, <3>3 DEF PagesOf
    <3> HIDE DEF t
    <3> QED
      BY <3>3, <3>4
  <2>3. ~ AreApart(t, t)
    BY <2>2 DEF AreApart, Overlaps
  <2> QED
    BY <2>1, <2>3
<1> HIDE DEF MapInv
<1>6. IsFiniteSet(DOMAIN claims') /\ Cardinality(DOMAIN claims') = Cardinality(DOMAIN claims) - 1
  BY <1>1, <1>3, FS_RemoveElement DEF MapInv
<1>7. \A x \in DOMAIN claims' : WellMapped(claims'[x])
  BY <1>3, <1>5
<1>8. ASSUME NEW x \in left, NEW p \in PagesOf(claims[x])
      PROVE  p \in DOMAIN window' /\ window'[p] = PageOf(claims[x].ro) + (p - claims[x].reserve.start)
  <2>1. p \in DOMAIN window /\ window[p] = PageOf(claims[x].ro) + (p - claims[x].reserve.start)
    BY <1>8 DEF MapInv, Shown
  <2>2. p \notin PagesOf(c)
    <3> DEFINE r == claims[x].reserve
               t == c.reserve
    <3>1. r.start \in Nat /\ r.end \in Nat /\ t.start \in Nat /\ t.end \in Nat
      BY <1>2, <1>5 DEF WellMapped, ClaimType, Regions
    <3>2. ~ (t.start < r.end /\ r.start < t.end)
      BY <1>5 DEF AreApart, Overlaps
    <3>3. p \in r.start .. r.end - 1
      BY <1>8 DEF PagesOf
    <3> HIDE DEF r, t
    <3>4. p \notin t.start .. t.end - 1
      BY <3>1, <3>2, <3>3
    <3> QED
      BY <3>4 DEF PagesOf, t
  <2>3. p \in DOMAIN window' /\ window'[p] = window[p]
    BY <1>4, <2>1, <2>2
  <2> QED
    BY <2>1, <2>3
<1>9. Shown'
  BY <1>3, <1>8 DEF Shown, PagesOf
<1>10. OnlyClaimed'
  <2> SUFFICES ASSUME NEW p \in DOMAIN window'
               PROVE  \E x \in DOMAIN claims' : p \in PagesOf(claims'[x])
    BY DEF OnlyClaimed, PagesOf
  <2>1. PICK x \in DOMAIN claims : p \in PagesOf(claims[x])
    BY <1>4 DEF MapInv, OnlyClaimed
  <2>2. x \in left
    BY <1>4, <2>1
  <2> QED
    BY <1>3, <2>1, <2>2
<1>11. FreeSpace'
  BY <1>1, <1>4 DEF MapInv, FreeSpace, Overlaps
<1>12. ReservedOnce'
  <2> DEFINE old == reservations
             i == CHOOSE k \in DOMAIN old : old[k] = c.reserve
  <2>1. \A a, b \in DOMAIN claims' : a # b => AreApart(claims'[a].reserve, claims'[b].reserve)
    BY <1>3 DEF MapInv, ReservedOnce
  <2>2. /\ old \in Seq(Regions) /\ Distinct(old)
        /\ ToSet(old) = { claims[x].reserve : x \in DOMAIN claims }
        /\ Len(old) = Cardinality(DOMAIN claims)
    BY DEF MapInv, ReservedOnce
  <2>3. i \in DOMAIN old /\ old[i] = c.reserve
    BY <1>1, <2>2 DEF ToSet
  <2>4. reservations' = RemoveAt(old, i)
    BY <1>1 DEF virtmemRemoveReservation
  <2> HIDE DEF old, i
  <2>5. /\ reservations' \in Seq(Regions) /\ Len(reservations') = Len(old) - 1
        /\ Distinct(reservations')
        /\ ToSet(reservations') = ToSet(old) \ {c.reserve}
    <3> DEFINE new == reservations'
    <3>1. new = RemoveAt(old, i)
      BY <2>4
    <3> HIDE DEF new
    <3>2. /\ new \in Seq(Regions) /\ Len(new) = Len(old) - 1
          /\ Distinct(new)
          /\ ToSet(new) = ToSet(old) \ {old[i]}
      BY <2>2, <2>3, <3>1, RemoveAtHolds
    <3> QED
      BY <2>3, <3>2 DEF new
  <2>6. ToSet(reservations') = { claims'[x].reserve : x \in DOMAIN claims' }
    <3>1. ASSUME NEW r \in ToSet(reservations') PROVE \E x \in left : r = claims'[x].reserve
      BY <1>3, <2>2, <2>5, <3>1
    <3>2. ASSUME NEW x \in left PROVE claims'[x].reserve \in ToSet(reservations')
      BY <1>3, <1>5, <2>2, <2>5, <3>2
    <3> QED
      BY <1>3, <3>1, <3>2
  <2>7. Len(reservations') = Cardinality(DOMAIN claims')
    BY <1>6, <2>2, <2>5
  <2> QED
    BY <2>1, <2>5, <2>6, <2>7 DEF ReservedOnce, AreApart, Overlaps, Distinct
<1> QED
  BY <1>1, <1>3, <1>6, <1>7, <1>9, <1>10, <1>11, <1>12 DEF MapInv

-----------------------------------------------------------------------------
(***************************************************************************)
(* The hook engine and the patchers, one at a time: which claims there     *)
(* are, where each was made for, and what is still in the instruction      *)
(* cache as it was.                                                        *)
(***************************************************************************)
Pool(name) == IF name = "hooks" THEN HookPool ELSE InlinePool

\* Claims made at start-up stay, each for what it was made for.
StartClaims ==
  /\ DOMAIN claims \subseteq {"patcher", "hooks", "inline", "hook"}
  /\ "patcher" \in DOMAIN claims => claims["patcher"].ro = MainStart /\ claims["patcher"].size = MainSize
  /\ \A name \in {"hooks", "inline"} \cap DOMAIN claims :
       claims[name].ro = Pool(name).base /\ claims[name].size = Pool(name).size

\* An installation under way has a spot, a slot of the pool that may be the one past
\* HookMax, and an entry if it is inline.
JobSteps == {"claim", "write", "release", "finish"}
Job ==
  /\ DOMAIN job = {"step", "at", "cb", "replace", "slot", "entry"}
  /\ job.step \in JobSteps
  /\ job.at \in Spots /\ job.slot \in -1 .. HookMax
  /\ \/ job.entry = 0
     \/ \E e \in 0 .. InlinePoolCount - 1 : job.entry = InlinePool.base + e * EntryWords
  /\ Ready /\ patcher = NoPatcher /\ cpu = Idle
  /\ job.step \in {"write", "release"} /\ ~ dead =>
       /\ "hook" \in DOMAIN claims /\ claims["hook"].ro = job.at
       /\ claims["hook"].size = ClaimedAt(job.at, job.replace)

NoJobInv == job = NoJob /\ (patcher # NoPatcher \/ cpu # Idle => Ready)

\* Where a patcher has been since it last dropped what it wrote.
Touched(p) == { MainStart + addr : addr \in { a \in PatchSpots : p.start <= a /\ a < p.current } }

PatcherInv ==
  \/ patcher = NoPatcher /\ stale = {}
  \/ /\ DOMAIN patcher = {"type", "start", "current"}
     /\ patcher.type \in {"stream", "random"} /\ cpu = Idle
     /\ \/ patcher.type = "random" /\ patcher.start = NULL /\ patcher.current = NULL /\ stale = {}
        \/ /\ patcher.start \in Nat /\ patcher.current \in Nat /\ patcher.start <= patcher.current
           /\ stale \subseteq Touched(patcher)

CodeInv ==
  /\ MapInv /\ StartClaims
  /\ index \in Int /\ index >= -1 /\ s_EntryIndex \in Nat
  /\ Job \/ NoJobInv
  /\ PatcherInv
  /\ WritesStayInCode

-----------------------------------------------------------------------------
(***************************************************************************)
(* How many words a hook writes.                                           *)
(***************************************************************************)
Short(s, n) == (\E S : s \in Seq(S)) /\ Len(s) \in 1 .. n

LEMMA ShortConcat ==
  ASSUME NEW s, NEW t, NEW m \in Nat, NEW n \in Nat, Short(s, m), Short(t, n)
  PROVE  Short(s \o t, m + n)
<1>1. PICK S : s \in Seq(S)
  BY DEF Short
<1>2. PICK T : t \in Seq(T)
  BY DEF Short
<1>3. s \in Seq(S \cup T) /\ t \in Seq(S \cup T)
  BY <1>1, <1>2
<1>4. s \o t \in Seq(S \cup T) /\ Len(s \o t) = Len(s) + Len(t)
  BY <1>3, ConcatProperties
<1>5. Len(s) \in 1 .. m /\ Len(t) \in 1 .. n
  BY DEF Short
<1>6. Len(s \o t) \in 1 .. m + n
  BY <1>4, <1>5
<1> QED
  BY <1>4, <1>6 DEF Short

LEMMA ShortTuples ==
  ASSUME NEW a, NEW b, NEW c, NEW d
  PROVE  Short(<<a>>, 1) /\ Short(<<a, b>>, 2) /\ Short(<<a, b, c, d>>, 4)
<1> DEFINE S == {a, b, c, d}
<1>1. <<a>> \in Seq(S) /\ Len(<<a>>) = 1
  OBVIOUS
<1>2. <<a, b>> \in Seq(S) /\ Len(<<a, b>>) = 2
  OBVIOUS
<1>3. <<a, b, c, d>> \in Seq(S) /\ Len(<<a, b, c, d>>) = 4
  OBVIOUS
<1> HIDE DEF S
<1>4. Short(<<a>>, 1)
  BY <1>1 DEF Short
<1>5. Short(<<a, b>>, 2)
  BY <1>2 DEF Short
<1>6. Short(<<a, b, c, d>>, 4)
  BY <1>3 DEF Short
<1> QED
  BY <1>4, <1>5, <1>6

LEMMA ShortGrows ==
  ASSUME NEW s, NEW m \in Nat, NEW n \in Nat, m <= n, Short(s, m)
  PROVE  Short(s, n)
BY DEF Short

\* With a word before it or not.
LEMMA ShortPadded ==
  ASSUME NEW s, NEW n \in Nat, NEW pad, NEW w, Short(s, n)
  PROVE  Short((IF pad THEN <<w>> ELSE <<>>) \o s, n + 1)
<1>1. CASE pad
  <2>1. Short(<<w>>, 1)
    BY ShortTuples
  <2>2. Short(<<w>> \o s, 1 + n)
    BY <2>1, ShortConcat
  <2>3. 1 + n = n + 1
    OBVIOUS
  <2> QED
    BY <1>1, <2>2, <2>3
<1>2. CASE ~ pad
  <2>1. PICK S : s \in Seq(S)
    BY DEF Short
  <2>2. <<>> \o s = s
    BY <2>1, ConcatEmptySeq
  <2> QED
    BY <1>2, <2>2, ShortGrows
<1> QED
  BY <1>1, <1>2

\* A jump fits in what the hook claims for it.
LEMMA JumpShort ==
  ASSUME NEW from, NEW to, NEW pad
  PROVE  Short(Jump(from, to, pad), ClaimedAt(from, to))
<1>1. CASE Far(from, to)
  <2> DEFINE load == <<LdrX17, BrX17>>
             nop == IF pad THEN <<Aarch64Nop>> ELSE <<>>
  <2>1. Short(load, 2) /\ Short(Address(to), 2)
    BY ShortTuples DEF Address
  <2>2. Short(nop \o load, 2 + 1)
    BY <2>1, ShortPadded
  <2> HIDE DEF nop, load
  <2>3. Short((nop \o load) \o Address(to), (2 + 1) + 2)
    BY <2>1, <2>2, ShortConcat
  <2> QED
    BY <1>1, <2>3 DEF Jump, ClaimedAt, nop, load
<1>2. CASE ~ Far(from, to)
  BY <1>2, ShortTuples DEF Jump, ClaimedAt
<1> QED
  BY <1>1, <1>2

LEMMA MovedShort ==
  ASSUME NEW a, NEW rx
  PROVE  Short(Moved(a, rx), 5)
<1> DEFINE w == Fetch(a)
           to == a + Decode(w.bits).operands[Len(Decode(w.bits).operands)] \div 4
<1>1. CASE w.kind # "instruction" \/ Decode(w.bits).op \notin {"b", "ldrl"}
  <2>1. Moved(a, rx) = <<w>>
    BY <1>1 DEF Moved
  <2>2. Short(<<w>>, 1)
    BY ShortTuples
  <2> HIDE DEF w
  <2>3. Short(<<w>>, 5)
    BY <2>2, ShortGrows
  <2> QED
    BY <2>1, <2>3
<1>2. CASE w.kind = "instruction" /\ Decode(w.bits).op = "b"
  <2>1. Short(Jump(rx, to, (rx + 2) % 2 = 1), ClaimedAt(rx, to)) /\ ClaimedAt(rx, to) \in {1, 5}
    BY JumpShort DEF ClaimedAt
  <2>2. Short(Jump(rx, to, (rx + 2) % 2 = 1), 5)
    BY <2>1, ShortGrows
  <2> QED
    BY <1>2, <2>2 DEF Moved
<1>3. CASE w.kind = "instruction" /\ Decode(w.bits).op = "ldrl"
  <2> DEFINE load == <<LdrX17, B(3), Fetch(to), [kind |-> "high"]>>
  <2>1. Short(load, 4)
    BY ShortTuples
  <2> HIDE DEF load
  <2>2. Short((IF rx % 2 = 1 THEN <<Aarch64Nop>> ELSE <<>>) \o load, 4 + 1)
    BY <2>1, ShortPadded
  <2> QED
    BY <1>3, <2>2 DEF Moved, load
<1> QED
  BY <1>1, <1>2, <1>3

LEMMA MoveOnShort ==
  ASSUME NEW out, NEW n \in Nat, NEW k, NEW a, NEW count, NEW rx, Short(out, n)
  PROVE  Short(MoveOn(out, k, a, count, rx), n + 5)
BY MovedShort, ShortConcat, ShortGrows DEF MoveOn

\* Thirty words at most: five that are moved, and a jump.
LEMMA TrampolineShort ==
  ASSUME NEW a, NEW count, NEW rx
  PROVE  Short(Trampoline(a, count, rx), 30)
<1> DEFINE m1 == Moved(a, rx)
           m2 == MoveOn(m1, 2, a, count, rx)
           m3 == MoveOn(m2, 3, a, count, rx)
           m4 == MoveOn(m3, 4, a, count, rx)
           m5 == MoveOn(m4, 5, a, count, rx)
           end == rx + Len(m5)
           jump == Jump(end, a + count, (end + 2) % 2 = 1)
<1>1. Short(m1, 5)
  BY MovedShort
<1>2. Short(m2, 5 + 5)
  <2> HIDE DEF m1
  <2> QED
    BY <1>1, MoveOnShort
<1>3. Short(m3, 10 + 5)
  <2> HIDE DEF m2
  <2> QED
    BY <1>2, MoveOnShort
<1>4. Short(m4, 15 + 5)
  <2> HIDE DEF m3
  <2> QED
    BY <1>3, MoveOnShort
<1>5. Short(m5, 20 + 5)
  <2> HIDE DEF m4
  <2> QED
    BY <1>4, MoveOnShort
<1> HIDE DEF m5
<1>6. Short(jump, 5)
  <2>1. Short(jump, ClaimedAt(end, a + count)) /\ ClaimedAt(end, a + count) \in {1, 5}
    BY JumpShort DEF ClaimedAt
  <2> HIDE DEF jump
  <2> QED
    BY <2>1, ShortGrows
<1> HIDE DEF jump
<1>7. Short(m5 \o jump, 25 + 5)
  BY <1>5, <1>6, ShortConcat
<1> QED
  BY <1>7 DEF Trampoline, m5, jump

-----------------------------------------------------------------------------
(***************************************************************************)
(* Where words are written, and which of them are dropped.                 *)
(***************************************************************************)
\* Code is seen where it is: mappings are made where nothing was.
LEMMA CodeNotInWindow ==
  ASSUME MapInv, NEW w, InCode(w)
  PROVE  w \in Nat /\ Phys(w) = w
<1>1. w \in Nat /\ Layout[PageOf(w)] # "unmapped"
  BY LiveCodeConstants DEF InCode
<1>2. PageOf(w) \notin DOMAIN window
  BY <1>1 DEF MapInv, FreeSpace
<1> QED
  BY <1>1, <1>2 DEF Phys

LEMMA PokeDomain ==
  ASSUME NEW a \in Nat, NEW words, NEW n \in Nat, Short(words, n)
  PROVE  /\ Len(words) \in 1 .. n
         /\ \A w \in DOMAIN Poke(a, words) : \E k \in 0 .. Len(words) - 1 : w = Phys(a + k)
<1>1. Len(words) \in 1 .. n /\ DOMAIN words = 1 .. Len(words)
  BY DEF Short
<1>2. ASSUME NEW w \in DOMAIN Poke(a, words)
      PROVE  \E k \in 0 .. Len(words) - 1 : w = Phys(a + k)
  <2>1. PICK k \in 1 .. Len(words) : w = Phys(a + k - 1)
    BY <1>1, <1>2 DEF Poke
  <2>2. k - 1 \in 0 .. Len(words) - 1
    BY <1>1
  <2> QED
    BY <2>1, <2>2
<1> QED
  BY <1>1, <1>2

\* Through a claim: the words land behind what the claim was made for, and dropping
\* them from the cache by their writable addresses drops them all.
LEMMA PokeInClaim ==
  ASSUME MapInv, NEW id \in DOMAIN claims, NEW offset \in Nat, NEW n \in Nat, NEW words,
         Short(words, n), offset + n <= claims[id].size, NEW w \in DOMAIN Poke(claims[id].rw + offset, words)
  PROVE  /\ w \in claims[id].ro + offset .. claims[id].ro + offset + n - 1
         /\ w \in Invalidated(claims[id].rw + offset, Len(words))
<1> DEFINE c == claims[id]
           a == c.rw + offset
<1>1. c.ro \in Nat /\ c.rw \in Nat /\ c.size \in Nat \ {0}
  BY DEF MapInv, WellMapped, ClaimType
<1>2. a \in Nat
  BY <1>1
<1>3. PICK k \in 0 .. Len(words) - 1 : w = Phys(a + k)
  BY <1>2, PokeDomain
<1>4. Len(words) \in 1 .. n
  BY <1>2, PokeDomain
<1>5. offset + k \in 0 .. c.size - 1 /\ a + k = c.rw + (offset + k)
  BY <1>1, <1>4
<1>6. w = c.ro + (offset + k)
  BY <1>3, <1>5, SeenThrough
<1>7. w \in c.ro + offset .. c.ro + offset + n - 1
  <2>1. k \in Nat /\ k <= n - 1 /\ c.ro \in Nat
    BY <1>1, <1>4
  <2> QED
    BY <1>6, <2>1
<1>8. w \in Invalidated(a, Len(words))
  <2>1. a + k \in a .. a + Len(words) - 1
    BY <1>2, <1>4
  <2> HIDE DEF a
  <2> QED
    BY <1>2, <1>3, <1>4, <2>1, InvalidatedHolds
<1> QED
  BY <1>7, <1>8

\* RwPages::Flush reaches the whole claim.
LEMMA FlushedHolds ==
  ASSUME MapInv, NEW id \in DOMAIN claims, NEW j \in 0 .. claims[id].size - 1
  PROVE  Phys(claims[id].rw + j) \in Flushed(id)
<1> DEFINE c == claims[id]
           k == PageOf(c.ro + j) - PageOf(c.ro)
           start == c.reserve.start
           pages == GetAlignedSize(c)
           r == (c.rw + j) % PageWords
<1>1. WellMapped(c)
  BY DEF MapInv
<1>2. PageWords \in Nat \ {0} /\ c.rw + j \in Int /\ start \in Nat /\ c.reserve.end \in Nat
      /\ c.size \in Nat \ {0}
  BY <1>1, MappingsAssumption DEF WellMapped, ClaimType, Regions
<1>3. k \in Nat /\ start + k \in PagesOf(c) /\ PageOf(c.rw + j) = start + k
  BY <1>1, ClaimFits
<1>4. pages \in Int /\ c.reserve.end = start + pages
  <2>1. c.size + PageWords - 1 \in Int
    BY <1>2
  <2>2. PageOf(c.size + PageWords - 1) \in Int
    BY <2>1, PageParts
  <2> QED
    BY <1>1, <2>2 DEF WellMapped, GetAlignedSize
<1>5. start + k \in start .. start + pages - 1
  BY <1>2, <1>3, <1>4 DEF PagesOf
<1>6. r \in 0 .. PageWords - 1 /\ c.rw + j = PageWords * (start + k) + r
  <2> DEFINE y == c.rw + j
  <2>1. y \in Int
    BY <1>2
  <2> HIDE DEF y
  <2>2. y % PageWords \in 0 .. PageWords - 1 /\ y = PageWords * PageOf(y) + (y % PageWords)
    BY <2>1, PageParts
  <2> QED
    BY <1>3, <2>2 DEF y
<1>7. GetAlignedRw(c) = start
  BY <1>1, RangesReserved
<1> DEFINE y == c.rw + j
<1>8. y = PageWords * (start + k) + r
  BY <1>6
<1> HIDE DEF start, pages, k, r, y
<1>9. pages \in Nat \ {0} /\ k \in 0 .. pages - 1
  BY <1>2, <1>3, <1>4, <1>5
<1>10. PageWords * k <= PageWords * (pages - 1)
  BY <1>2, <1>9
<1>11. y \in start * PageWords .. start * PageWords + pages * PageWords - 1
  BY <1>2, <1>6, <1>8, <1>9, <1>10
<1>12. start * PageWords \in Nat /\ pages * PageWords \in Nat \ {0}
  BY <1>2, <1>9
<1>13. Phys(y) \in Invalidated(start * PageWords, pages * PageWords)
  BY <1>11, <1>12, InvalidatedHolds
<1> QED
  BY <1>7, <1>13 DEF Flushed, pages, y

\* The mappings as they were.
LEMMA MapFrame ==
  ASSUME MapInv, UNCHANGED <<regions, reservations, window, claims>>
  PROVE  MapInv'
BY DEF MapInv, Shown, OnlyClaimed, FreeSpace, ReservedOnce, PagesOf, Overlaps

-----------------------------------------------------------------------------
(***************************************************************************)
(* Every action keeps CodeInv.                                             *)
(***************************************************************************)
LEMMA SetupKeeps ==
  ASSUME CodeInv, Setup
  PROVE  CodeInv'
<1>1. regions' \in FourRegions /\ UNCHANGED <<reservations, window, claims, stale, dead>>
      /\ UNCHANGED codeVars /\ regions = <<>>
  BY MappingsAssumption DEF Setup, virtmemSetup, FourRegions
<1>2. MapInv'
  <2>1. DOMAIN claims = {} /\ DOMAIN window = {}
    BY <1>1 DEF CodeInv, MapInv, OnlyClaimed
  <2> QED
    BY <1>1, <2>1 DEF CodeInv, MapInv, Shown, OnlyClaimed, FreeSpace, ReservedOnce, PagesOf
<1> QED
  BY <1>1, <1>2 DEF CodeInv, StartClaims, Job, NoJobInv, PatcherInv, WritesStayInCode, Ready, codeVars

LEMMA GetHandleKeeps ==
  ASSUME CodeInv, GetHandle
  PROVE  CodeInv'
<1>1. UNCHANGED <<regions, reservations, window, claims, stale, dead>> /\ UNCHANGED codeVars
  BY DEF GetHandle, mapVars
<1>2. MapInv'
  BY <1>1, MapFrame DEF CodeInv
<1> QED
  BY <1>1, <1>2 DEF CodeInv, StartClaims, Job, NoJobInv, PatcherInv, WritesStayInCode, Ready, codeVars

\* While the pools are not there yet, nothing else is.
LEMMA StartKeeps ==
  ASSUME CodeInv, Start
  PROVE  CodeInv'
<1>1. ~ Ready /\ UNCHANGED codeVars
  BY DEF Start, InitPatcherImpl, InitializeHooks, InitializeInline, Ready
<1>2. job = NoJob /\ patcher = NoPatcher /\ cpu = Idle /\ stale = {}
  <2>1. NoJobInv
    BY <1>1 DEF CodeInv, Job
  <2>2. job = NoJob /\ patcher = NoPatcher /\ cpu = Idle
    BY <1>1, <2>1 DEF NoJobInv
  <2>3. PatcherInv /\ patcher.type = "none"
    BY <2>2 DEF CodeInv, NoPatcher
  <2> QED
    BY <2>2, <2>3 DEF PatcherInv
<1>3. \E id \in {"patcher", "hooks", "inline"}, ro \in Nat, size \in Nat \ {0} :
        /\ RwPages(id, ro, size) /\ regions # <<>>
        /\ id = "patcher" => ro = MainStart /\ size = MainSize
        /\ id # "patcher" => ro = Pool(id).base /\ size = Pool(id).size
  <2>1. MainStart \in Nat /\ MainSize \in Nat \ {0}
    BY LiveCodeConstants
  <2>2. HookPool.base \in Nat /\ HookPool.size \in Nat \ {0}
    BY LiveCodeConstants
  <2>3. InlinePool.base \in Nat /\ InlinePool.size \in Nat \ {0}
    BY LiveCodeConstants
  <2>4. DOMAIN claims # {} => regions # <<>>
    BY DEF CodeInv, MapInv
  <2>5. CASE InitPatcherImpl
    BY <2>1, <2>5 DEF InitPatcherImpl
  <2>6. CASE InitializeHooks
    BY <2>2, <2>4, <2>6 DEF InitializeHooks, JitInitialize, Pool
  <2>7. CASE InitializeInline
    BY <2>3, <2>4, <2>7 DEF InitializeInline, JitInitialize, Pool
  <2> QED
    BY <2>5, <2>6, <2>7 DEF Start
<1>4. PICK id \in {"patcher", "hooks", "inline"}, ro \in Nat, size \in Nat \ {0} :
        /\ RwPages(id, ro, size) /\ regions # <<>>
        /\ id = "patcher" => ro = MainStart /\ size = MainSize
        /\ id # "patcher" => ro = Pool(id).base /\ size = Pool(id).size
  BY <1>3
<1>5. CASE Abort
  <2>1. MapInv'
    BY <1>5, MapFrame DEF CodeInv, Abort
  <2> QED
    BY <1>1, <1>2, <1>5, <2>1
       DEF CodeInv, Abort, StartClaims, NoJobInv, PatcherInv, WritesStayInCode, Ready, codeVars
<1>6. CASE ~ Abort
  <2>1. /\ MapInv' /\ UNCHANGED <<regions, stale, dead>>
        /\ \E c : c.ro = ro /\ c.size = size /\ claims' = Put(id, c, claims)
        /\ id \notin DOMAIN claims
    BY <1>4, <1>6, Placed DEF CodeInv
  <2>2. PICK c : c.ro = ro /\ c.size = size /\ claims' = Put(id, c, claims)
    BY <2>1
  <2>3. DOMAIN claims' = DOMAIN claims \cup {id} /\ claims'[id] = c
        /\ \A other \in DOMAIN claims : claims'[other] = claims[other]
    BY <2>1, <2>2 DEF Put
  <2>4. StartClaims'
    BY <1>4, <2>2, <2>3 DEF CodeInv, StartClaims, Pool
  <2> QED
    BY <1>1, <1>2, <2>1, <2>4 DEF CodeInv, NoJobInv, PatcherInv, WritesStayInCode, codeVars
<1> QED
  BY <1>5, <1>6

LEMMA HookBeginKeeps ==
  ASSUME CodeInv, NEW a \in Spots, NEW c \in DOMAIN Kinds, HookBegin(a, c)
  PROVE  CodeInv'
<1> DEFINE inline == IsInline(c)
           entry == IF inline THEN InlinePool.base + s_EntryIndex * EntryWords ELSE 0
           replace == IF inline THEN entry ELSE CallbackAt(c)
           slot == IF DoTrampoline(c) THEN index + 1 ELSE -1
           begun == [step |-> "claim", at |-> a, cb |-> c, replace |-> replace,
                     slot |-> slot, entry |-> entry]
<1>1. /\ job = NoJob /\ patcher = NoPatcher /\ cpu = Idle /\ Ready
      /\ index' = IF slot = -1 THEN index ELSE slot
      /\ s_EntryIndex' = s_EntryIndex + Bit(inline)
      /\ IF slot > HookMax \/ (inline /\ s_EntryIndex >= InlinePoolCount)
         THEN Abort /\ UNCHANGED job
         ELSE job' = begun /\ UNCHANGED mapVars
      /\ UNCHANGED <<mem, cpu, patcher>>
  BY DEF HookBegin, Quiet
<1>2. stale = {}
  BY <1>1 DEF CodeInv, PatcherInv, NoPatcher
<1>3. slot \in Int /\ slot >= -1 /\ index' \in Int /\ index' >= -1 /\ s_EntryIndex' \in Nat
  BY <1>1 DEF CodeInv, Bit
<1>4. UNCHANGED <<regions, reservations, window, claims, stale>>
  BY <1>1 DEF Abort, mapVars
<1>5. MapInv' /\ StartClaims' /\ PatcherInv' /\ WritesStayInCode' /\ Ready'
  <2>1. MapInv'
    BY <1>4, MapFrame DEF CodeInv
  <2> QED
    BY <1>1, <1>2, <1>4, <2>1 DEF CodeInv, StartClaims, PatcherInv, WritesStayInCode, Ready
<1>6. CASE slot > HookMax \/ (inline /\ s_EntryIndex >= InlinePoolCount)
  BY <1>1, <1>3, <1>5, <1>6 DEF CodeInv, NoJobInv
<1>7. CASE ~ (slot > HookMax \/ (inline /\ s_EntryIndex >= InlinePoolCount))
  <2>1. HookMax \in Int /\ InlinePoolCount \in Int
    <3>1. HookPool.size \in Nat /\ InlinePool.size \in Nat
      BY LiveCodeConstants
    <3> QED
      BY <3>1 DEF HookMax, InlinePoolCount, TrampolineSize, EntryWords
  <2>2. slot \in -1 .. HookMax
    BY <1>3, <1>7, <2>1
  <2>3. entry = 0 \/ \E e \in 0 .. InlinePoolCount - 1 : entry = InlinePool.base + e * EntryWords
    <3>1. CASE inline
      <4>1. s_EntryIndex \in 0 .. InlinePoolCount - 1
        BY <1>7, <2>1, <3>1 DEF CodeInv
      <4> QED
        BY <3>1, <4>1
    <3> QED
      BY <3>1
  <2>4. job' = begun
    BY <1>1, <1>7
  <2> HIDE DEF slot, entry, inline, replace
  <2>5. /\ DOMAIN job' = {"step", "at", "cb", "replace", "slot", "entry"}
        /\ job'.step = "claim" /\ job'.at = a /\ job'.slot = slot /\ job'.entry = entry
    BY <2>4
  <2>6. Job'
    BY <1>1, <1>5, <2>2, <2>3, <2>5 DEF Job, JobSteps
  <2> QED
    BY <1>3, <1>5, <2>6 DEF CodeInv
<1> QED
  BY <1>6, <1>7

\* What is known of an installation under way.
LEMMA JobKnown ==
  ASSUME CodeInv, job # NoJob
  PROVE  /\ Job /\ job.at \in Nat /\ job.at .. job.at + 4 \subseteq UNION Code /\ Ready /\ stale = {}
         /\ regions # <<>> /\ ClaimedAt(job.at, job.replace) \in {1, 5}
<1>1. Job
  BY DEF CodeInv, NoJobInv
<1>2. job.at \in Nat /\ job.at .. job.at + 4 \subseteq UNION Code
  BY <1>1, LiveCodeConstants DEF Job
<1>3. stale = {}
  BY <1>1 DEF CodeInv, PatcherInv, Job, NoPatcher
<1>4. regions # <<>>
  BY <1>1 DEF CodeInv, MapInv, Job, Ready
<1> QED
  BY <1>1, <1>2, <1>3, <1>4 DEF Job, ClaimedAt

LEMMA HookClaimKeeps ==
  ASSUME CodeInv, HookClaim
  PROVE  CodeInv'
<1> DEFINE n == ClaimedAt(job.at, job.replace)
<1>1. job # NoJob /\ RwPages("hook", job.at, n) /\ job' = [job EXCEPT !.step = "write"]
      /\ UNCHANGED <<mem, index, s_EntryIndex, cpu, patcher>>
  BY DEF HookClaim, NoJob
<1>2. /\ Job /\ job.at \in Nat /\ Ready /\ stale = {} /\ regions # <<>> /\ n \in {1, 5}
  BY <1>1, JobKnown
<1>3. /\ DOMAIN job' = DOMAIN job /\ job'.step = "write" /\ job'.at = job.at
      /\ job'.replace = job.replace /\ job'.slot = job.slot /\ job'.entry = job.entry
  BY <1>1, <1>2 DEF Job
<1>4. ClaimedAt(job.at, job.replace)' = n
  BY <1>3 DEF ClaimedAt, Far
<1>5. CASE Abort
  <2>1. MapInv' /\ UNCHANGED <<claims, stale>> /\ dead'
    BY <1>5, MapFrame DEF CodeInv, Abort
  <2>2. Job'
    BY <1>1, <1>2, <1>3, <2>1 DEF Job, JobSteps, Ready
  <2> QED
    BY <1>1, <2>1, <2>2 DEF CodeInv, StartClaims, PatcherInv, WritesStayInCode
<1>6. CASE ~ Abort
  <2>1. /\ MapInv' /\ UNCHANGED <<regions, stale, dead>>
        /\ \E c : c.ro = job.at /\ c.size = n /\ claims' = Put("hook", c, claims)
        /\ "hook" \notin DOMAIN claims
    <3>1. n \in Nat \ {0}
      BY <1>2
    <3> HIDE DEF n
    <3> QED
      BY <1>1, <1>2, <1>6, <3>1, Placed DEF CodeInv
  <2>2. PICK c : c.ro = job.at /\ c.size = n /\ claims' = Put("hook", c, claims)
    BY <2>1
  <2>3. DOMAIN claims' = DOMAIN claims \cup {"hook"} /\ claims'["hook"] = c
        /\ \A other \in DOMAIN claims : claims'[other] = claims[other]
    BY <2>1, <2>2 DEF Put
  <2>4. StartClaims'
    BY <2>3 DEF CodeInv, StartClaims
  <2>5. Job'
    <3>1. Ready'
      BY <1>2, <2>3 DEF Ready
    <3>2. "hook" \in DOMAIN claims' /\ claims'["hook"].ro = job'.at
          /\ claims'["hook"].size = ClaimedAt(job.at, job.replace)'
      BY <1>3, <1>4, <2>2, <2>3
    <3> QED
      BY <1>1, <1>2, <1>3, <3>1, <3>2 DEF Job, JobSteps
  <2> QED
    BY <1>1, <2>1, <2>4, <2>5 DEF CodeInv, PatcherInv, WritesStayInCode
<1> QED
  BY <1>5, <1>6

\* Words that were dropped as they were written, all of them code.
LEMMA WrittenAndDropped ==
  ASSUME stale = {}, WritesStayInCode, NEW written, NEW dropped, written \subseteq dropped,
         \A w \in written : InCode(w),
         DOMAIN mem' = written \cup DOMAIN mem, stale' = (stale \cup written) \ dropped
  PROVE  stale' = {} /\ WritesStayInCode'
BY DEF WritesStayInCode, InCode

LEMMA HookWriteKeeps ==
  ASSUME CodeInv, HookWrite
  PROVE  CodeInv'
<1> DEFINE count == CountAt(job.at, job.replace)
           n == ClaimedAt(job.at, job.replace)
           offset == job.slot * TrampolineSize
           rx == HookPool.base + job.slot * TrampolineSize
           rw == claims["hooks"].rw + job.slot * TrampolineSize
           words == Jump(job.at, job.replace, count = 5)
           moved == IF job.slot = -1 THEN <<>> ELSE Trampoline(job.at, count, rx)
           target == Poke(claims["hook"].rw, words)
           copied == Poke(rw, moved)
           first == IF moved = <<>> THEN {} ELSE Invalidated(rw, Len(moved))
           second == Invalidated(job.at, n)
<1>1. /\ job # NoJob /\ job.step = "write" /\ ~ dead
      /\ mem' = Over(copied, Over(target, mem))
      /\ stale' = ((stale \cup DOMAIN target \cup DOMAIN copied) \ first) \ second
      /\ job' = [job EXCEPT !.step = "release"]
      /\ UNCHANGED <<regions, reservations, window, claims, dead, index, s_EntryIndex, cpu, patcher>>
  BY DEF HookWrite, NoJob
<1>2. /\ Job /\ job.at \in Nat /\ job.at .. job.at + 4 \subseteq UNION Code /\ Ready /\ stale = {}
      /\ n \in {1, 5}
  BY <1>1, JobKnown
<1>3. MapInv /\ StartClaims /\ WritesStayInCode
  BY DEF CodeInv
<1>4. \A w \in DOMAIN target : InCode(w) /\ w \in second
  <2> SUFFICES ASSUME NEW w \in DOMAIN target PROVE InCode(w) /\ w \in second
    OBVIOUS
  <2>1. "hook" \in DOMAIN claims /\ claims["hook"].ro = job.at /\ claims["hook"].size = n
    BY <1>1, <1>2 DEF Job
  <2>2. Short(words, n)
    BY JumpShort
  <2>3. claims["hook"].rw \in Nat
    BY <1>3, <2>1 DEF MapInv, WellMapped, ClaimType
  <2> HIDE DEF words, n
  <2>4. claims["hook"].rw + 0 = claims["hook"].rw /\ n \in Nat /\ 0 + n <= claims["hook"].size
    BY <1>2, <2>1, <2>3
  <2>5. w \in claims["hook"].ro + 0 .. claims["hook"].ro + 0 + n - 1
    BY <1>3, <2>1, <2>2, <2>4, PokeInClaim
  <2>6. w \in job.at .. job.at + n - 1 /\ w \in job.at .. job.at + 4
    BY <1>2, <2>1, <2>5
  <2>7. InCode(w)
    BY <1>2, <2>6 DEF InCode
  <2>8. Phys(w) = w
    BY <1>3, <2>7, CodeNotInWindow
  <2>9. Phys(w) \in Invalidated(job.at, n)
    BY <1>2, <2>6, InvalidatedHolds
  <2> QED
    BY <2>7, <2>8, <2>9
<1>5. \A w \in DOMAIN copied : InCode(w) /\ w \in first
  <2> SUFFICES ASSUME NEW w \in DOMAIN copied PROVE InCode(w) /\ w \in first
    OBVIOUS
  <2>1. job.slot # -1
    <3>1. CASE job.slot = -1
      BY <3>1 DEF Poke
    <3> QED
      BY <3>1
  <2>2. moved = Trampoline(job.at, count, rx) /\ Short(moved, 30)
    BY <2>1, TrampolineShort
  <2>3. HookPool.base \in Nat /\ HookPool.size \in Nat /\ HookPool.size % TrampolineSize >= 30
        /\ HookPool.base .. HookPool.base + HookPool.size - 1 \subseteq UNION Code
    BY LiveCodeConstants
  <2> DEFINE size == HookPool.size
             s == job.slot
  <2>4. HookMax \in Int /\ size = 50 * HookMax + (size % 50) /\ size % 50 >= 30 /\ size \in Nat
    <3>1. size \in Int /\ 50 \in Nat \ {0} /\ HookMax = size \div 50 /\ size % 50 >= 30
      BY <2>3 DEF HookMax, TrampolineSize
    <3> HIDE DEF size
    <3>2. size \div 50 \in Int /\ size = 50 * (size \div 50) + (size % 50)
      BY <3>1, DivMod
    <3> QED
      BY <2>3, <3>1, <3>2 DEF size
  <2>5. s \in -1 .. HookMax /\ s # -1
    BY <1>2, <2>1 DEF Job
  <2>6. offset \in Nat /\ offset + 30 <= size
    <3>1. offset = s * 50 /\ size % 50 \in Int
      BY <2>4 DEF TrampolineSize
    <3> HIDE DEF s, size, offset
    <3>2. s \in Nat /\ 50 * s <= 50 * HookMax
      BY <2>4, <2>5
    <3> QED
      BY <2>4, <3>1, <3>2
  <2>7. "hooks" \in DOMAIN claims /\ claims["hooks"].ro = HookPool.base
        /\ claims["hooks"].size = HookPool.size
    BY <1>2, <1>3 DEF Ready, StartClaims, Pool
  <2>8. rw = claims["hooks"].rw + offset /\ Len(moved) \in 1 .. 30 /\ moved # <<>>
    <3>1. Len(moved) \in 1 .. 30
      BY <2>2 DEF Short
    <3> HIDE DEF moved
    <3>2. CASE moved = <<>>
      <4>1. Len(<<>>) = 0
        OBVIOUS
      <4> QED
        BY <3>1, <3>2, <4>1
    <3> QED
      BY <3>1, <3>2
  <2> HIDE DEF moved, offset
  <2>9. /\ w \in HookPool.base + offset .. HookPool.base + offset + 30 - 1
        /\ w \in Invalidated(rw, Len(moved))
    <3>1. w \in DOMAIN Poke(claims["hooks"].rw + offset, moved) /\ offset + 30 <= claims["hooks"].size
      BY <2>6, <2>7, <2>8
    <3> HIDE DEF copied, rw
    <3>2. /\ w \in claims["hooks"].ro + offset .. claims["hooks"].ro + offset + 30 - 1
          /\ w \in Invalidated(claims["hooks"].rw + offset, Len(moved))
      BY <1>3, <2>2, <2>6, <2>7, <3>1, PokeInClaim
    <3> QED
      BY <2>7, <2>8, <3>2
  <2>10. w \in HookPool.base .. HookPool.base + HookPool.size - 1
    BY <2>3, <2>6, <2>9
  <2> QED
    BY <2>3, <2>8, <2>9, <2>10 DEF InCode
<1>6. DOMAIN mem' = (DOMAIN target \cup DOMAIN copied) \cup DOMAIN mem
  <2> HIDE DEF copied, target
  <2> QED
    BY <1>1 DEF Over
<1>7. stale' = (stale \cup (DOMAIN target \cup DOMAIN copied)) \ (first \cup second)
  <2> HIDE DEF copied, target, first, second
  <2> QED
    BY <1>1
<1>8. stale' = {} /\ WritesStayInCode'
  <2> HIDE DEF copied, target, first, second
  <2> QED
    BY <1>2, <1>3, <1>4, <1>5, <1>6, <1>7, WrittenAndDropped
<1>9. MapInv'
  BY <1>1, <1>3, MapFrame
<1>10. StartClaims' /\ PatcherInv'
  BY <1>1, <1>2, <1>3, <1>8 DEF StartClaims, PatcherInv, Job
<1>11. /\ DOMAIN job' = DOMAIN job /\ job'.step = "release" /\ job'.at = job.at
       /\ job'.replace = job.replace /\ job'.slot = job.slot /\ job'.entry = job.entry
  BY <1>1, <1>2 DEF Job
<1>12. Job'
  <2>1. ClaimedAt(job.at, job.replace)' = n
    BY <1>11 DEF ClaimedAt, Far
  <2> HIDE DEF n
  <2>2. /\ "hook" \in DOMAIN claims' /\ claims'["hook"].ro = job'.at
        /\ claims'["hook"].size = ClaimedAt(job.at, job.replace)'
    BY <1>1, <1>2, <1>11, <2>1 DEF Job, n
  <2> QED
    BY <1>1, <1>2, <1>11, <2>2 DEF Job, JobSteps, Ready
<1> QED
  BY <1>1, <1>8, <1>9, <1>10, <1>12 DEF CodeInv

LEMMA HookReleaseKeeps ==
  ASSUME CodeInv, HookRelease
  PROVE  CodeInv'
<1>1. /\ job # NoJob /\ Unclaim("hook") /\ job' = [job EXCEPT !.step = "finish"]
      /\ UNCHANGED <<mem, index, s_EntryIndex, cpu, patcher>>
  BY DEF HookRelease, NoJob
<1>2. Job /\ Ready /\ stale = {}
  BY <1>1, JobKnown
<1>3. MapInv'
  BY <1>1, GivenBack DEF CodeInv
<1>4. /\ DOMAIN claims' = DOMAIN claims \ {"hook"}
      /\ \A name \in DOMAIN claims' : claims'[name] = claims[name]
  BY <1>1 DEF Unclaim, Without, Restrict
<1>5. stale' = {}
  BY <1>1, <1>2 DEF Unclaim
<1>6. StartClaims'
  <2>1. \A name \in {"patcher", "hooks", "inline"} :
          name \in DOMAIN claims' => name \in DOMAIN claims /\ claims'[name] = claims[name]
    BY <1>4
  <2> QED
    BY <1>4, <2>1 DEF CodeInv, StartClaims
<1>7. Ready'
  BY <1>2, <1>4 DEF Ready
<1>8. /\ DOMAIN job' = DOMAIN job /\ job'.step = "finish" /\ job'.at = job.at
      /\ job'.replace = job.replace /\ job'.slot = job.slot /\ job'.entry = job.entry
  BY <1>1, <1>2 DEF Job
<1>9. Job'
  BY <1>1, <1>2, <1>7, <1>8 DEF Job, JobSteps
<1> QED
  BY <1>1, <1>2, <1>3, <1>5, <1>6, <1>9 DEF CodeInv, PatcherInv, WritesStayInCode, Job

LEMMA HookFinishKeeps ==
  ASSUME CodeInv, HookFinish
  PROVE  CodeInv'
<1> DEFINE rx == IF job.slot = -1 THEN 0 ELSE HookPool.base + job.slot * TrampolineSize
           entry == IF job.entry = 0 THEN <<>> ELSE EntryOf(job.cb, job.entry, rx)
           rw == claims["inline"].rw + (job.entry - InlinePool.base)
           dropped == Flushed("hooks") \cup (IF entry = <<>> THEN {} ELSE Flushed("inline"))
<1>1. /\ job # NoJob /\ job' = NoJob
      /\ mem' = Over(Poke(rw, entry), mem)
      /\ stale' = (stale \cup DOMAIN Poke(rw, entry)) \ dropped
      /\ UNCHANGED <<regions, reservations, window, claims, dead, index, s_EntryIndex, cpu, patcher>>
  BY DEF HookFinish, Wrote, NoJob
<1>2. Job /\ Ready /\ stale = {}
  BY <1>1, JobKnown
<1>3. MapInv /\ StartClaims /\ WritesStayInCode
  BY DEF CodeInv
<1>4. \A w \in DOMAIN Poke(rw, entry) : InCode(w) /\ w \in dropped
  <2> SUFFICES ASSUME NEW w \in DOMAIN Poke(rw, entry) PROVE InCode(w) /\ w \in dropped
    OBVIOUS
  <2>1. job.entry # 0
    <3>1. CASE job.entry = 0
      BY <3>1 DEF Poke
    <3> QED
      BY <3>1
  <2>2. PICK e \in 0 .. InlinePoolCount - 1 : job.entry = InlinePool.base + e * EntryWords
    BY <1>2, <2>1 DEF Job
  <2>3. InlinePool.base \in Nat /\ InlinePool.size \in Nat
        /\ InlinePool.base .. InlinePool.base + InlinePool.size - 1 \subseteq UNION Code
    BY LiveCodeConstants
  <2> DEFINE offset == e * EntryWords
  <2>4. offset \in Nat /\ offset + 6 <= InlinePool.size
    <3>1. InlinePoolCount \in Int /\ 6 * InlinePoolCount <= InlinePool.size
      <4> DEFINE size == InlinePool.size
      <4>1. size \in Int /\ 6 \in Nat \ {0}
        BY <2>3
      <4> HIDE DEF size
      <4>2. size \div 6 \in Int /\ size % 6 \in 0 .. 5 /\ size = 6 * (size \div 6) + (size % 6)
        BY <4>1
      <4>3. InlinePoolCount = size \div 6
        BY DEF InlinePoolCount, EntryWords, size
      <4> QED
        BY <4>2, <4>3 DEF size
    <3>2. e \in Nat /\ e + 1 <= InlinePoolCount
      BY <2>2, <3>1
    <3>3. offset = 6 * e
      BY <3>2 DEF EntryWords
    <3> QED
      BY <2>3, <3>1, <3>2, <3>3
  <2>5. rw = claims["inline"].rw + offset
    <3>1. job.entry - InlinePool.base = offset
      BY <2>2, <2>3, <2>4
    <3> QED
      BY <3>1
  <2>6. Short(entry, 6)
    <3> DEFINE impl == GetImpl(CaptureFloats(job.cb))
               ins == <<Ins(SturUnscaledImmediate(LR, SP, -16)),
                        Ins(BranchLink(4 * (impl - (job.entry + 1)))),
                        Ins(LdurUnscaledImmediate(LR, SP, -16)),
                        Ins(Branch(4 * (rx - (job.entry + 3))))>>
    <3>1. entry = ins \o Address(CallbackAt(job.cb))
      BY <2>1 DEF EntryOf
    <3>2. Short(ins, 4) /\ Short(Address(CallbackAt(job.cb)), 2)
      BY ShortTuples DEF Address
    <3> HIDE DEF ins, entry
    <3>3. Short(entry, 4 + 2)
      BY <3>1, <3>2, ShortConcat
    <3> QED
      BY <3>3
  <2>7. "inline" \in DOMAIN claims /\ claims["inline"].ro = InlinePool.base
        /\ claims["inline"].size = InlinePool.size
    BY <1>2, <1>3 DEF Ready, StartClaims, Pool
  <2>8. entry # <<>>
    <3> HIDE DEF entry
    <3>1. Len(entry) \in 1 .. 6
      BY <2>6 DEF Short
    <3>2. Len(<<>>) = 0 /\ 0 \notin 1 .. 6
      OBVIOUS
    <3> QED
      BY <3>1, <3>2
  <2>9. Flushed("inline") \subseteq dropped
    BY <2>8
  <2> HIDE DEF entry, offset, dropped
  <2>10. w \in DOMAIN Poke(claims["inline"].rw + offset, entry) /\ offset + 6 <= claims["inline"].size
    BY <2>4, <2>5, <2>7
  <2> HIDE DEF rw
  <2>11. /\ w \in claims["inline"].ro + offset .. claims["inline"].ro + offset + 6 - 1
         /\ w \in Invalidated(claims["inline"].rw + offset, Len(entry))
    <3>1. offset \in Nat /\ "inline" \in DOMAIN claims /\ 6 \in Nat
      BY <2>4, <2>7
    <3> QED
      BY <1>3, <2>6, <2>10, <3>1, PokeInClaim
  <2>12. w \in Flushed("inline")
    <3> DEFINE j == w - InlinePool.base
           b == InlinePool.base
           z == InlinePool.size
    <3>0. w \in b + offset .. b + offset + 6 - 1 /\ b \in Nat /\ z \in Nat /\ offset + 6 <= z
      BY <2>3, <2>4, <2>7, <2>11
    <3> HIDE DEF b, z
    <3>3. w - b \in 0 .. z - 1 /\ w = b + (w - b)
      BY <2>4, <3>0
    <3>1. j \in 0 .. claims["inline"].size - 1 /\ w = claims["inline"].ro + j
      BY <2>7, <3>3 DEF b, z
    <3> HIDE DEF j
    <3>2. Phys(claims["inline"].rw + j) = w
      BY <1>3, <2>7, <3>1, SeenThrough
    <3> QED
      BY <1>3, <2>7, <3>1, <3>2, FlushedHolds
  <2>13. w \in InlinePool.base .. InlinePool.base + InlinePool.size - 1
    BY <2>3, <2>4, <2>7, <2>11
  <2> QED
    BY <2>3, <2>9, <2>12, <2>13 DEF InCode
<1>5. DOMAIN mem' = DOMAIN Poke(rw, entry) \cup DOMAIN mem
  BY <1>1 DEF Over
<1>6. stale' = {} /\ WritesStayInCode'
  <2> DEFINE written == DOMAIN Poke(rw, entry)
  <2>1. /\ written \subseteq dropped /\ \A w \in written : InCode(w)
        /\ DOMAIN mem' = written \cup DOMAIN mem /\ stale' = (stale \cup written) \ dropped
    BY <1>1, <1>4, <1>5
  <2> HIDE DEF written, dropped
  <2> QED
    BY <1>2, <1>3, <2>1, WrittenAndDropped
<1>7. MapInv'
  BY <1>1, <1>3, MapFrame
<1>8. StartClaims' /\ Ready' /\ PatcherInv' /\ NoJobInv'
  BY <1>1, <1>2, <1>3, <1>6 DEF StartClaims, Ready, PatcherInv, NoJobInv, Job
<1> QED
  BY <1>1, <1>6, <1>7, <1>8 DEF CodeInv

-----------------------------------------------------------------------------
(* The patchers. *)
\* What is known while a patcher exists.
LEMMA PatcherKnown ==
  ASSUME CodeInv, patcher.type # "none"
  PROVE  /\ job = NoJob /\ cpu = Idle /\ Ready /\ MapInv /\ WritesStayInCode
         /\ DOMAIN patcher = {"type", "start", "current"} /\ patcher.type \in {"stream", "random"}
         /\ \/ patcher.type = "random" /\ patcher.start = NULL /\ patcher.current = NULL /\ stale = {}
            \/ /\ patcher.start \in Nat /\ patcher.current \in Nat /\ patcher.start <= patcher.current
               /\ stale \subseteq Touched(patcher)
<1>1. patcher # NoPatcher
  BY DEF NoPatcher
<1>2. NoJobInv
  BY <1>1 DEF CodeInv, Job
<1> QED
  BY <1>1, <1>2 DEF CodeInv, NoJobInv, PatcherInv

\* A patch lands where it was meant to.
LEMMA PatchLands ==
  ASSUME CodeInv, Ready, NEW addr \in PatchSpots, NEW i, NEW w \in DOMAIN Poke(RwFromAddr(addr), <<i>>)
  PROVE  w = MainStart + addr /\ InCode(w)
<1>1. /\ MapInv /\ "patcher" \in DOMAIN claims
      /\ claims["patcher"].ro = MainStart /\ claims["patcher"].size = MainSize
  BY DEF CodeInv, StartClaims, Ready
<1>2. MainStart \in Nat /\ MainSize \in Nat /\ addr \in 0 .. MainSize - 1 /\ MainStart + addr \in UNION Code
  BY LiveCodeConstants
<1>3. claims["patcher"].rw \in Nat
  BY <1>1 DEF MapInv, WellMapped, ClaimType
<1> DEFINE a == RwFromAddr(addr)
<1>4. a = claims["patcher"].rw + addr /\ a \in Nat
  BY <1>2, <1>3 DEF RwFromAddr
<1>5. Short(<<i>>, 1)
  BY ShortTuples
<1> HIDE DEF a
<1>6. Len(<<i>>) = 1 /\ \E k \in 0 .. Len(<<i>>) - 1 : w = Phys(a + k)
  <2>1. w \in DOMAIN Poke(a, <<i>>) /\ 1 \in Nat
    BY DEF a
  <2>2. \A v \in DOMAIN Poke(a, <<i>>) : \E k \in 0 .. Len(<<i>>) - 1 : v = Phys(a + k)
    BY <1>4, <1>5, <2>1, PokeDomain
  <2> QED
    BY <2>1, <2>2
<1>7. w = Phys(a)
  <2>1. PICK k \in 0 .. Len(<<i>>) - 1 : w = Phys(a + k)
    BY <1>6
  <2>2. k = 0 /\ a + k = a
    BY <1>4, <1>6
  <2> QED
    BY <2>1, <2>2
<1>8. w = MainStart + addr
  BY <1>1, <1>2, <1>4, <1>7, SeenThrough
<1> QED
  BY <1>2, <1>8 DEF InCode

LEMMA WroteOnePatch ==
  ASSUME CodeInv, Ready, NEW addr \in PatchSpots, NEW i, Wrote(RwFromAddr(addr), <<i>>, {})
  PROVE  stale' \subseteq stale \cup {MainStart + addr} /\ (WritesStayInCode => WritesStayInCode')
<1> DEFINE written == DOMAIN Poke(RwFromAddr(addr), <<i>>)
<1>1. \A w \in written : w = MainStart + addr /\ InCode(w)
  BY PatchLands
<1>2. DOMAIN mem' = written \cup DOMAIN mem /\ stale' = (stale \cup written) \ {}
  BY DEF Wrote, Over
<1> HIDE DEF written
<1> QED
  BY <1>1, <1>2 DEF WritesStayInCode, InCode

\* Moving on or going away, a patcher drops what it wrote.
LEMMA DroppedHolds ==
  ASSUME CodeInv, patcher.type # "none"
  PROVE  stale \ Dropped = {}
<1>1. CASE stale = {}
  BY <1>1
<1>2. CASE stale # {}
  <2> SUFFICES ASSUME NEW w \in stale PROVE w \in Dropped
    OBVIOUS
  <2> DEFINE first == patcher.start
             last == patcher.current
  <2>1. MapInv /\ first \in Nat /\ last \in Nat /\ first <= last /\ w \in Touched(patcher) /\ Ready
    BY <1>2, PatcherKnown
  <2>2. PICK addr \in PatchSpots : w = MainStart + addr /\ first <= addr /\ addr < last
    BY <2>1 DEF Touched
  <2>3. MainStart \in Nat /\ addr \in Nat /\ MainStart + addr \in UNION Code
    BY LiveCodeConstants
  <2>4. RoFromAddr(first) = MainStart + first
    BY <2>1 DEF CodeInv, StartClaims, Ready, RoFromAddr
  <2>5. Dropped = Invalidated(MainStart + first, last - first)
    <3>1. first # last
      <4> HIDE DEF first, last
      <4> QED
        BY <2>1, <2>2, <2>3
    <3> QED
      BY <2>4, <3>1 DEF Dropped
  <2> HIDE DEF first, last
  <2>6. MainStart + first \in Nat /\ last - first \in Nat \ {0}
        /\ w \in MainStart + first .. MainStart + first + (last - first) - 1
    BY <2>1, <2>2, <2>3
  <2>7. Phys(w) \in Invalidated(MainStart + first, last - first)
    <3> DEFINE a == MainStart + first
               n == last - first
    <3>1. a \in Nat /\ n \in Nat \ {0} /\ w \in a .. a + n - 1
      BY <2>1, <2>2, <2>3
    <3> HIDE DEF a, n
    <3>2. Phys(w) \in Invalidated(a, n)
      BY <3>1, InvalidatedHolds
    <3> QED
      BY <3>2 DEF a, n
  <2>8. Phys(w) = w
    BY <2>1, <2>2, <2>3, CodeNotInWindow DEF InCode
  <2> QED
    BY <2>5, <2>7, <2>8
<1> QED
  BY <1>1, <1>2

\* What is left to show of a step of the patchers.
LEMMA PatchKeeps ==
  ASSUME CodeInv, PatchFrame, job = NoJob, cpu = Idle, Ready, PatcherInv', WritesStayInCode'
  PROVE  CodeInv'
<1>1. MapInv'
  BY MapFrame DEF CodeInv, PatchFrame
<1> QED
  BY <1>1 DEF CodeInv, PatchFrame, StartClaims, NoJobInv, Ready

LEMMA NewPatcherKeeps ==
  ASSUME CodeInv, RandomAccessPatcher \/ \E a \in PatchSpots : StreamPatcher(a)
  PROVE  CodeInv'
<1>1. Quiet /\ Ready /\ UNCHANGED <<mem, stale>> /\ PatchFrame
  BY DEF RandomAccessPatcher, StreamPatcher
<1>2. job = NoJob /\ cpu = Idle /\ patcher = NoPatcher
  BY <1>1 DEF Quiet
<1>3. stale = {} /\ cpu' = Idle
  BY <1>1, <1>2 DEF CodeInv, PatcherInv, NoPatcher, PatchFrame
<1>4. PatcherInv'
  <2>1. CASE RandomAccessPatcher
    <3>1. patcher' = [type |-> "random", start |-> NULL, current |-> NULL]
      BY <2>1 DEF RandomAccessPatcher, NoPatcher
    <3> QED
      BY <1>1, <1>3, <3>1 DEF PatcherInv
  <2>2. ASSUME NEW a \in PatchSpots, StreamPatcher(a) PROVE PatcherInv'
    <3>1. patcher' = [type |-> "stream", start |-> a, current |-> a]
      BY <2>2 DEF StreamPatcher
    <3>2. a \in Nat
      BY LiveCodeConstants
    <3> QED
      BY <1>1, <1>3, <3>1, <3>2 DEF PatcherInv
  <2> QED
    BY <2>1, <2>2
<1>5. WritesStayInCode'
  BY <1>1 DEF CodeInv, WritesStayInCode
<1> QED
  BY <1>1, <1>2, <1>4, <1>5, PatchKeeps

LEMMA WriteInstKeeps ==
  ASSUME CodeInv, NEW bits, NEW meaning, WriteInst(bits, meaning)
  PROVE  CodeInv'
<1> DEFINE addr == patcher.current
<1>1. /\ patcher.type = "stream" /\ addr \in PatchSpots /\ Wrote(RwFromAddr(addr), <<Ins(bits)>>, {})
      /\ patcher' = [patcher EXCEPT !.current = @ + 1] /\ PatchFrame
  BY DEF WriteInst
<1>2. /\ job = NoJob /\ cpu = Idle /\ Ready /\ MapInv /\ WritesStayInCode
      /\ DOMAIN patcher = {"type", "start", "current"}
      /\ \/ patcher.type = "random" /\ patcher.start = NULL /\ patcher.current = NULL /\ stale = {}
         \/ /\ patcher.start \in Nat /\ addr \in Nat /\ patcher.start <= addr
            /\ stale \subseteq Touched(patcher)
  BY <1>1, PatcherKnown
<1>3. patcher.start \in Nat /\ addr \in Nat /\ patcher.start <= addr /\ stale \subseteq Touched(patcher)
  BY <1>1, <1>2
<1>4. stale' \subseteq stale \cup {MainStart + addr} /\ WritesStayInCode'
  <2> HIDE DEF addr
  <2> QED
    BY <1>1, <1>2, WroteOnePatch
<1>5. /\ DOMAIN patcher' = {"type", "start", "current"} /\ patcher'.type = "stream"
      /\ patcher'.start = patcher.start /\ patcher'.current = addr + 1
  BY <1>1, <1>2
<1>6. stale' \subseteq Touched(patcher)'
  <2> DEFINE first == patcher.start
  <2>1. PatchSpots \subseteq Nat
    BY LiveCodeConstants
  <2>2. \A a \in PatchSpots : first <= a /\ a < addr => first <= a /\ a < addr + 1
    BY <1>3, <2>1
  <2>3. first <= addr /\ addr < addr + 1
    BY <1>3
  <2> QED
    BY <1>1, <1>3, <1>4, <1>5, <2>2, <2>3 DEF Touched
<1>7. PatcherInv'
  BY <1>1, <1>2, <1>3, <1>5, <1>6 DEF PatcherInv, PatchFrame
<1> QED
  BY <1>1, <1>2, <1>4, <1>7, PatchKeeps

LEMMA RandomWriteKeeps ==
  ASSUME CodeInv, NEW addr \in PatchSpots, RandomWrite(addr)
  PROVE  CodeInv'
<1> DEFINE low == Lowest(addr)
           high == Highest(addr)
<1>1. /\ patcher.type = "random" /\ Wrote(RwFromAddr(addr), <<Ins(Nop)>>, {})
      /\ patcher' = [patcher EXCEPT !.start = low, !.current = high] /\ PatchFrame
  BY DEF RandomWrite
<1>2. /\ job = NoJob /\ cpu = Idle /\ Ready /\ MapInv /\ WritesStayInCode
      /\ DOMAIN patcher = {"type", "start", "current"}
      /\ \/ patcher.start = NULL /\ patcher.current = NULL /\ stale = {}
         \/ /\ patcher.start \in Nat /\ patcher.current \in Nat /\ patcher.start <= patcher.current
            /\ stale \subseteq Touched(patcher)
  BY <1>1, PatcherKnown
<1>3. addr \in Nat /\ PatchSpots \subseteq Nat
  BY LiveCodeConstants
<1>4. stale' \subseteq stale \cup {MainStart + addr} /\ WritesStayInCode'
  BY <1>1, <1>2, WroteOnePatch
<1>5. /\ DOMAIN patcher' = {"type", "start", "current"} /\ patcher'.type = "random"
      /\ patcher'.start = low /\ patcher'.current = high
  <2> HIDE DEF low, high
  <2> QED
    BY <1>1, <1>2
<1> DEFINE first == patcher.start
           last == patcher.current
<1>6. /\ low \in Nat /\ high \in Nat /\ low <= addr /\ addr < high
      /\ stale = {} \/ (low <= first /\ last <= high /\ first \in Nat /\ last \in Nat /\ stale \subseteq Touched(patcher))
  <2>1. low = IF first = -1 \/ addr < first THEN addr ELSE first
    BY DEF Lowest, NULL
  <2>2. high = IF first = -1 THEN addr + 1 ELSE IF addr + 1 > last THEN addr + 1 ELSE last
    BY DEF Highest, NULL
  <2>3. (first = -1 /\ stale = {}) \/ (first \in Nat /\ last \in Nat /\ first <= last /\ stale \subseteq Touched(patcher))
    BY <1>2 DEF NULL
  <2> HIDE DEF low, high, first, last
  <2> QED
    BY <1>3, <2>1, <2>2, <2>3
<1>7. stale' \subseteq Touched(patcher)'
  <2>1. Touched(patcher)' = { MainStart + a : a \in { b \in PatchSpots : low <= b /\ b < high } }
    <3> HIDE DEF low, high
    <3> QED
      BY <1>5 DEF Touched
  <2>2. Touched(patcher) = { MainStart + a : a \in { b \in PatchSpots : first <= b /\ b < last } }
    BY DEF Touched
  <2> HIDE DEF low, high, first, last
  <2>3. MainStart + addr \in Touched(patcher)'
    BY <1>6, <2>1
  <2>4. \A w \in stale : w \in Touched(patcher)'
    <3> SUFFICES ASSUME NEW w \in stale PROVE w \in Touched(patcher)'
      OBVIOUS
    <3>1. PICK a \in PatchSpots : w = MainStart + a /\ first <= a /\ a < last
      BY <1>6, <2>2
    <3>2. low <= a /\ a < high
      BY <1>3, <1>6, <3>1
    <3> QED
      BY <2>1, <3>1, <3>2
  <2> QED
    BY <1>4, <2>3, <2>4
<1>8. low <= high
  <2> HIDE DEF low, high
  <2> QED
    BY <1>3, <1>6
<1>9. PatcherInv'
  <2> HIDE DEF low, high
  <2> QED
    BY <1>1, <1>2, <1>5, <1>6, <1>7, <1>8 DEF PatcherInv, PatchFrame
<1> QED
  BY <1>1, <1>2, <1>4, <1>9, PatchKeeps

LEMMA LeaveKeeps ==
  ASSUME CodeInv, DestroyPatcher \/ \E a \in PatchSpots : Seek(a)
  PROVE  CodeInv'
<1>1. patcher.type # "none" /\ stale' = stale \ Dropped /\ UNCHANGED mem /\ PatchFrame
  BY DEF DestroyPatcher, Seek
<1>2. /\ job = NoJob /\ cpu = Idle /\ Ready /\ WritesStayInCode
      /\ DOMAIN patcher = {"type", "start", "current"} /\ patcher.type \in {"stream", "random"}
  BY <1>1, PatcherKnown
<1>3. stale' = {} /\ cpu' = Idle
  BY <1>1, <1>2, DroppedHolds DEF PatchFrame
<1>4. PatcherInv'
  <2>1. CASE DestroyPatcher
    BY <1>3, <2>1 DEF DestroyPatcher, PatcherInv
  <2>2. ASSUME NEW a \in PatchSpots, Seek(a) PROVE PatcherInv'
    <3>1. patcher' = [patcher EXCEPT !.start = a, !.current = a]
      BY <2>2 DEF Seek
    <3>2. /\ DOMAIN patcher' = {"type", "start", "current"} /\ patcher'.type = patcher.type
          /\ patcher'.start = a /\ patcher'.current = a
      BY <1>2, <3>1
    <3>3. a \in Nat
      BY LiveCodeConstants
    <3> QED
      BY <1>2, <1>3, <3>2, <3>3 DEF PatcherInv
  <2> QED
    BY <2>1, <2>2
<1>5. WritesStayInCode'
  BY <1>1, <1>2 DEF WritesStayInCode
<1> QED
  BY <1>1, <1>2, <1>4, <1>5, PatchKeeps

\* The thread of the target only runs when nobody writes.
LEMMA CpuKeeps ==
  ASSUME CodeInv, CpuFrame, Ready, job = NoJob, patcher = NoPatcher
  PROVE  CodeInv'
<1>1. UNCHANGED <<regions, reservations, window, claims, stale, dead, mem, index, s_EntryIndex, job, patcher>>
  BY DEF CpuFrame, mapVars
<1>2. MapInv'
  BY <1>1, MapFrame DEF CodeInv
<1>3. stale = {}
  BY DEF CodeInv, PatcherInv, NoPatcher
<1> QED
  BY <1>1, <1>2, <1>3 DEF CodeInv, StartClaims, NoJobInv, PatcherInv, WritesStayInCode, Ready

LEMMA Running ==
  ASSUME CodeInv, cpu.f # "none"
  PROVE  Ready /\ job = NoJob /\ patcher = NoPatcher
<1>1. cpu # Idle
  BY DEF Idle
<1>2. NoJobInv
  BY <1>1 DEF CodeInv, Job
<1> QED
  BY <1>1, <1>2 DEF CodeInv, NoJobInv, PatcherInv

LEMMA CodeStep ==
  ASSUME CodeInv, [Next]_vars
  PROVE  CodeInv'
<1>1. CASE Setup
  BY <1>1, SetupKeeps
<1>2. CASE GetHandle
  BY <1>2, GetHandleKeeps
<1>3. CASE Start
  BY <1>3, StartKeeps
<1>4. CASE HookNext
  BY <1>4, HookBeginKeeps, HookClaimKeeps, HookWriteKeeps, HookReleaseKeeps, HookFinishKeeps DEF HookNext
<1>5. CASE PatchNext
  <2>1. ASSUME NEW i \in Instructions, Write(i) PROVE CodeInv'
    BY <2>1, WriteInstKeeps DEF Write
  <2>2. ASSUME NEW link \in BOOLEAN, NEW a \in PatchSpots, BranchInst(link, a) PROVE CodeInv'
    BY <2>2, WriteInstKeeps DEF BranchInst
  <2>3. ASSUME NEW a \in PatchSpots, StreamPatcher(a) \/ Seek(a) \/ RandomWrite(a) PROVE CodeInv'
    BY <2>3, NewPatcherKeeps, LeaveKeeps, RandomWriteKeeps
  <2> QED
    BY <1>5, <2>1, <2>2, <2>3, NewPatcherKeeps, LeaveKeeps DEF PatchNext
<1>6. ASSUME NEW f \in DOMAIN Functions, Call(f) PROVE CodeInv'
  BY <1>6, CpuKeeps DEF Call, Quiet
<1>7. CASE CpuNext
  <2>1. cpu.f # "none" /\ CpuFrame
    BY <1>7 DEF CpuNext, Execute, CallbackNext, ReturnToCaller, InlineHookImpl, InlineHookReturn
  <2> QED
    BY <2>1, Running, CpuKeeps
<1>8. CASE UNCHANGED vars
  <2>1. UNCHANGED <<regions, reservations, window, claims, stale, dead>> /\ UNCHANGED codeVars
    BY <1>8 DEF vars, mapVars
  <2>2. MapInv'
    BY <2>1, MapFrame DEF CodeInv
  <2> QED
    BY <2>1, <2>2
       DEF CodeInv, StartClaims, Job, NoJobInv, PatcherInv, WritesStayInCode, Ready, codeVars
<1> QED
  BY <1>1, <1>2, <1>3, <1>4, <1>5, <1>6, <1>7, <1>8 DEF Next

LEMMA CodeInit ==
  ASSUME Init
  PROVE  CodeInv
<1>1. /\ regions = <<>> /\ reservations = <<>> /\ window = <<>> /\ claims = <<>> /\ stale = {}
      /\ mem = <<>> /\ index = -1 /\ s_EntryIndex = 0 /\ job = NoJob /\ cpu = Idle
      /\ patcher = NoPatcher
  BY DEF Init, MapInit
<1>2. DOMAIN claims = {} /\ DOMAIN window = {} /\ DOMAIN mem = {}
  BY <1>1
<1>3. MapInv
  <2>1. IsFiniteSet(DOMAIN claims) /\ Cardinality(DOMAIN claims) = 0
    BY <1>2, FS_EmptySet
  <2>2. /\ reservations \in Seq(Regions) /\ DOMAIN reservations = {} /\ Len(reservations) = 0
    BY <1>1
  <2>3. ReservedOnce
    BY <1>2, <2>1, <2>2 DEF ReservedOnce, Distinct, ToSet
  <2> QED
    BY <1>1, <1>2, <2>1, <2>3 DEF MapInv, Shown, OnlyClaimed, FreeSpace
<1> QED
  BY <1>1, <1>2, <1>3 DEF CodeInv, StartClaims, NoJobInv, PatcherInv, WritesStayInCode

LEMMA CodeHolds == Spec => []CodeInv
BY CodeInit, CodeStep, PTL DEF Spec

(***************************************************************************)
(* Whatever order hooks are installed and patches written in, and whatever *)
(* the target runs in between: once nobody is writing, and always while a  *)
(* function of the target runs, the instruction cache holds no word as it  *)
(* was before armDCacheFlush and armICacheInvalidate.                      *)
(***************************************************************************)
THEOREM CodeStaysFresh == Spec => []CodeIsFresh
<1>1. CodeInv => CodeIsFresh
  <2> SUFFICES ASSUME CodeInv, Quiet \/ cpu # Idle PROVE stale = {}
    BY DEF CodeIsFresh
  <2>1. PatcherInv /\ NoPatcher.type = "none"
    BY DEF CodeInv, NoPatcher
  <2>2. CASE Quiet
    BY <2>1, <2>2 DEF PatcherInv, Quiet
  <2>3. CASE cpu # Idle
    BY <2>1, <2>3 DEF PatcherInv
  <2> QED
    BY <2>2, <2>3
<1> QED
  BY <1>1, CodeHolds, PTL

(***************************************************************************)
(* Every RwPages that exists shows the words it was made for, in pages of  *)
(* its own; destroyed, it leaves none behind; and all that was ever        *)
(* written through one are words of code: the trampoline that              *)
(* AllocForTrampoline hands out past HookMax still ends inside the pool.   *)
(***************************************************************************)
THEOREM WritesStayInPlace == Spec => []WritesInPlace
<1>1. CodeInv => WritesInPlace
  BY MapApart DEF CodeInv, WritesInPlace
<1> QED
  BY <1>1, CodeHolds, PTL
=============================================================================
