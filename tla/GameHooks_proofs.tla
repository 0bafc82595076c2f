-------------------------- MODULE GameHooks_proofs --------------------------
(***************************************************************************)
(* That a message hash handed from hook to hook is used for its own text,  *)
(* for any messages, flags, strings and scripts, and that a script finds   *)
(* the natives it calls.  And, under all of these hooks, that a trampoline *)
(* is whole and does what the function did, whatever instructions are      *)
(* moved to it.                                                            *)
(***************************************************************************)
EXTENDS GameHooks, Relocation, SequenceTheorems, TLAPS

Hashes == custom_messages \cup GameMessages \cup {ShowSeed}

\* The early return of MsgHashStore.
OrigRuns(hash) == hash \notin custom_messages

\* X8 before the hook has looked at it, and after.
Found(hash) == IF hash \in GameMessages THEN "message" ELSE "null"
Readable(hash) == IF hash \in GameMessages THEN "message" ELSE "addressable_nullptr"

(***************************************************************************)
(* What TextsAreTheirOwn leaves out: between lookups no hash is stored,    *)
(* and during one it is the one that is looked up, with X8 as the game or  *)
(* the hook left it.                                                       *)
(***************************************************************************)
Looking ==
  \/ lookup = [step |-> "none"] /\ last_hash = NoHash
  \/ /\ last_hash \in Hashes
     /\ \/ \E step \in {"stored", "valid"} :
             lookup = [step |-> step, of |-> last_hash, orig |-> OrigRuns(last_hash),
                       x8 |-> Found(last_hash)]
        \/ lookup = [step |-> "read", of |-> last_hash, orig |-> OrigRuns(last_hash),
                     x8 |-> Readable(last_hash)]

TextsShown ==
  /\ \A m \in DOMAIN rows : rows[m] \in Texts(m)
  /\ copied # <<>> => copied[2] = copied[1]
  /\ ~ crashed

MessageInv == Looking /\ TextsShown

LEMMA InitMessages == Init => MessageInv
BY DEF Init, MessageInv, Looking, TextsShown

LEMMA NextMessages == MessageInv /\ [Next]_vars => MessageInv'
<1> SUFFICES ASSUME MessageInv, [Next]_vars PROVE MessageInv'
  OBVIOUS
<1> USE GameHooksConstants DEF MessageInv
<1>1. CASE UNCHANGED <<flags, messageVars, crashed>>
  BY <1>1 DEF messageVars, Looking, TextsShown, Texts
\* Flags are only changed while no message is shown.
<1>2. ASSUME NEW flag, ToggleSetting(flag) PROVE MessageInv'
  BY <1>2 DEF ToggleSetting, messageVars, Looking, TextsShown, Texts
<1>3. ASSUME NEW hash \in Hashes, MsgHashStore(hash) PROVE MessageInv'
  BY <1>3 DEF MsgHashStore, Looking, TextsShown, Texts, Found, OrigRuns
<1>4. CASE ValidateMessages
  BY <1>4 DEF ValidateMessages, Valid, Looking, TextsShown, Texts
<1>5. CASE PatchInvalidMessageNullptr
  <2>1. /\ last_hash \in Hashes
        /\ lookup = [step |-> "valid", of |-> last_hash, orig |-> OrigRuns(last_hash),
                     x8 |-> Found(last_hash)]
    BY <1>5 DEF PatchInvalidMessageNullptr, Looking
  <2>2. /\ lookup' = [step |-> "read", of |-> last_hash, orig |-> OrigRuns(last_hash),
                      x8 |-> Readable(last_hash)]
        /\ UNCHANGED <<flags, last_hash, rows, copied>>
    BY <1>5, <2>1 DEF PatchInvalidMessageNullptr, Found, Readable
  <2>3. ~ crashed'
    <3>1. lookup'.x8 # "null"
      BY <2>2 DEF Readable
    <3> QED
      BY <1>5, <2>1, <2>2, <3>1 DEF PatchInvalidMessageNullptr, Found
  <2> QED
    BY <2>1, <2>2, <2>3 DEF Looking, TextsShown, Texts
<1>6. CASE CopyMessage
  <2> DEFINE src == IF lookup.x8 = "message" THEN lookup.of ELSE "empty"
  <2>1. /\ last_hash \in Hashes /\ lookup.of = last_hash
        /\ lookup.x8 = Readable(last_hash)
    BY <1>6 DEF CopyMessage, Looking
  <2>2. Replacements(src) = Texts(last_hash)
    BY <2>1 DEF Replacements, Texts, Readable, Hashes
  <2>3. PICK text \in Texts(last_hash) :
          rows' = [m \in DOMAIN rows \cup {last_hash} |-> IF m = last_hash THEN text ELSE rows[m]]
    BY <1>6, <2>1, <2>2 DEF CopyMessage
  <2>4. /\ last_hash' = NoHash /\ lookup' = [step |-> "none"]
        /\ UNCHANGED <<flags, copied, crashed>>
    BY <1>6 DEF CopyMessage, MsgStringReplace
  <2>5. \A k \in DOMAIN rows' : rows'[k] \in Texts(k)'
    BY <2>3, <2>4 DEF TextsShown, Texts
  <2> QED
    BY <2>4, <2>5 DEF Looking, TextsShown
\* No hash is stored, so that the string is the game's.
<1>7. ASSUME NEW string, CopyString(string) PROVE MessageInv'
  <2>1. last_hash = NoHash /\ lookup = [step |-> "none"]
    BY <1>7 DEF CopyString, Looking
  <2>2. Replacements(string) = {string}
    BY <2>1 DEF Replacements, NoHash, ShowSeed
  <2> QED
    BY <1>7, <2>1, <2>2 DEF CopyString, MsgStringReplace, Looking, TextsShown, Texts
<1>8. CASE WaitEnds
  BY <1>8 DEF WaitEnds, Looking, TextsShown, Texts
<1>9. \/ UNCHANGED <<flags, messageVars, crashed>>
      \/ \E flag \in DOMAIN flags : ToggleSetting(flag)
      \/ \E hash \in Hashes : MsgHashStore(hash)
      \/ ValidateMessages \/ PatchInvalidMessageNullptr \/ CopyMessage
      \/ \E string \in Strings : CopyString(string)
      \/ WaitEnds
  BY DEF Next, vars, Hashes, RegisterAMXFunctions, ScriptEnds, HookNpad, Wait, SkipBSeq,
         PlaySequence, EvCameraSpeed, TweakLevelCap
<1> QED
  BY <1>1, <1>2, <1>3, <1>4, <1>5, <1>6, <1>7, <1>8, <1>9

(***************************************************************************)
(* A message shows a text of its own, with its flag as it is, every other  *)
(* string is the game's, and nothing is read through a null message:       *)
(* settings_menu.hpp with any set of messages; of the seed's only that it  *)
(* is what its buffer came to hold.  No custom hash but the seed's gets to *)
(* the rest of MsgHashStore.                                               *)
(***************************************************************************)
THEOREM TextsStayTheirOwn == Spec => []TextsAreTheirOwn
<1>1. MessageInv => TextsAreTheirOwn
  <2> SUFFICES ASSUME MessageInv PROVE TextsAreTheirOwn
    OBVIOUS
  <2>1. ASSUME lookup.step # "none", lookup.orig PROVE lookup.of \in GameMessages \cup {ShowSeed}
    <3>1. lookup.step # "none"
      BY <2>1
    <3>2. PICK step, x8 : /\ lookup = [step |-> step, of |-> last_hash, orig |-> OrigRuns(last_hash),
                                       x8 |-> x8]
                          /\ last_hash \in Hashes
      BY <3>1 DEF MessageInv, Looking
    <3>3. lookup.of = last_hash
      BY <3>2
    <3>4. lookup.orig = OrigRuns(last_hash)
      BY <3>2
    <3>5. OrigRuns(last_hash)
      BY <2>1, <3>4
    <3> QED
      BY <3>2, <3>3, <3>5 DEF OrigRuns, Hashes
  <2> QED
    BY <2>1 DEF MessageInv, TextsShown, TextsAreTheirOwn
<1> QED
  BY <1>1, InitMessages, NextMessages, PTL DEF Spec
-----------------------------------------------------------------------------
(* An array of natives: the terminator is its last element and no other. *)
Terminated(Name, symbols) ==
  /\ symbols \in Seq(Name) /\ symbols # <<>>
  /\ symbols[Len(symbols)] = Terminator
  /\ \A i \in 1 .. Len(symbols) - 1 : symbols[i] # Terminator

LEMMA ListedNatives ==
  ASSUME NEW Name, NEW symbols, Terminated(Name, symbols)
  PROVE  Listed(symbols) = { symbols[i] : i \in 1 .. Len(symbols) - 1 }
<1> DEFINE known == { k \in DOMAIN symbols : \A j \in 1 .. k : symbols[j] # Terminator }
<1>1. Len(symbols) \in Nat \ {0} /\ DOMAIN symbols = 1 .. Len(symbols)
  BY DEF Terminated
<1>2. symbols[Len(symbols)] = Terminator
  BY <1>1 DEF Terminated
<1>3. ASSUME NEW k \in 1 .. Len(symbols) - 1 PROVE symbols[k] # Terminator
  BY DEF Terminated
<1>4. ASSUME NEW k PROVE k \in known <=> k \in 1 .. Len(symbols) - 1
  <2>1. k \in known => k \in 1 .. Len(symbols) /\ k # Len(symbols)
    BY <1>1, <1>2
  <2>2. k \in 1 .. Len(symbols) - 1 => k \in DOMAIN symbols /\ 1 .. k \subseteq 1 .. Len(symbols) - 1
    BY <1>1
  <2> QED
    BY <1>1, <1>3, <2>1, <2>2
<1>5. known = 1 .. Len(symbols) - 1
  BY <1>4
<1> QED
  BY <1>5 DEF Listed

\* A native that is added is listed with the others, and the array still ends.
LEMMA AddsToListed ==
  ASSUME NEW Name, NEW symbols, Terminated(Name, symbols), NEW name \in Name, name # Terminator
  PROVE  /\ Terminated(Name, add_new_symbol(symbols, name))
         /\ Listed(add_new_symbol(symbols, name)) = Listed(symbols) \cup {name}
<1> DEFINE n == Len(symbols)
           more == add_new_symbol(symbols, name)
<1>1. symbols \in Seq(Name) /\ n \in Nat \ {0}
  BY DEF Terminated
<1>2. more = SubSeq(symbols, 1, n - 1) \o <<name>> \o SubSeq(symbols, n, n)
  BY DEF add_new_symbol, InsertAt
<1>3. /\ more \in Seq(Name) /\ Len(more) = n + 1
      /\ \A i \in 1 .. n - 1 : more[i] = symbols[i]
      /\ more[n] = name /\ more[n + 1] = symbols[n]
  <2> DEFINE before == SubSeq(symbols, 1, n - 1)
             behind == SubSeq(symbols, n, n)
  <2>0. n - 1 \in Nat /\ n - 1 <= Len(symbols)
    BY <1>1
  <2>1. before \in Seq(Name) /\ Len(before) = n - 1 /\ \A i \in 1 .. n - 1 : before[i] = symbols[i]
    <3> DEFINE k == n - 1
    <3>1. k \in Nat /\ k <= Len(symbols) /\ symbols \in Seq(Name)
      BY <1>1, <2>0
    <3> HIDE DEF k
    <3>2. SubSeq(symbols, 1, k) \in Seq(Name)
      BY <3>1
    <3>3. Len(SubSeq(symbols, 1, k)) = k
      BY <3>1
    <3>4. \A i \in 1 .. k : SubSeq(symbols, 1, k)[i] = symbols[i]
      BY <3>1
    <3> QED
      BY <3>2, <3>3, <3>4 DEF k
  <2>2. behind \in Seq(Name) /\ Len(behind) = 1 /\ behind[1] = symbols[n]
    BY <1>1
  <2>3. <<name>> \in Seq(Name) /\ Len(<<name>>) = 1 /\ <<name>>[1] = name
    OBVIOUS
  <2> HIDE DEF before, behind, n
  <2> DEFINE front == before \o <<name>>
  <2>4. /\ front \in Seq(Name) /\ Len(front) = n
        /\ \A i \in 1 .. n - 1 : front[i] = symbols[i]
        /\ front[n] = name
    BY <1>1, <2>1, <2>3
  <2> HIDE DEF front
  <2>5. front \o behind \in Seq(Name) /\ Len(front \o behind) = n + 1
    <3>1. front \in Seq(Name) /\ behind \in Seq(Name)
      BY <2>2, <2>4
    <3>2. front \o behind \in Seq(Name) /\ Len(front \o behind) = Len(front) + Len(behind)
      BY <3>1
    <3> QED
      BY <2>2, <2>4, <3>2
  <2>6. \A i \in 1 .. n : (front \o behind)[i] = front[i]
    BY <1>1, <2>2, <2>4
  <2>7. (front \o behind)[n + 1] = behind[1]
    <3> DEFINE k == n + 1
    <3>1. k \in 1 .. Len(front) + Len(behind) /\ ~ (k <= Len(front)) /\ k - Len(front) = 1
      BY <1>1, <2>2, <2>4
    <3> HIDE DEF k
    <3>2. (front \o behind)[k] = behind[k - Len(front)]
      BY <2>2, <2>4, <3>1, ConcatProperties
    <3> QED
      BY <3>1, <3>2 DEF k
  <2>8. more = front \o behind
    BY <1>2 DEF front, before, behind
  <2>9. \A i \in 1 .. n - 1 : i \in 1 .. n
    BY <1>1
  <2>10. n \in 1 .. n
    BY <1>1
  <2> QED
    BY <2>2, <2>4, <2>5, <2>6, <2>7, <2>8, <2>9, <2>10
<1> HIDE DEF more
<1>4. symbols[n] = Terminator /\ \A i \in 1 .. n - 1 : symbols[i] # Terminator
  BY DEF Terminated
<1> HIDE DEF n
<1>5. Terminated(Name, more)
  <2>0. Len(more) - 1 = n
    BY <1>1, <1>3
  <2>1. more[n + 1] = Terminator /\ \A i \in 1 .. n : more[i] # Terminator
    BY <1>1, <1>3, <1>4
  <2>2. more # <<>>
    <3>1. CASE more = <<>>
      BY <3>1, <1>1, <1>3
    <3> QED
      BY <3>1
  <2> QED
    BY <1>3, <2>0, <2>1, <2>2 DEF Terminated
<1>6. Listed(symbols) = { symbols[i] : i \in 1 .. n - 1 }
  BY ListedNatives DEF n
<1>7. Listed(more) = { more[i] : i \in 1 .. n }
  <2>1. Listed(more) = { more[i] : i \in 1 .. Len(more) - 1 }
    BY <1>5, ListedNatives
  <2>2. Len(more) - 1 = n
    BY <1>1, <1>3
  <2> QED
    BY <2>1, <2>2
<1>8. { more[i] : i \in 1 .. n } = { symbols[i] : i \in 1 .. n - 1 } \cup {name}
  BY <1>1, <1>3
<1>9. more = add_new_symbol(symbols, name)
  BY DEF more
<1> QED
  BY <1>5, <1>6, <1>7, <1>8, <1>9

LEMMA AllListed == Natives \subseteq Listed(install_settings_menu_patch)
<1> DEFINE Name  == {Terminator, "AddNewSeedDigit", "ResetSeed", "ToggleSetting"}
           none  == <<Terminator>>
           digit == add_new_symbol(none, "AddNewSeedDigit")
           reset == add_new_symbol(digit, "ResetSeed")
           all   == add_new_symbol(reset, "ToggleSetting")
<1>0. /\ {Terminator, "AddNewSeedDigit", "ResetSeed", "ToggleSetting"} \subseteq Name
      /\ Terminator \notin {"AddNewSeedDigit", "ResetSeed", "ToggleSetting"}
  BY DEF Terminator
<1>1. Terminated(Name, none)
  <2>1. Len(none) = 1 /\ none[1] = Terminator /\ none # <<>>
    OBVIOUS
  <2>2. none \in Seq(Name)
    BY <1>0
  <2> QED
    BY <2>1, <2>2 DEF Terminated
<1> HIDE DEF none, Name
<1>2. Terminated(Name, digit) /\ Listed(digit) = Listed(none) \cup {"AddNewSeedDigit"}
  BY <1>0, <1>1, AddsToListed
<1> HIDE DEF digit
<1>3. Terminated(Name, reset) /\ Listed(reset) = Listed(digit) \cup {"ResetSeed"}
  BY <1>0, <1>2, AddsToListed
<1> HIDE DEF reset
<1>4. Listed(all) = Listed(reset) \cup {"ToggleSetting"}
  BY <1>0, <1>3, AddsToListed
<1>5. all = install_settings_menu_patch
  BY DEF install_settings_menu_patch, none, digit, reset
<1> QED
  BY <1>2, <1>3, <1>4, <1>5 DEF Natives

(***************************************************************************)
(* The array is as exl_main left it, and the script that runs was given    *)
(* what is in it.                                                          *)
(***************************************************************************)
NativeInv ==
  /\ custom_symbols = install_settings_menu_patch
  /\ \/ script = [at |-> "none"]
     \/ /\ script \in [at : {"run", "message", "key", "sequence"}, name : DOMAIN Imports]
        /\ registered[script.name] = GameNatives \cup Listed(custom_symbols)

LEMMA NextNatives == NativeInv /\ [Next]_vars => NativeInv'
<1> SUFFICES ASSUME NativeInv, [Next]_vars PROVE NativeInv'
  OBVIOUS
<1>1. custom_symbols' = custom_symbols
  BY DEF Next, vars, RegisterAMXFunctions, ScriptEnds, ToggleSetting, MsgHashStore, ValidateMessages,
         PatchInvalidMessageNullptr, CopyMessage, CopyString, HookNpad, Wait, WaitEnds, SkipBSeq,
         PlaySequence, EvCameraSpeed, TweakLevelCap
<1>2. Listed(custom_symbols)' = Listed(custom_symbols)
  BY <1>1 DEF Listed
<1>3. ASSUME NEW name \in DOMAIN Imports, RegisterAMXFunctions(name) PROVE NativeInv'
  <2>1. /\ script' = [at |-> "run", name |-> name]
        /\ registered'[name] = GameNatives \cup Listed(custom_symbols)
    BY <1>3 DEF RegisterAMXFunctions
  <2> QED
    BY <1>1, <1>2, <2>1 DEF NativeInv
<1>4. CASE ScriptEnds
  BY <1>1, <1>4 DEF ScriptEnds, NativeInv
\* A script that runs goes on with what it was given.
<1>5. ASSUME \/ UNCHANGED script
             \/ /\ script.at # "none"
                /\ \E at \in {"run", "message", "key", "sequence"} : script' = [script EXCEPT !.at = at],
             UNCHANGED registered
      PROVE  NativeInv'
  BY <1>1, <1>2, <1>5 DEF NativeInv
<1>6. ASSUME NEW for \in {"message", "key"}, Wait(for) PROVE NativeInv'
  BY <1>5, <1>6 DEF Wait
<1>7. ASSUME NEW seq_file, SkipBSeq(seq_file) PROVE NativeInv'
  BY <1>5, <1>7 DEF SkipBSeq
<1>8. CASE WaitEnds
  BY <1>5, <1>8 DEF WaitEnds
<1>9. CASE PlaySequence
  BY <1>5, <1>9 DEF PlaySequence
<1>10. \/ UNCHANGED <<script, registered>>
       \/ \E name \in DOMAIN Imports : RegisterAMXFunctions(name)
       \/ ScriptEnds
       \/ \E for \in {"message", "key"} : Wait(for)
       \/ \E seq_file \in DOMAIN Sequences : SkipBSeq(seq_file)
       \/ WaitEnds \/ PlaySequence
  BY DEF Next, vars, ToggleSetting, MsgHashStore, ValidateMessages, PatchInvalidMessageNullptr,
         CopyMessage, CopyString, HookNpad, EvCameraSpeed, TweakLevelCap
<1> QED
  BY <1>3, <1>4, <1>5, <1>6, <1>7, <1>8, <1>9, <1>10

(***************************************************************************)
(* A script that runs was given every native it calls: AMX::add_new_symbol *)
(* puts every native before the end of the array, whatever the scripts and *)
(* their order.                                                            *)
(***************************************************************************)
THEOREM NativesAreFound == Spec => []NativesFound
<1>1. Init => NativeInv
  BY DEF Init, NativeInv
<1>2. NativeInv => NativesFound
  BY AllListed, GameHooksConstants DEF NativeInv, NativesFound
<1> QED
  BY <1>1, <1>2, NextNatives, PTL DEF Spec

-----------------------------------------------------------------------------
(***************************************************************************)
(* Relocation: a trampoline stays whole.                                   *)
(***************************************************************************)
InstructionOps == {"plain", "prfm", "b", "bl", "cond", "test", "adr", "adru", "adrp",
                   "ldrw", "ldrsw", "ldrx", "ldrs", "ldrd", "ldrq"}
WordOps == InstructionOps \cup {"nop", "addr", "lit", "ldr17", "adr30", "br17", "ldra",
                                "invalid", "badreg"}

MovedInstruction == [op : InstructionOps, imm : Int]
WrittenWord == [op : WordOps, imm : Int \cup ({"adr", "adru"} \X Int)]

\* References that process_fix_map may have to complete.
Relative17 == Branches \cup Conditionals \cup AddressOps

\* The words from address at on: a load of an address is two words from an aligned one...
AddressesAligned(words, at) ==
  \A p \in 1 .. Len(words) :
    words[p].op \in {"ldr17", "ldra"} =>
      words[p].imm \in Int /\ (at + p - 1 + words[p].imm) % 2 = 0

\* ... and no literal but the first behind a load and its branch needs to be.
CopiesAligned(words, at) ==
  \A p \in 1 .. Len(words) :
    words[p].op = "lit" =>
      p > 1 /\ (words[p - 1].op = "b" => p > 2 /\ (at + p - 1) % Copied(words[p - 2].op) = 0)

WellPlaced(words, at) == AddressesAligned(words, at) /\ CopiesAligned(words, at)

\* Words wait for an instruction that is moved too, and refer to it.
WordsWait ==
  /\ fmap \in [0 .. 4 -> SUBSET (1 .. Len(out))]
  /\ \A i \in 0 .. 4 : /\ fmap[i] # {} => i < count
                      /\ \A p \in fmap[i] : out[p].op \in Relative17

MovedInv ==
  /\ place \in Placements /\ done \in BOOLEAN
  /\ code \in Seq(MovedInstruction) /\ idx <= count /\ (done => idx = count)
  /\ dat \in Seq(Int) /\ Len(dat) = idx
  /\ \A i \in 1 .. Len(dat) :
       dat[i] - place.tramp \in 0 .. Len(out) \/ dat[i] - place.rw \in 0 .. Len(out)
  /\ out \in Seq(WrittenWord)
  /\ Len(out) <= 9 * idx + (IF done THEN 5 ELSE 0)
  /\ WellPlaced(out, place.tramp)
  /\ WordsWait

LEMMA PlacesAreNumbers == ASSUME place \in Placements
  PROVE /\ place.base \in Nat /\ place.tramp \in Nat /\ place.rw \in Nat
        /\ count \in 1 .. 5
BY RelocationConstants DEF count

LEMMA SpansHold == \A op : FieldSpan(op) \in Nat \ {0}
BY RelocationConstants DEF FieldSpan

LEMMA FieldIsInt == ASSUME NEW v \in Int, NEW op PROVE Field(v, FieldSpan(op)) \in Int
BY SpansHold DEF Field

LEMMA SignedIsInt == ASSUME NEW v \in Int, NEW span \in Nat PROVE Signed(v, span) \in Int
BY DEF Signed

LEMMA UnsignedIsInt == ASSUME NEW v \in Int PROVE Unsigned(v) \in Int
BY RelocationConstants DEF Unsigned

\* An offset of whole pages as it is read is a number.
LEMMA PagesAreInt ==
  ASSUME NEW x \in Int, NEW k \in Int
  PROVE  x + Unsigned(k * PageSize) \in Int
<1>1. PageSize \in Int
  BY RelocationConstants
<1>2. \A y, z \in Int : y * z \in Int
  OBVIOUS
<1>3. k * PageSize \in Int
  BY <1>1, <1>2, Zenon
<1>4. PICK o \in Int : o = k * PageSize
  BY <1>3
<1>5. Unsigned(o) \in Int
  BY UnsignedIsInt
<1> QED  BY <1>4, <1>5

LEMMA CopiedWords == ASSUME NEW op \in DOMAIN Loads PROVE Copied(op) \in {1, 2, 4}
BY DEF Loads, Copied

\* Words put behind well-placed words are well-placed where they end up.
LEMMA PutBehind ==
  ASSUME NEW before \in Seq(WrittenWord), NEW words \in Seq(WrittenWord), NEW at \in Int,
         WellPlaced(before, at), WellPlaced(words, at + Len(before))
  PROVE  /\ before \o words \in Seq(WrittenWord)
         /\ Len(before \o words) = Len(before) + Len(words)
         /\ \A p \in 1 .. Len(before) : (before \o words)[p] = before[p]
         /\ WellPlaced(before \o words, at)
<1> DEFINE all == before \o words
           n == Len(before)
<1>1. all \in Seq(WrittenWord) /\ Len(all) = n + Len(words) /\ n \in Nat /\ Len(words) \in Nat
  BY ConcatProperties
<1>2. \A p \in 1 .. Len(all) : all[p] = IF p <= n THEN before[p] ELSE words[p - n]
  BY ConcatProperties
<1>3. AddressesAligned(all, at)
  <2> SUFFICES ASSUME NEW p \in 1 .. Len(all), all[p].op \in {"ldr17", "ldra"}
               PROVE  all[p].imm \in Int /\ (at + p - 1 + all[p].imm) % 2 = 0
    BY DEF AddressesAligned
  <2>1. CASE p <= n
    BY <2>1, <1>1, <1>2 DEF WellPlaced, AddressesAligned
  <2>2. CASE p > n
    <3>1. p - n \in 1 .. Len(words) /\ all[p] = words[p - n]
      BY <2>2, <1>1, <1>2
    <3>2. words[p - n].imm \in Int /\ (at + n + (p - n) - 1 + words[p - n].imm) % 2 = 0
      BY <3>1 DEF WellPlaced, AddressesAligned
    <3> HIDE DEF all, n
    <3>3. at + n + (p - n) - 1 + all[p].imm = at + p - 1 + all[p].imm
      BY <3>1, <3>2, <1>1
    <3> QED  BY <3>1, <3>2, <3>3
  <2> QED  BY <2>1, <2>2, <1>1
<1>4. CopiesAligned(all, at)
  <2> SUFFICES ASSUME NEW p \in 1 .. Len(all), all[p].op = "lit"
               PROVE  p > 1 /\ (all[p - 1].op = "b" =>
                                  p > 2 /\ (at + p - 1) % Copied(all[p - 2].op) = 0)
    BY DEF CopiesAligned
  <2>1. CASE p <= n
    <3>1. p \in 1 .. n /\ all[p] = before[p] /\ (p > 1 => all[p - 1] = before[p - 1])
          /\ (p > 2 => all[p - 2] = before[p - 2])
      BY <2>1, <1>1, <1>2
    <3> QED  BY <3>1, <2>1 DEF WellPlaced, CopiesAligned
  <2>2. CASE p > n
    <3> DEFINE q == p - n
    <3>1. q \in 1 .. Len(words) /\ all[p] = words[q]
      BY <2>2, <1>1, <1>2
    <3>2. q > 1 /\ (words[q - 1].op = "b" =>
                      q > 2 /\ (at + n + q - 1) % Copied(words[q - 2].op) = 0)
      BY <3>1 DEF WellPlaced, CopiesAligned
    <3>3. q \in Int /\ p \in Int /\ n \in Nat /\ p = n + q /\ Len(words) \in Nat
      BY <1>1
    <3> HIDE DEF n, q, all
    <3>4. p > 1 /\ (q > 2 => p > 2) /\ at + n + q - 1 = at + p - 1
      BY <3>1, <3>2, <3>3
    <3>5. p - 1 \in 1 .. Len(all) /\ p - 1 > n /\ (p - 1) - n = q - 1
      BY <3>1, <3>2, <3>3, <1>1
    <3>6. ASSUME q > 2  PROVE p - 2 \in 1 .. Len(all) /\ p - 2 > n /\ (p - 2) - n = q - 2
      BY <3>1, <3>3, <3>6, <1>1
    <3>7. all[p - 1] = words[q - 1]
      <4>1. ~ (p - 1 <= n)
        BY <3>3, <3>5
      <4>2. all[p - 1] = words[(p - 1) - n]
        BY <3>5, <4>1, <1>2, Zenon
      <4> QED  BY <3>5, <4>2
    <3>8. ASSUME q > 2  PROVE all[p - 2] = words[q - 2]
      <4>1. ~ (p - 2 <= n)
        BY <3>3, <3>6, <3>8
      <4>2. all[p - 2] = words[(p - 2) - n]
        BY <3>6, <3>8, <4>1, <1>2, Zenon
      <4> QED  BY <3>6, <3>8, <4>2
    <3>9. ASSUME all[p - 1].op = "b"
          PROVE  p > 2 /\ (at + p - 1) % Copied(all[p - 2].op) = 0
      <4>1. words[q - 1].op = "b"
        BY <3>7, <3>9
      <4>2. q > 2 /\ (at + n + q - 1) % Copied(words[q - 2].op) = 0
        BY <4>1, <3>2
      <4>3. p > 2 /\ all[p - 2] = words[q - 2]
        BY <4>2, <3>4, <3>8
      <4> QED  BY <4>2, <4>3, <3>4, Zenon
    <3> QED  BY <3>4, <3>9
  <2>3. p <= n \/ p > n
    BY <1>1
  <2> QED  BY <2>1, <2>2, <2>3, Zenon
<1> QED  BY <1>1, <1>2, <1>3, <1>4 DEF WellPlaced

\* process_fix_map changes what waits and leaves every word a word of its kind.
LEMMA FixMapKeeps ==
  ASSUME MovedInv, idx \in 0 .. 4, NEW entry \in Int, NEW words \in Seq(WrittenWord),
         Len(words) >= Len(out), \A p \in 1 .. Len(out) : words[p] = out[p],
         WellPlaced(words, place.tramp)
  PROVE  LET fixed == process_fix_map(words, entry) IN
         /\ fixed \in Seq(WrittenWord) /\ Len(fixed) = Len(words)
         /\ \A p \in 1 .. Len(words) : fixed[p].op = words[p].op
         /\ WellPlaced(fixed, place.tramp)
<1> DEFINE fixed == process_fix_map(words, entry)
<1>1. Len(words) \in Nat /\ place.tramp \in Int
  BY PlacesAreNumbers DEF MovedInv
<1>2. \A p \in fmap[idx] : p \in 1 .. Len(words) /\ words[p].op \in Relative17
  <2>1. WordsWait /\ Len(out) \in Nat
    BY DEF MovedInv
  <2>2. fmap[idx] \subseteq 1 .. Len(out) /\ \A p \in fmap[idx] : out[p].op \in Relative17
    BY <2>1 DEF WordsWait
  <2>3. 1 .. Len(out) \subseteq 1 .. Len(words)
    BY <1>1, <2>1
  <2>4. \A p \in fmap[idx] : words[p] = out[p]
    BY <2>2
  <2> QED  BY <2>2, <2>3, <2>4
<1>3. ASSUME NEW p \in 1 .. Len(words)
      PROVE  /\ fixed[p] \in WrittenWord /\ fixed[p].op = words[p].op
             /\ words[p].op \notin Relative17 => fixed[p] = words[p]
  <2>1. words[p] \in WrittenWord
    OBVIOUS
  <2>2. fixed[p] = IF p \in fmap[idx]
                   THEN [words[p] EXCEPT !.imm = Field(entry - (place.tramp + p - 1), FieldSpan(words[p].op))]
                   ELSE words[p]
    BY DEF process_fix_map
  <2>3. Field(entry - (place.tramp + p - 1), FieldSpan(words[p].op)) \in Int
    <3>1. entry - (place.tramp + p - 1) \in Int
      BY <1>1
    <3> QED  BY <3>1, FieldIsInt
  <2> QED  BY <2>1, <2>2, <2>3, <1>2 DEF WrittenWord
<1>4. fixed \in Seq(WrittenWord) /\ Len(fixed) = Len(words)
  <2>1. fixed = [p \in 1 .. Len(words) |-> fixed[p]]
    BY DEF process_fix_map
  <2>2. fixed \in [1 .. Len(words) -> WrittenWord]
    BY <2>1, <1>3
  <2> QED  BY <2>2, <1>1, SeqDef
<1> HIDE DEF fixed
<1>5. AddressesAligned(fixed, place.tramp)
  <2>1. {"ldr17", "ldra"} \cap Relative17 = {}
    BY DEF Relative17, Branches, Conditionals, AddressOps
  <2> QED  BY <1>3, <1>4, <2>1 DEF WellPlaced, AddressesAligned
<1>6. CopiesAligned(fixed, place.tramp)
  <2> SUFFICES ASSUME NEW p \in 1 .. Len(words), fixed[p].op = "lit"
               PROVE  p > 1 /\ (fixed[p - 1].op = "b" =>
                        p > 2 /\ (place.tramp + p - 1) % Copied(fixed[p - 2].op) = 0)
    BY <1>4 DEF CopiesAligned
  <2>1. p > 1 /\ (words[p - 1].op = "b" =>
                    p > 2 /\ (place.tramp + p - 1) % Copied(words[p - 2].op) = 0)
    BY <1>3 DEF WellPlaced, CopiesAligned
  <2>2. fixed[p - 1].op = words[p - 1].op /\ (p > 2 => fixed[p - 2].op = words[p - 2].op)
    BY <2>1, <1>1, <1>3
  <2> QED  BY <2>1, <2>2
<1> QED  BY <1>3, <1>4, <1>5, <1>6 DEF WellPlaced, fixed

\* What every __fix_ function ends with keeps the invariant, if its words fit the place.
LEMMA EmitKeeps ==
  ASSUME MovedInv, idx < count,
         NEW ins \in MovedInstruction, NEW words \in Seq(WrittenWord),
         NEW entry \in Int, NEW later \in SUBSET Indices,
         Len(words) <= 9, WellPlaced(words, rx),
         \/ entry - place.tramp \in 0 .. Len(out) + Len(words)
         \/ entry - place.rw \in 0 .. Len(out) + Len(words),
         later # {} => Len(words) = 1 /\ words[1].op \in Relative17,
         Emit(ins, words, entry, later)
  PROVE  MovedInv'
<1> DEFINE joined == out \o words
<1>1. /\ place.tramp \in Nat /\ place.base \in Nat /\ count \in 1 .. 5 /\ idx \in Nat /\ idx \in 0 .. 4
      /\ Len(out) \in Nat /\ Len(words) \in Nat /\ ~ done
  <2>1. place.tramp \in Nat /\ place.base \in Nat /\ count \in 1 .. 5
    BY PlacesAreNumbers DEF MovedInv
  <2>2. idx \in Nat /\ Len(out) \in Nat /\ Len(words) \in Nat
    BY DEF MovedInv, idx
  <2>3. ~ done
    <3>1. done => idx = count
      BY DEF MovedInv
    <3> QED  BY <3>1, <2>1, <2>2
  <2> QED  BY <2>1, <2>2, <2>3
<1>2. /\ joined \in Seq(WrittenWord) /\ Len(joined) = Len(out) + Len(words)
      /\ \A p \in 1 .. Len(out) : joined[p] = out[p]
      /\ WellPlaced(joined, place.tramp)
  BY <1>1, PutBehind DEF MovedInv, rx
<1>3. /\ out' \in Seq(WrittenWord) /\ Len(out') = Len(joined)
      /\ \A p \in 1 .. Len(joined) : out'[p].op = joined[p].op
      /\ WellPlaced(out', place.tramp)
  <2>1. Len(joined) >= Len(out)
    BY <1>1, <1>2
  <2>2. out' = process_fix_map(joined, entry)
    BY DEF Emit
  <2> HIDE DEF joined
  <2> QED  BY <1>1, <1>2, <2>1, <2>2, FixMapKeeps
<1>4. place' = place /\ done' = done /\ count' = count
  BY DEF Emit, count
<1>5. code' \in Seq(MovedInstruction) /\ idx' = idx + 1
  BY DEF Emit, MovedInv, idx
<1>6. /\ dat' \in Seq(Int) /\ Len(dat') = idx'
      /\ \A i \in 1 .. Len(dat') : dat'[i] = IF i <= Len(dat) THEN dat[i] ELSE entry
  <2>1. dat \in Seq(Int) /\ Len(dat) = idx
    BY DEF MovedInv
  <2>2. dat' = Append(dat, entry)
    BY DEF Emit
  <2>3. dat' \in Seq(Int) /\ Len(dat') = Len(dat) + 1
    BY <2>1, <2>2
  <2>4. \A i \in 1 .. Len(dat) + 1 : dat'[i] = IF i <= Len(dat) THEN dat[i] ELSE entry
    BY <2>1, <2>2
  <2> QED  BY <2>1, <2>3, <2>4, <1>5
<1>7. \A i \in 1 .. Len(dat') : \/ dat'[i] - place'.tramp \in 0 .. Len(out')
                               \/ dat'[i] - place'.rw \in 0 .. Len(out')
  <2> TAKE i \in 1 .. Len(dat')
  <2>1. CASE i <= Len(dat)
    <3>1. i \in 1 .. Len(dat) /\ dat'[i] = dat[i] /\ dat[i] \in Int /\ place.rw \in Nat
      BY <2>1, <1>6, <1>1, PlacesAreNumbers DEF MovedInv
    <3>2. dat[i] - place.tramp \in 0 .. Len(out) \/ dat[i] - place.rw \in 0 .. Len(out)
      BY <3>1 DEF MovedInv
    <3> QED  BY <3>1, <3>2, <1>1, <1>2, <1>3, <1>4
  <2>2. CASE i > Len(dat)
    BY <2>2, <1>1, <1>2, <1>3, <1>4, <1>6
  <2>3. i <= Len(dat) \/ i > Len(dat)
    BY <1>1, <1>6 DEF MovedInv
  <2> QED  BY <2>1, <2>2, <2>3
<1>8. Len(out') <= 9 * idx' + (IF done' THEN 5 ELSE 0)
  BY <1>1, <1>2, <1>3, <1>4, <1>5 DEF MovedInv
<1>9. WordsWait'
  <2>1. fmap' = [i \in 0 .. 4 |-> IF i \in later THEN fmap[i] \cup {Len(out) + 1} ELSE fmap[i]]
    BY DEF Emit
  <2>2. \A i \in 0 .. 4 : fmap[i] \subseteq 1 .. Len(out)
    BY DEF MovedInv, WordsWait
  <2>3. ASSUME NEW i \in 0 .. 4, NEW p \in fmap'[i]
        PROVE  p \in 1 .. Len(out') /\ out'[p].op \in Relative17 /\ i < count
    <3>1. CASE p \in fmap[i]
      <4>1. p \in 1 .. Len(out) /\ out[p].op \in Relative17 /\ i < count
        BY <3>1, <2>2 DEF MovedInv, WordsWait
      <4>2. p \in 1 .. Len(joined) /\ joined[p] = out[p]
        BY <4>1, <1>1, <1>2
      <4> QED  BY <4>1, <4>2, <1>3
    <3>2. CASE p \notin fmap[i]
      <4>1. i \in later /\ p = Len(out) + 1
        BY <2>1, <2>3, <3>2
      <4>2. Len(words) = 1 /\ words[1].op \in Relative17
        BY <4>1
      <4>3. p \in 1 .. Len(joined) /\ joined[p] = words[1]
        BY <4>1, <4>2, <1>1, <1>2, ConcatProperties
      <4>4. i < count
        BY <4>1, <1>1 DEF Indices
      <4> QED  BY <4>2, <4>3, <4>4, <1>3
    <3> QED  BY <3>1, <3>2
  <2>4. fmap' \in [0 .. 4 -> SUBSET (1 .. Len(out'))]
    <3>1. \A i \in 0 .. 4 : fmap'[i] \subseteq 1 .. Len(out')
      BY <2>3
    <3> QED  BY <2>1, <3>1
  <2>5. \A i \in 0 .. 4 : /\ fmap'[i] # {} => i < count'
                         /\ \A p \in fmap'[i] : out'[p].op \in Relative17
    BY <2>3, <1>4
  <2> QED  BY <2>4, <2>5 DEF WordsWait
<1>10. idx' <= count' /\ (done' => idx' = count')
  BY <1>1, <1>4, <1>5
<1> QED  BY <1>3, <1>4, <1>5, <1>6, <1>7, <1>8, <1>9, <1>10 DEF MovedInv

\* Where the next word goes is a number, and so is what an instruction refers to.
LEMMA Numbers ==
  ASSUME MovedInv
  PROVE  rx \in Int /\ pc \in Int /\ idx \in Nat /\ Len(out) \in Nat
         /\ place.tramp \in Int /\ place.rw \in Int
<1>1. place.base \in Nat /\ place.tramp \in Nat /\ place.rw \in Nat
  BY PlacesAreNumbers DEF MovedInv
<1>2. idx \in Nat /\ Len(out) \in Nat
  BY DEF MovedInv, idx
<1> QED  BY <1>1, <1>2 DEF rx, pc

LEMMA PadAligns ==
  ASSUME MovedInv, NEW n \in Nat
  PROVE  PadFor(n) \in 0 .. 1 /\ (rx + PadFor(n) + n) % 2 = 0
<1>1. rx \in Int
  BY Numbers
<1>2. \A r, k \in Int : (r + k) % 2 \in 0 .. 1 /\ (r + ((r + k) % 2) + k) % 2 = 0
  OBVIOUS
<1> QED  BY <1>1, <1>2 DEF PadFor

LEMMA WordIs ==
  ASSUME NEW op \in WordOps
  PROVE  /\ \A imm \in Int : Word(op, imm) \in WrittenWord
         /\ \A imm \in {"adr", "adru"} \X Int : Word(op, imm) \in WrittenWord
         /\ \A imm : Word(op, imm).op = op /\ Word(op, imm).imm = imm
BY DEF Word, WrittenWord

LEMMA TwoAndTwo ==
  ASSUME NEW a, NEW b, NEW d, NEW e
  PROVE  <<a, b>> \o <<d, e>> = <<a, b, d, e>>
<1> DEFINE S == {a, b, d, e}
<1>1. /\ <<a, b>> \in Seq(S) /\ <<d, e>> \in Seq(S) /\ <<a, b, d, e>> \in Seq(S)
      /\ Len(<<a, b>>) = 2 /\ Len(<<d, e>>) = 2
  OBVIOUS
<1> HIDE DEF S
<1>2. /\ <<a, b>> \o <<d, e>> \in Seq(S) /\ Len(<<a, b>> \o <<d, e>>) = 4
      /\ \A p \in 1 .. 4 : (<<a, b>> \o <<d, e>>)[p] = IF p <= 2 THEN <<a, b>>[p] ELSE <<d, e>>[p - 2]
  BY <1>1, ConcatProperties
<1>3. \A p \in 1 .. 4 : (<<a, b>> \o <<d, e>>)[p] = <<a, b, d, e>>[p]
  BY <1>2
<1> QED  BY <1>1, <1>2, <1>3, SeqEqual

LEMMA ThreeAndTwo ==
  ASSUME NEW a, NEW b, NEW c, NEW d, NEW e
  PROVE  <<a, b, c>> \o <<d, e>> = <<a, b, c, d, e>>
<1> DEFINE S == {a, b, c, d, e}
<1>1. /\ <<a, b, c>> \in Seq(S) /\ <<d, e>> \in Seq(S) /\ <<a, b, c, d, e>> \in Seq(S)
      /\ Len(<<a, b, c>>) = 3 /\ Len(<<d, e>>) = 2
  OBVIOUS
<1> HIDE DEF S
<1>2. /\ <<a, b, c>> \o <<d, e>> \in Seq(S) /\ Len(<<a, b, c>> \o <<d, e>>) = 5
      /\ \A p \in 1 .. 5 : (<<a, b, c>> \o <<d, e>>)[p] = IF p <= 3 THEN <<a, b, c>>[p] ELSE <<d, e>>[p - 3]
  BY <1>1, ConcatProperties
<1>3. \A p \in 1 .. 5 : (<<a, b, c>> \o <<d, e>>)[p] = <<a, b, c, d, e>>[p]
  BY <1>2
<1> QED  BY <1>1, <1>2, <1>3, SeqEqual

LEMMA OpsThere ==
  /\ "nop" \in WordOps /\ "addr" \in WordOps /\ "lit" \in WordOps /\ "ldr17" \in WordOps
  /\ "adr30" \in WordOps /\ "br17" \in WordOps /\ "ldra" \in WordOps /\ "b" \in WordOps
  /\ "plain" \in WordOps /\ "invalid" \in WordOps /\ "badreg" \in WordOps
BY DEF WordOps, InstructionOps

LEMMA NopsPlaced ==
  ASSUME NEW n \in Nat, NEW at \in Int
  PROVE  /\ Nops(n) \in Seq(WrittenWord) /\ Len(Nops(n)) = n
         /\ WellPlaced(Nops(n), at)
<1>1. Nops(n) \in [1 .. n -> WrittenWord]
  BY WordIs, OpsThere DEF Nops
<1>2. Nops(n) \in Seq(WrittenWord) /\ Len(Nops(n)) = n
  BY <1>1, SeqDef
<1>3. \A p \in 1 .. n : Nops(n)[p].op = "nop"
  BY DEF Nops, Word
<1> QED  BY <1>2, <1>3 DEF WellPlaced, AddressesAligned, CopiesAligned

LEMMA JumpPlaced ==
  ASSUME NEW a \in Int, NEW at \in Int, (at + 2) % 2 = 0
  PROVE  JumpTo(a) \in Seq(WrittenWord) /\ Len(JumpTo(a)) = 4 /\ WellPlaced(JumpTo(a), at)
<1>1. JumpTo(a) = <<Word("ldr17", 2), Word("br17", 0), Word("addr", a), Word("addr", a)>>
  BY TwoAndTwo DEF JumpTo, AddressOf
<1>2. Word("ldr17", 2) \in WrittenWord /\ Word("br17", 0) \in WrittenWord /\ Word("addr", a) \in WrittenWord
  BY WordIs, OpsThere
<1>3. JumpTo(a) \in Seq(WrittenWord) /\ Len(JumpTo(a)) = 4
  BY <1>1, <1>2
<1>4. WellPlaced(JumpTo(a), at)
  <2>1. \A p \in 1 .. 4 : JumpTo(a)[p].op \in {"ldr17", "br17", "addr"}
    BY <1>1 DEF Word
  <2>2. \A p \in 1 .. 4 : JumpTo(a)[p].op = "ldr17" => p = 1 /\ JumpTo(a)[p].imm = 2
    BY <1>1 DEF Word
  <2>3. at + 1 - 1 + 2 = at + 2
    OBVIOUS
  <2> QED  BY <1>3, <2>1, <2>2, <2>3 DEF WellPlaced, AddressesAligned, CopiesAligned
<1> QED  BY <1>3, <1>4

LEMMA CallPlaced ==
  ASSUME NEW a \in Int, NEW at \in Int, (at + 3) % 2 = 0
  PROVE  CallTo(a) \in Seq(WrittenWord) /\ Len(CallTo(a)) = 5 /\ WellPlaced(CallTo(a), at)
<1>1. CallTo(a) = <<Word("ldr17", 3), Word("adr30", 4), Word("br17", 0), Word("addr", a), Word("addr", a)>>
  BY ThreeAndTwo DEF CallTo, AddressOf
<1>2. /\ Word("ldr17", 3) \in WrittenWord /\ Word("adr30", 4) \in WrittenWord
      /\ Word("br17", 0) \in WrittenWord /\ Word("addr", a) \in WrittenWord
  BY WordIs, OpsThere
<1>3. CallTo(a) \in Seq(WrittenWord) /\ Len(CallTo(a)) = 5
  BY <1>1, <1>2
<1>4. WellPlaced(CallTo(a), at)
  <2>1. \A p \in 1 .. 5 : CallTo(a)[p].op \in {"ldr17", "adr30", "br17", "addr"}
    BY <1>1 DEF Word
  <2>2. \A p \in 1 .. 5 : CallTo(a)[p].op = "ldr17" => p = 1 /\ CallTo(a)[p].imm = 3
    BY <1>1 DEF Word
  <2>3. at + 1 - 1 + 3 = at + 3
    OBVIOUS
  <2> QED  BY <1>3, <2>1, <2>2, <2>3 DEF WellPlaced, AddressesAligned, CopiesAligned
<1> QED  BY <1>3, <1>4

LEMMA LoadAddressPlaced ==
  ASSUME NEW a \in {"adr", "adru"} \X Int, NEW at \in Int, (at + 2) % 2 = 0
  PROVE  /\ LoadAddress(a) \in Seq(WrittenWord) /\ Len(LoadAddress(a)) = 4
         /\ WellPlaced(LoadAddress(a), at)
<1>1. LoadAddress(a) = <<Word("ldra", 2), Word("b", 3), Word("addr", a), Word("addr", a)>>
  BY TwoAndTwo DEF LoadAddress, AddressOf
<1>2. Word("ldra", 2) \in WrittenWord /\ Word("b", 3) \in WrittenWord /\ Word("addr", a) \in WrittenWord
  BY WordIs, OpsThere
<1>3. LoadAddress(a) \in Seq(WrittenWord) /\ Len(LoadAddress(a)) = 4
  BY <1>1, <1>2
<1>4. WellPlaced(LoadAddress(a), at)
  <2>1. \A p \in 1 .. 4 : LoadAddress(a)[p].op \in {"ldra", "b", "addr"}
    BY <1>1 DEF Word
  <2>2. \A p \in 1 .. 4 : LoadAddress(a)[p].op = "ldra" => p = 1 /\ LoadAddress(a)[p].imm = 2
    BY <1>1 DEF Word
  <2>3. at + 1 - 1 + 2 = at + 2
    OBVIOUS
  <2> QED  BY <1>3, <2>1, <2>2, <2>3 DEF WellPlaced, AddressesAligned, CopiesAligned
<1> QED  BY <1>3, <1>4

\* One word that loads neither an address nor a literal fits anywhere.
LEMMA WordPlaced ==
  ASSUME NEW w \in WrittenWord, NEW at \in Int, w.op \notin {"ldr17", "ldra", "lit"}
  PROVE  <<w>> \in Seq(WrittenWord) /\ Len(<<w>>) = 1 /\ <<w>>[1] = w /\ WellPlaced(<<w>>, at)
<1>1. <<w>> \in Seq(WrittenWord) /\ Len(<<w>>) = 1 /\ \A p \in 1 .. 1 : <<w>>[p] = w
  OBVIOUS
<1> QED  BY <1>1 DEF WellPlaced, AddressesAligned, CopiesAligned

\* Instructions are read at an aligned place behind the no-op, if there has to be one.
LEMMA PaddedPlaced ==
  ASSUME MovedInv, NEW pad \in Nat, NEW words \in Seq(WrittenWord), WellPlaced(words, rx + pad)
  PROVE  /\ Nops(pad) \o words \in Seq(WrittenWord)
         /\ Len(Nops(pad) \o words) = pad + Len(words)
         /\ WellPlaced(Nops(pad) \o words, rx)
<1>1. rx \in Int
  BY Numbers
<1>2. Nops(pad) \in Seq(WrittenWord) /\ Len(Nops(pad)) = pad /\ WellPlaced(Nops(pad), rx)
  BY <1>1, NopsPlaced
<1>3. WellPlaced(words, rx + Len(Nops(pad)))
  BY <1>2
<1> QED  BY <1>1, <1>2, <1>3, PutBehind

\* Most instructions are known to be at a word that was written for them.
LEMMA EmitAlone ==
  ASSUME MovedInv, idx < count, NEW ins \in MovedInstruction, NEW words \in Seq(WrittenWord),
         Len(words) <= 9, WellPlaced(words, rx),
         NEW entry, NEW k \in 0 .. Len(words),
         entry = rx + k \/ entry = place.rw + Len(out),
         Emit(ins, words, entry, {})
  PROVE  MovedInv'
<1>1. rx = place.tramp + Len(out) /\ Len(out) \in Nat /\ place.tramp \in Int /\ place.rw \in Int
  BY Numbers DEF rx
<1>2. Len(words) \in Nat
  OBVIOUS
<1>3. entry \in Int /\ \/ entry - place.tramp \in 0 .. Len(out) + Len(words)
                       \/ entry - place.rw \in 0 .. Len(out) + Len(words)
  <2>1. CASE entry = rx + k
    <3>1. entry \in Int /\ entry - place.tramp = Len(out) + k /\ k \in Nat /\ k <= Len(words)
      BY <2>1, <1>1, <1>2
    <3>2. \A o, w, i \in Nat : i <= w => o + i \in 0 .. o + w
      OBVIOUS
    <3>3. entry - place.tramp \in 0 .. Len(out) + Len(words)
      BY <3>1, <3>2, <1>1, <1>2
    <3> QED  BY <3>1, <3>3, Zenon
  <2>2. CASE entry = place.rw + Len(out)
    <3>1. entry \in Int /\ entry - place.rw = Len(out)
      BY <2>2, <1>1
    <3>2. entry - place.rw \in 0 .. Len(out) + Len(words)
      BY <3>1, <1>1, <1>2
    <3> QED  BY <3>1, <3>2, Zenon
  <2> QED  BY <2>1, <2>2
<1> QED  BY <1>3, EmitKeeps

LEMMA EmitRelativeKeeps ==
  ASSUME MovedInv, idx < count, NEW ins \in MovedInstruction, NEW a \in Int,
         NEW op \in WordOps \ {"ldr17", "ldra", "lit"},
         is_in_fixing_range(a) => op \in Relative17,
         EmitRelative(ins, op, a)
  PROVE  MovedInv'
<1> DEFINE ref == a - place.base
           off == IF ~ is_in_fixing_range(a) THEN a - rx
                  ELSE IF ref < idx THEN dat[ref + 1] - rx ELSE 0
           w == Word(op, Field(off, FieldSpan(op)))
           later == IF is_in_fixing_range(a) /\ ref > idx THEN {ref} ELSE {}
<1>1. rx = place.tramp + Len(out) /\ Len(out) \in Nat /\ place.tramp \in Int /\ idx \in Nat /\ rx \in Int
  BY Numbers DEF rx
<1>2. off \in Int
  <2>1. place.base \in Int /\ count \in Int
    BY PlacesAreNumbers DEF MovedInv
  <2>2. ASSUME is_in_fixing_range(a), ref < idx  PROVE dat[ref + 1] \in Int
    <3>1. ref + 1 \in 1 .. Len(dat)
      <4>1. Len(dat) = idx
        BY DEF MovedInv
      <4>2. ref \in 0 .. count - 1
        BY <2>2 DEF is_in_fixing_range, Indices
      <4>3. ref \in Nat /\ ref < idx
        BY <2>1, <2>2, <4>2
      <4> HIDE DEF ref
      <4> QED  BY <1>1, <4>1, <4>3
    <3> QED  BY <3>1 DEF MovedInv
  <2> QED  BY <2>2, <1>1
<1>3. w \in WrittenWord /\ w.op = op
  BY <1>2, FieldIsInt, WordIs
<1>4. <<w>> \in Seq(WrittenWord) /\ Len(<<w>>) = 1 /\ <<w>>[1] = w /\ WellPlaced(<<w>>, rx)
  BY <1>1, <1>3, WordPlaced
<1>5. later \in SUBSET Indices /\ (later # {} => w.op \in Relative17)
  BY <1>3 DEF is_in_fixing_range
<1>6. Emit(ins, <<w>>, rx, later)
  BY DEF EmitRelative
<1>7. rx - place.tramp \in 0 .. Len(out) + Len(<<w>>)
  BY <1>1, <1>4
<1> HIDE DEF w, later
<1>8. Len(<<w>>) <= 9 /\ (later # {} => Len(<<w>>) = 1 /\ <<w>>[1].op \in Relative17)
  BY <1>4, <1>5
<1> QED  BY <1>1, <1>4, <1>5, <1>6, <1>7, <1>8, EmitKeeps

LEMMA InstructionsAreTyped ==
  ASSUME MovedInv, NEW ins \in InstructionsAt  PROVE ins \in MovedInstruction
<1>1. \A op \in InstructionOps, o \in Int : Word(op, Field(o, FieldSpan(op))) \in MovedInstruction
  BY FieldIsInt DEF Word, MovedInstruction
<1>2. CASE ins = Word("plain", 0) \/ ins = Word("prfm", 0)
  BY <1>2 DEF Word, MovedInstruction, InstructionOps
<1>3. CASE \E p \in {-1, 0, 1} : ins = Word("adrp", Field(p, PageSpan))
  <2>1. FieldSpan("adrp") = PageSpan /\ "adrp" \in InstructionOps
    BY DEF FieldSpan, Branches, Loads, InstructionOps
  <2> QED  BY <1>1, <1>3, <2>1
<1>4. ASSUME NEW op \in Branches \cup Conditionals \cup DOMAIN Loads \cup {"adr", "adru"},
             NEW o \in Reachable(op), ins = Word(op, Field(o, FieldSpan(op)))
      PROVE  ins \in MovedInstruction
  <2>1. op \in InstructionOps
    BY DEF Branches, Conditionals, Loads, InstructionOps
  <2>2. o \in Int
    BY SpansHold DEF Reachable
  <2> QED  BY <1>1, <1>4, <2>1, <2>2
<1>5. \A op \in DOMAIN Loads : FieldSpan(op) = LitSpan
  BY DEF FieldSpan, Branches, Loads
<1> QED  BY <1>2, <1>3, <1>4, <1>5 DEF InstructionsAt

-----------------------------------------------------------------------------
(* One lemma for each __fix_ function. *)
LEMMA FixBranch ==
  ASSUME MovedInv, idx < count, NEW ins \in MovedInstruction, __fix_branch_imm(ins)
  PROVE  MovedInv'
<1> DEFINE a == pc + Signed(ins.imm, BranchSpan)
           pad == IF ins.op = "b" THEN PadFor(2) ELSE PadForCall
           jump == IF ins.op = "b" THEN JumpTo(a) ELSE CallTo(a)
<1>1. a \in Int /\ rx \in Int /\ ins.op \in Branches
  <2>1. pc \in Int /\ rx \in Int
    BY Numbers
  <2>2. BranchSpan \in Nat /\ ins.imm \in Int
    BY RelocationConstants DEF MovedInstruction
  <2>3. Signed(ins.imm, BranchSpan) \in Int
    BY <2>2, SignedIsInt
  <2> QED  BY <2>1, <2>3 DEF __fix_branch_imm
<1>2. CASE OutOfReach(a, BranchSpan)
  <2>1. /\ pad \in 0 .. 1
        /\ jump \in Seq(WrittenWord) /\ Len(jump) \in 4 .. 5 /\ WellPlaced(jump, rx + pad)
    <3>1. CASE ins.op = "b"
      BY <3>1, <1>1, PadAligns, JumpPlaced
    <3>2. CASE ins.op # "b"
      BY <3>2, <1>1, PadAligns, CallPlaced DEF PadForCall
    <3> QED  BY <3>1, <3>2
  <2>2. Emit(ins, Nops(pad) \o jump, rx + pad, {})
    BY <1>2 DEF __fix_branch_imm
  <2> HIDE DEF pad, jump
  <2>3. /\ Nops(pad) \o jump \in Seq(WrittenWord) /\ Len(Nops(pad) \o jump) = pad + Len(jump)
        /\ WellPlaced(Nops(pad) \o jump, rx)
    BY <2>1, PaddedPlaced
  <2>4. Len(Nops(pad) \o jump) <= 9 /\ pad \in 0 .. Len(Nops(pad) \o jump)
    <3>1. \A i \in 0 .. 1, j \in 4 .. 5 : i + j <= 9 /\ i \in 0 .. i + j
      OBVIOUS
    <3> QED  BY <2>1, <2>3, <3>1, Zenon
  <2> QED  BY <2>2, <2>3, <2>4, EmitAlone
<1>3. CASE ~ OutOfReach(a, BranchSpan)
  <2>1. EmitRelative(ins, ins.op, a)
    BY <1>3 DEF __fix_branch_imm
  <2>2. ins.op \in WordOps \ {"ldr17", "ldra", "lit"} /\ ins.op \in Relative17
    BY <1>1 DEF WordOps, InstructionOps, Relative17, Branches
  <2> HIDE DEF a
  <2> QED  BY <1>1, <2>1, <2>2, EmitRelativeKeeps
<1> QED  BY <1>2, <1>3

LEMMA FixConditional ==
  ASSUME MovedInv, idx < count, NEW ins \in MovedInstruction, __fix_cond_comp_test_branch(ins)
  PROVE  MovedInv'
<1> DEFINE a == pc + ins.imm
           pad == PadFor(4)
           skip == <<Word(ins.op, 2), Word("b", 5)>>
<1>1. a \in Int /\ rx \in Int /\ ins.op \in Conditionals
  BY Numbers DEF MovedInstruction, __fix_cond_comp_test_branch
<1>2. ins.op \in WordOps \ {"ldr17", "ldra", "lit"} /\ ins.op \in Relative17
  BY <1>1 DEF WordOps, InstructionOps, Relative17, Conditionals
<1>3. CASE OutOfReach(a, FieldSpan(ins.op))
  <2>1. pad \in 0 .. 1 /\ (rx + pad + 4) % 2 = 0
    BY PadAligns
  <2>2. Emit(ins, Nops(pad) \o skip \o JumpTo(a), rx, {})
    BY <1>3 DEF __fix_cond_comp_test_branch
  <2>3. skip \in Seq(WrittenWord) /\ Len(skip) = 2 /\ WellPlaced(skip, rx + pad)
    <3>1. Word(ins.op, 2) \in WrittenWord /\ Word("b", 5) \in WrittenWord
      BY <1>2, WordIs, OpsThere
    <3>2. skip \in Seq(WrittenWord) /\ Len(skip) = 2
      BY <3>1
    <3>3. \A p \in 1 .. 2 : skip[p].op \notin {"ldr17", "ldra", "lit"}
      BY <1>2, WordIs, OpsThere
    <3> HIDE DEF skip
    <3> QED  BY <3>2, <3>3 DEF WellPlaced, AddressesAligned, CopiesAligned
  <2> HIDE DEF skip, pad, a
  <2> DEFINE front == Nops(pad) \o skip
  <2>4. front \in Seq(WrittenWord) /\ Len(front) = pad + 2 /\ WellPlaced(front, rx)
    <3>1. pad \in Nat
      BY <2>1
    <3> QED  BY <2>3, <3>1, PaddedPlaced
  <2>5. JumpTo(a) \in Seq(WrittenWord) /\ Len(JumpTo(a)) = 4 /\ WellPlaced(JumpTo(a), rx + Len(front))
    <3>1. rx + Len(front) \in Int /\ (rx + Len(front) + 2) % 2 = 0
      BY <1>1, <2>1, <2>4
    <3> QED  BY <3>1, <1>1, JumpPlaced
  <2> HIDE DEF front
  <2>6. /\ front \o JumpTo(a) \in Seq(WrittenWord) /\ Len(front \o JumpTo(a)) = pad + 6
        /\ WellPlaced(front \o JumpTo(a), rx)
    <3>1. /\ front \o JumpTo(a) \in Seq(WrittenWord) /\ WellPlaced(front \o JumpTo(a), rx)
          /\ Len(front \o JumpTo(a)) = Len(front) + Len(JumpTo(a))
      BY <1>1, <2>4, <2>5, PutBehind
    <3>2. Len(front) + Len(JumpTo(a)) = pad + 6
      BY <2>1, <2>4, <2>5
    <3> QED  BY <3>1, <3>2
  <2>7. Emit(ins, front \o JumpTo(a), rx + 0, {})
    BY <2>2, <1>1 DEF front
  <2>8. Len(front \o JumpTo(a)) <= 9 /\ 0 \in 0 .. Len(front \o JumpTo(a))
    BY <2>1, <2>6
  <2> QED  BY <2>6, <2>7, <2>8, EmitAlone
<1>4. CASE ~ OutOfReach(a, FieldSpan(ins.op))
  <2>1. EmitRelative(ins, ins.op, a)
    BY <1>4 DEF __fix_cond_comp_test_branch
  <2> HIDE DEF a
  <2> QED  BY <1>1, <1>2, <2>1, EmitRelativeKeeps
<1> QED  BY <1>3, <1>4

LEMMA FixPlain ==
  ASSUME MovedInv, idx < count, NEW ins \in MovedInstruction, CopyInstruction(ins)
  PROVE  MovedInv'
<1> DEFINE w == Word("plain", idx)
<1>1. rx \in Int /\ idx \in Int
  BY Numbers
<1>2. w \in WrittenWord /\ w.op = "plain"
  BY <1>1, WordIs, OpsThere
<1>3. Emit(ins, <<w>>, rx + 0, {})
  BY <1>1 DEF CopyInstruction
<1> HIDE DEF w
<1>4. <<w>> \in Seq(WrittenWord) /\ Len(<<w>>) = 1 /\ WellPlaced(<<w>>, rx)
  BY <1>1, <1>2, WordPlaced
<1>5. Len(<<w>>) <= 9 /\ 0 \in 0 .. Len(<<w>>)
  BY <1>4
<1> QED  BY <1>3, <1>4, <1>5, EmitAlone

LEMMA PaddedAddress ==
  ASSUME MovedInv, NEW a \in {"adr", "adru"} \X Int
  PROVE  LET words == Nops(PadFor(2)) \o LoadAddress(a) IN
         /\ words \in Seq(WrittenWord) /\ Len(words) = PadFor(2) + 4 /\ WellPlaced(words, rx)
<1>1. PadFor(2) \in 0 .. 1 /\ (rx + PadFor(2) + 2) % 2 = 0 /\ rx \in Int
  BY PadAligns, Numbers
<1>2. PadFor(2) \in Nat /\ rx + PadFor(2) \in Int
  BY <1>1
<1>3. /\ LoadAddress(a) \in Seq(WrittenWord) /\ Len(LoadAddress(a)) = 4
      /\ WellPlaced(LoadAddress(a), rx + PadFor(2))
  BY <1>1, <1>2, LoadAddressPlaced
<1> QED  BY <1>2, <1>3, PaddedPlaced

LEMMA FixAdr ==
  ASSUME MovedInv, idx < count, NEW ins \in MovedInstruction, __fix_pcreladdr(ins),
         ins.op \in {"adr", "adru"}
  PROVE  MovedInv'
<1> DEFINE a == pc + Unsigned(Signed(ins.imm, AdrSpan))
<1>1. a \in Int
  <2>1. AdrSpan \in Nat /\ ins.imm \in Int
    BY RelocationConstants DEF MovedInstruction
  <2>2. pc \in Int /\ Unsigned(Signed(ins.imm, AdrSpan)) \in Int
    BY <2>1, Numbers, SignedIsInt, UnsignedIsInt
  <2> QED  BY <2>2
<1>2. \/ Emit(ins, Nops(PadFor(2)) \o LoadAddress(<<ins.op, a>>), rx + PadFor(2), {})
      \/ EmitRelative(ins, AdrOf(ins.op, a), a)
  BY DEF __fix_pcreladdr
<1> HIDE DEF a
<1>3. CASE Emit(ins, Nops(PadFor(2)) \o LoadAddress(<<ins.op, a>>), rx + PadFor(2), {})
  <2> DEFINE words == Nops(PadFor(2)) \o LoadAddress(<<ins.op, a>>)
  <2>1. <<ins.op, a>> \in {"adr", "adru"} \X Int
    BY <1>1
  <2>2. words \in Seq(WrittenWord) /\ Len(words) = PadFor(2) + 4 /\ WellPlaced(words, rx)
    BY <2>1, PaddedAddress
  <2>3. PadFor(2) \in 0 .. 1
    BY PadAligns
  <2>4. Len(words) <= 9 /\ PadFor(2) \in 0 .. Len(words)
    BY <2>2, <2>3
  <2> HIDE DEF words
  <2>5. Emit(ins, words, rx + PadFor(2), {})
    BY <1>3 DEF words
  <2> QED  BY <2>2, <2>4, <2>5, EmitAlone
<1>4. CASE EmitRelative(ins, AdrOf(ins.op, a), a)
  <2>1. /\ AdrOf(ins.op, a) \in {"adr", "adru", "badreg"}
        /\ is_in_fixing_range(a) => AdrOf(ins.op, a) \in {"adr", "adru"}
    BY DEF AdrOf
  <2>2. /\ AdrOf(ins.op, a) \in WordOps \ {"ldr17", "ldra", "lit"}
        /\ is_in_fixing_range(a) => AdrOf(ins.op, a) \in Relative17
    BY <2>1 DEF WordOps, InstructionOps, Relative17, AddressOps
  <2> QED  BY <1>1, <1>4, <2>2, EmitRelativeKeeps
<1> QED  BY <1>2, <1>3, <1>4

LEMMA FixAdrp ==
  ASSUME MovedInv, idx < count, NEW ins \in MovedInstruction, __fix_pcreladdr(ins),
         ins.op = "adrp"
  PROVE  MovedInv'
<1> DEFINE a == Page(pc) + Unsigned(Signed(ins.imm, PageSpan) * PageSize)
           rw == place.rw + Len(out)
<1>1. a \in Int
  <2>1. PageSpan \in Nat /\ PageSize \in Nat \ {0} /\ ins.imm \in Int /\ pc \in Int
    BY RelocationConstants, Numbers DEF MovedInstruction
  <2>2. Page(pc) \in Int
    BY <2>1 DEF Page
  <2>3. Signed(ins.imm, PageSpan) \in Int
    BY <2>1, SignedIsInt
  <2> QED  BY <2>2, <2>3, PagesAreInt
<1>2. \/ Emit(ins, <<ins>>, rw, {})
      \/ Emit(ins, Nops(PadFor(2)) \o LoadAddress(<<"adr", a>>), IF PadFor(2) = 1 THEN rx + 1 ELSE rw, {})
  BY DEF __fix_pcreladdr
<1> HIDE DEF a
<1>3. CASE Emit(ins, <<ins>>, rw, {})
  <2>1. ins \in WrittenWord /\ ins.op \notin {"ldr17", "ldra", "lit"}
    BY DEF MovedInstruction, WrittenWord, WordOps
  <2>2. <<ins>> \in Seq(WrittenWord) /\ Len(<<ins>>) = 1 /\ WellPlaced(<<ins>>, rx)
    BY <2>1, WordPlaced, Numbers
  <2>3. Len(<<ins>>) <= 9 /\ 0 \in 0 .. Len(<<ins>>)
    BY <2>2
  <2> QED  BY <1>3, <2>2, <2>3, EmitAlone
<1>4. CASE Emit(ins, Nops(PadFor(2)) \o LoadAddress(<<"adr", a>>), IF PadFor(2) = 1 THEN rx + 1 ELSE rw, {})
  <2> DEFINE words == Nops(PadFor(2)) \o LoadAddress(<<"adr", a>>)
             entry == IF PadFor(2) = 1 THEN rx + 1 ELSE rw
  <2>1. <<"adr", a>> \in {"adr", "adru"} \X Int
    BY <1>1
  <2>2. words \in Seq(WrittenWord) /\ Len(words) = PadFor(2) + 4 /\ WellPlaced(words, rx)
    BY <2>1, PaddedAddress
  <2>3. PadFor(2) \in 0 .. 1
    BY PadAligns
  <2>4. Len(words) <= 9 /\ 1 \in 0 .. Len(words)
    BY <2>2, <2>3
  <2>5. entry = rx + 1 \/ entry = place.rw + Len(out)
    OBVIOUS
  <2>6. Emit(ins, words, entry, {})
    BY <1>4
  <2> HIDE DEF words, entry
  <2> QED  BY <2>2, <2>4, <2>5, <2>6, EmitAlone
<1> QED  BY <1>2, <1>3, <1>4

\* A load of a copied literal, a branch over the copy, and the copy.
LEMMA CopyPlaced ==
  ASSUME NEW op \in DOMAIN Loads, NEW a \in Int, NEW at \in Int, NEW n, n = Copied(op),
         (at + 2) % n = 0
  PROVE  LET words == <<Word(op, 2), Word("b", 1 + n)>> \o [k \in 1 .. n |-> Word("lit", a + k - 1)] IN
         words \in Seq(WrittenWord) /\ Len(words) = 2 + n /\ WellPlaced(words, at)
<1> DEFINE load == <<Word(op, 2), Word("b", 1 + n)>>
           copy == [k \in 1 .. n |-> Word("lit", a + k - 1)]
           words == load \o copy
<1>1. n \in {1, 2, 4} /\ op \in WordOps /\ op \notin {"lit", "ldr17", "ldra"}
  BY CopiedWords DEF Loads, WordOps, InstructionOps
<1>2. load \in Seq(WrittenWord) /\ Len(load) = 2 /\ load[1].op = op /\ load[2].op = "b"
  <2>1. Word(op, 2) \in WrittenWord /\ Word("b", 1 + n) \in WrittenWord
    BY <1>1, WordIs, OpsThere
  <2>2. Word(op, 2).op = op /\ Word("b", 1 + n).op = "b"
    BY <1>1, WordIs, OpsThere
  <2> QED  BY <2>1, <2>2
<1>3. copy \in Seq(WrittenWord) /\ Len(copy) = n /\ \A k \in 1 .. n : copy[k].op = "lit"
  <2>1. \A k \in 1 .. n : Word("lit", a + k - 1) \in WrittenWord /\ Word("lit", a + k - 1).op = "lit"
    BY <1>1, WordIs, OpsThere
  <2>2. copy \in [1 .. n -> WrittenWord] /\ n \in Nat
    BY <1>1, <2>1
  <2> QED  BY <2>1, <2>2, SeqDef
<1> HIDE DEF load, copy
<1>4. /\ words \in Seq(WrittenWord) /\ Len(words) = 2 + n
      /\ \A p \in 1 .. 2 + n : words[p] = IF p <= 2 THEN load[p] ELSE copy[p - 2]
  <2>1. /\ words \in Seq(WrittenWord) /\ Len(words) = Len(load) + Len(copy)
        /\ \A p \in 1 .. Len(load) + Len(copy) :
             words[p] = IF p <= Len(load) THEN load[p] ELSE copy[p - Len(load)]
    BY <1>2, <1>3, ConcatProperties
  <2> QED  BY <1>2, <1>3, <2>1
<1> HIDE DEF words
<1>5. /\ words[1].op = op /\ words[2].op = "b"
      /\ \A p \in 3 .. 2 + n : words[p].op = "lit"
  <2>1. n \in Nat /\ n >= 1
    BY <1>1
  <2>2. words[1] = load[1] /\ words[2] = load[2]
    BY <1>4, <2>1
  <2>3. \A p \in 3 .. 2 + n : p \in 1 .. 2 + n /\ ~ (p <= 2) /\ p - 2 \in 1 .. n
    BY <2>1
  <2>4. \A p \in 3 .. 2 + n : words[p] = copy[p - 2]
    BY <1>4, <2>3
  <2> QED  BY <1>2, <1>3, <2>2, <2>3, <2>4
<1>6. ASSUME NEW p \in 1 .. 2 + n  PROVE words[p].op \notin {"ldr17", "ldra"}
  BY <1>1, <1>5
<1>7. ASSUME NEW p \in 1 .. 2 + n, words[p].op = "lit"
      PROVE  p > 1 /\ (words[p - 1].op = "b" => p > 2 /\ (at + p - 1) % Copied(words[p - 2].op) = 0)
  <2>1. p >= 3
    BY <1>1, <1>5, <1>7
  <2>2. ASSUME words[p - 1].op = "b"  PROVE p = 3
    BY <1>1, <1>5, <2>1, <2>2
  <2>3. at + 3 - 1 = at + 2
    OBVIOUS
  <2>4. ASSUME words[p - 1].op = "b"  PROVE p > 2 /\ (at + p - 1) % Copied(words[p - 2].op) = 0
    <3>1. p = 3 /\ words[p - 2].op = op /\ at + p - 1 = at + 2
      BY <2>2, <2>3, <2>4, <1>5
    <3> QED  BY <3>1
  <2> QED  BY <2>1, <2>4
<1>8. WellPlaced(words, at)
  BY <1>4, <1>6, <1>7 DEF WellPlaced, AddressesAligned, CopiesAligned
<1> QED  BY <1>4, <1>8 DEF words, load, copy

LEMMA FixPrefetch ==
  ASSUME MovedInv, idx < count, NEW ins \in MovedInstruction, Emit(ins, <<>>, rx, {})
  PROVE  MovedInv'
<1>1. <<>> \in Seq(WrittenWord) /\ Len(<<>>) = 0 /\ rx \in Int
  BY Numbers
<1>2. WellPlaced(<<>>, rx) /\ rx = rx + 0 /\ 0 \in 0 .. Len(<<>>) /\ Len(<<>>) <= 9
  BY <1>1 DEF WellPlaced, AddressesAligned, CopiesAligned
<1> QED  BY <1>1, <1>2, EmitAlone

LEMMA FixLoad ==
  ASSUME MovedInv, idx < count, NEW ins \in MovedInstruction, __fix_loadlit(ins),
         ins.op \in DOMAIN Loads
  PROVE  MovedInv'
<1> DEFINE a == pc + Unsigned(Signed(ins.imm, LitSpan))
           n == Copied(ins.op)
           copy == CopiesLiteral(ins.op, a, rx)
           pad == IF copy THEN (- rx - 2) % n ELSE (a - rx) % n
           off == a - (rx + pad)
           front == <<Word(ins.op, 2), Word("b", 1 + n)>>
           lits == [k \in 1 .. n |-> Word("lit", a + k - 1)]
           w == Word(Resized(ins.op, off), Field(off, LitSpan))
<1>1. a \in Int /\ rx \in Int /\ n \in {1, 2, 4}
  <2>1. LitSpan \in Nat /\ ins.imm \in Int
    BY RelocationConstants DEF MovedInstruction
  <2>2. pc \in Int /\ rx \in Int /\ Unsigned(Signed(ins.imm, LitSpan)) \in Int
    BY <2>1, Numbers, SignedIsInt, UnsignedIsInt
  <2>3. n \in {1, 2, 4}
    BY CopiedWords
  <2> QED  BY <2>2, <2>3
<1>2. Emit(ins, Nops(pad) \o (IF copy THEN front \o lits ELSE <<w>>), rx + pad, {})
  <2>1. ins.op # "prfm"
    BY DEF Loads
  <2> QED  BY <2>1 DEF __fix_loadlit
<1>3. pad \in 0 .. 3 /\ (copy => (rx + pad + 2) % n = 0)
  <2>1. \A r, b \in Int : /\ (- r - 2) % 1 \in 0 .. 3 /\ (- r - 2) % 2 \in 0 .. 3 /\ (- r - 2) % 4 \in 0 .. 3
                          /\ (b - r) % 1 \in 0 .. 3 /\ (b - r) % 2 \in 0 .. 3 /\ (b - r) % 4 \in 0 .. 3
    OBVIOUS
  <2>2. \A r \in Int : /\ (r + ((- r - 2) % 1) + 2) % 1 = 0 /\ (r + ((- r - 2) % 2) + 2) % 2 = 0
                       /\ (r + ((- r - 2) % 4) + 2) % 4 = 0
    OBVIOUS
  <2> DEFINE m == - rx - 2
             d == a - rx
  <2>3. /\ m % 1 \in 0 .. 3 /\ m % 2 \in 0 .. 3 /\ m % 4 \in 0 .. 3
        /\ d % 1 \in 0 .. 3 /\ d % 2 \in 0 .. 3 /\ d % 4 \in 0 .. 3
    BY <1>1, <2>1
  <2>4. (rx + (m % 1) + 2) % 1 = 0 /\ (rx + (m % 2) + 2) % 2 = 0 /\ (rx + (m % 4) + 2) % 4 = 0
    BY <1>1, <2>2
  <2>5. (pad = m % n \/ pad = d % n) /\ (copy => pad = m % n)
    OBVIOUS
  <2> HIDE DEF m, d, pad, copy, n
  <2>6. CASE n = 1
    <3>1. (pad = m % 1 \/ pad = d % 1) /\ (copy => pad = m % 1)
      BY <2>5, <2>6
    <3>2. pad \in 0 .. 3
      BY <2>3, <3>1
    <3>3. ASSUME copy  PROVE (rx + pad + 2) % n = 0
      <4>1. pad = m % 1
        BY <3>1, <3>3
      <4> QED  BY <2>4, <2>6, <4>1, Zenon
    <3> QED  BY <3>2, <3>3
  <2>7. CASE n = 2
    <3>1. (pad = m % 2 \/ pad = d % 2) /\ (copy => pad = m % 2)
      BY <2>5, <2>7
    <3>2. pad \in 0 .. 3
      BY <2>3, <3>1
    <3>3. ASSUME copy  PROVE (rx + pad + 2) % n = 0
      <4>1. pad = m % 2
        BY <3>1, <3>3
      <4> QED  BY <2>4, <2>7, <4>1, Zenon
    <3> QED  BY <3>2, <3>3
  <2>8. CASE n = 4
    <3>1. (pad = m % 4 \/ pad = d % 4) /\ (copy => pad = m % 4)
      BY <2>5, <2>8
    <3>2. pad \in 0 .. 3
      BY <2>3, <3>1
    <3>3. ASSUME copy  PROVE (rx + pad + 2) % n = 0
      <4>1. pad = m % 4
        BY <3>1, <3>3
      <4> QED  BY <2>4, <2>8, <4>1, Zenon
    <3> QED  BY <3>2, <3>3
  <2> QED  BY <1>1, <2>6, <2>7, <2>8
<1>4. w \in WrittenWord /\ w.op \notin {"ldr17", "ldra", "lit"}
  <2>1. off \in Int
    BY <1>1, <1>3
  <2>2. Field(off, LitSpan) \in Int
    BY <2>1, RelocationConstants DEF Field
  <2>3. Resized(ins.op, off) \in WordOps \ {"ldr17", "ldra", "lit"}
    BY DEF Resized, Loads, WordOps, InstructionOps
  <2> QED  BY <2>2, <2>3, WordIs
<1> HIDE DEF pad, copy, w, a
<1> DEFINE tail == IF copy THEN front \o lits ELSE <<w>>
<1>5. tail \in Seq(WrittenWord) /\ Len(tail) \in 1 .. 6 /\ WellPlaced(tail, rx + pad)
  <2>1. rx + pad \in Int
    BY <1>1, <1>3
  <2>2. CASE copy
    <3>1. (rx + pad + 2) % n = 0
      BY <1>3, <2>2
    <3>2. front \o lits \in Seq(WrittenWord) /\ Len(front \o lits) = 2 + n /\ WellPlaced(front \o lits, rx + pad)
      BY <1>1, <2>1, <3>1, CopyPlaced
    <3> HIDE DEF front, lits
    <3> QED  BY <1>1, <2>2, <3>2
  <2>3. CASE ~ copy
    <3>1. <<w>> \in Seq(WrittenWord) /\ Len(<<w>>) = 1 /\ WellPlaced(<<w>>, rx + pad)
      BY <1>4, <2>1, WordPlaced
    <3> QED  BY <2>3, <3>1
  <2> QED  BY <2>2, <2>3
<1> HIDE DEF tail
<1>6. /\ Nops(pad) \o tail \in Seq(WrittenWord) /\ Len(Nops(pad) \o tail) = pad + Len(tail)
      /\ WellPlaced(Nops(pad) \o tail, rx)
  <2>1. pad \in Nat
    BY <1>3
  <2> QED  BY <1>5, <2>1, PaddedPlaced
<1>7. Len(Nops(pad) \o tail) <= 9 /\ pad \in 0 .. Len(Nops(pad) \o tail)
  <2>1. \A i \in 0 .. 3, j \in 1 .. 6 : i + j <= 9 /\ i \in 0 .. i + j
    OBVIOUS
  <2> QED  BY <1>3, <1>5, <1>6, <2>1, Zenon
<1>8. Emit(ins, Nops(pad) \o tail, rx + pad, {})
  BY <1>2 DEF tail
<1> QED  BY <1>6, <1>7, <1>8, EmitAlone

\* The jump behind the last instruction takes the five words that are left.
LEMMA JumpBehindKeeps ==
  ASSUME MovedInv, JumpBehind
  PROVE  MovedInv'
<1> DEFINE callback == place.base + count
           words == IF Distance(callback, rx) >= BranchSpan \div 2 - 1
                    THEN Nops(PadFor(2)) \o JumpTo(callback)
                    ELSE <<Word("b", Field(callback - rx, BranchSpan))>>
<1>1. /\ callback \in Int /\ rx \in Int /\ idx \in Nat /\ Len(out) \in Nat /\ place.tramp \in Int
      /\ count \in 1 .. 5
  <2>1. place.base \in Nat /\ count \in 1 .. 5
    BY PlacesAreNumbers DEF MovedInv
  <2> QED  BY <2>1, Numbers
<1>2. words \in Seq(WrittenWord) /\ Len(words) \in 0 .. 5 /\ WellPlaced(words, rx)
  <2>1. /\ Nops(PadFor(2)) \o JumpTo(callback) \in Seq(WrittenWord)
        /\ Len(Nops(PadFor(2)) \o JumpTo(callback)) \in 0 .. 5
        /\ WellPlaced(Nops(PadFor(2)) \o JumpTo(callback), rx)
    <3>1. PadFor(2) \in 0 .. 1 /\ (rx + PadFor(2) + 2) % 2 = 0
      BY PadAligns
    <3>2. PadFor(2) \in Nat /\ rx + PadFor(2) \in Int
      BY <1>1, <3>1
    <3>3. /\ JumpTo(callback) \in Seq(WrittenWord) /\ Len(JumpTo(callback)) = 4
          /\ WellPlaced(JumpTo(callback), rx + PadFor(2))
      BY <1>1, <3>1, <3>2, JumpPlaced
    <3> HIDE DEF callback
    <3>4. /\ Nops(PadFor(2)) \o JumpTo(callback) \in Seq(WrittenWord)
          /\ Len(Nops(PadFor(2)) \o JumpTo(callback)) = PadFor(2) + Len(JumpTo(callback))
          /\ WellPlaced(Nops(PadFor(2)) \o JumpTo(callback), rx)
      BY <3>2, <3>3, PaddedPlaced
    <3>5. \A i \in 0 .. 1 : i + 4 \in 0 .. 5
      OBVIOUS
    <3> QED  BY <3>1, <3>3, <3>4, <3>5, Zenon
  <2>2. /\ <<Word("b", Field(callback - rx, BranchSpan))>> \in Seq(WrittenWord)
        /\ Len(<<Word("b", Field(callback - rx, BranchSpan))>>) \in 0 .. 5
        /\ WellPlaced(<<Word("b", Field(callback - rx, BranchSpan))>>, rx)
    <3> DEFINE w == Word("b", Field(callback - rx, BranchSpan))
    <3>1. callback - rx \in Int /\ FieldSpan("b") = BranchSpan
      <4>1. callback - rx \in Int
        BY <1>1
      <4>2. FieldSpan("b") = BranchSpan
        BY DEF FieldSpan, Branches, Loads
      <4> QED  BY <4>1, <4>2
    <3>2. Field(callback - rx, BranchSpan) \in Int
      BY <3>1, FieldIsInt
    <3>3. w \in WrittenWord /\ w.op = "b"
      BY <3>2, WordIs, OpsThere
    <3> HIDE DEF w
    <3>4. <<w>> \in Seq(WrittenWord) /\ Len(<<w>>) = 1 /\ WellPlaced(<<w>>, rx)
      BY <1>1, <3>3, WordPlaced
    <3>5. Len(<<w>>) \in 0 .. 5
      BY <3>4
    <3> QED  BY <3>4, <3>5, Zenon DEF w
  <2> QED  BY <2>1, <2>2
<1>3. /\ out' = out \o words /\ done' = TRUE /\ ~ done /\ idx = count
      /\ UNCHANGED <<place, code, dat, fmap>>
  BY DEF JumpBehind
<1> HIDE DEF words
<1>4. /\ out' \in Seq(WrittenWord) /\ Len(out') = Len(out) + Len(words)
      /\ \A p \in 1 .. Len(out) : out'[p] = out[p]
      /\ WellPlaced(out', place.tramp)
  <2>1. WellPlaced(words, place.tramp + Len(out)) /\ out \in Seq(WrittenWord) /\ WellPlaced(out, place.tramp)
    BY <1>2 DEF rx, MovedInv
  <2> QED  BY <1>1, <1>2, <1>3, <2>1, PutBehind
<1>5. place' = place /\ idx' = idx /\ count' = count
  BY <1>3 DEF idx, count
<1>6. Len(words) \in Nat /\ Len(words) <= 5 /\ Len(out') \in Nat /\ Len(out) <= Len(out')
  <2>1. \A i \in 0 .. 5 : i \in Nat /\ i <= 5
    OBVIOUS
  <2>2. Len(words) \in Nat /\ Len(words) <= 5
    BY <1>2, <2>1, Zenon
  <2> QED  BY <1>1, <1>4, <2>2
<1>7. Len(out') <= 9 * idx' + (IF done' THEN 5 ELSE 0)
  <2>1. Len(out) <= 9 * idx
    BY <1>1, <1>3 DEF MovedInv
  <2> QED  BY <1>1, <1>3, <1>4, <1>5, <1>6, <2>1
<1>8. dat' \in Seq(Int) /\ Len(dat') = idx'
      /\ \A i \in 1 .. Len(dat') : \/ dat'[i] - place'.tramp \in 0 .. Len(out')
                                 \/ dat'[i] - place'.rw \in 0 .. Len(out')
  <2>1. dat' = dat /\ dat \in Seq(Int) /\ Len(dat) = idx
    BY <1>3 DEF MovedInv
  <2>2. \A i \in 1 .. Len(dat) : \/ dat[i] - place.tramp \in 0 .. Len(out)
                                \/ dat[i] - place.rw \in 0 .. Len(out)
    BY DEF MovedInv
  <2>3. 0 .. Len(out) \subseteq 0 .. Len(out')
    BY <1>1, <1>6
  <2> QED  BY <1>5, <2>1, <2>2, <2>3
<1>9. WordsWait'
  <2>1. 1 .. Len(out) \subseteq 1 .. Len(out') /\ fmap' = fmap
    BY <1>1, <1>3, <1>6
  <2>2. /\ fmap \in [0 .. 4 -> SUBSET (1 .. Len(out))]
        /\ \A i \in 0 .. 4 : /\ fmap[i] # {} => i < count
                            /\ \A p \in fmap[i] : out[p].op \in Relative17
    BY DEF MovedInv, WordsWait
  <2>3. fmap \in [0 .. 4 -> SUBSET (1 .. Len(out'))]
    BY <2>1, <2>2
  <2>4. \A i \in 0 .. 4 : \A p \in fmap[i] : out'[p] = out[p]
    BY <1>4, <2>2
  <2> QED  BY <1>5, <2>1, <2>2, <2>3, <2>4 DEF WordsWait
<1>10. /\ place' \in Placements /\ done' \in BOOLEAN /\ code' \in Seq(MovedInstruction)
       /\ idx' <= count' /\ (done' => idx' = count')
  BY <1>1, <1>3, <1>5 DEF MovedInv
<1> QED  BY <1>4, <1>5, <1>7, <1>8, <1>9, <1>10 DEF MovedInv

LEMMA InitMoved == MovingInit => MovedInv
<1> SUFFICES ASSUME MovingInit  PROVE MovedInv
  OBVIOUS
<1>1. place \in Placements /\ code = <<>> /\ out = <<>> /\ dat = <<>> /\ done = FALSE
      /\ fmap = [i \in 0 .. 4 |-> {}]
  BY DEF MovingInit
<1>2. count \in 1 .. 5 /\ idx = 0
  BY <1>1, PlacesAreNumbers DEF idx
<1>3. WellPlaced(out, place.tramp)
  BY <1>1 DEF WellPlaced, AddressesAligned, CopiesAligned
<1>4. WordsWait
  <2>1. Len(out) = 0 /\ \A i \in 0 .. 4 : fmap[i] = {}
    BY <1>1
  <2>2. fmap \in [0 .. 4 -> SUBSET (1 .. Len(out))]
    BY <1>1
  <2> QED  BY <2>1, <2>2 DEF WordsWait
<1>5. /\ code \in Seq(MovedInstruction) /\ out \in Seq(WrittenWord) /\ dat \in Seq(Int)
      /\ Len(dat) = 0 /\ Len(out) = 0
  BY <1>1
<1>6. idx <= count /\ (done => idx = count) /\ Len(out) <= 9 * idx + (IF done THEN 5 ELSE 0)
  BY <1>1, <1>2, <1>5
<1>7. \A i \in 1 .. Len(dat) :
        dat[i] - place.tramp \in 0 .. Len(out) \/ dat[i] - place.rw \in 0 .. Len(out)
  BY <1>5
<1>8. place \in Placements /\ done \in BOOLEAN /\ Len(dat) = idx
  BY <1>1, <1>2, <1>5
<1> QED  BY <1>3, <1>4, <1>5, <1>6, <1>7, <1>8, Zenon DEF MovedInv

LEMMA StepMoved == MovedInv /\ [MovingNext]_movingVars => MovedInv'
<1> SUFFICES ASSUME MovedInv, [MovingNext]_movingVars  PROVE MovedInv'
  OBVIOUS
<1>1. CASE FixNext
  <2>1. PICK ins \in InstructionsAt :
          \/ __fix_branch_imm(ins) \/ __fix_cond_comp_test_branch(ins)
          \/ __fix_loadlit(ins) \/ __fix_pcreladdr(ins) \/ CopyInstruction(ins)
    BY <1>1 DEF FixNext
  <2>2. ins \in MovedInstruction /\ idx < count
    BY <1>1, <2>1, InstructionsAreTyped DEF FixNext
  <2>3. CASE __fix_branch_imm(ins)
    BY <2>2, <2>3, FixBranch
  <2>4. CASE __fix_cond_comp_test_branch(ins)
    BY <2>2, <2>4, FixConditional
  <2>5. CASE __fix_loadlit(ins)
    <3>1. ins.op \in DOMAIN Loads \/ Emit(ins, <<>>, rx, {})
      BY <2>5 DEF __fix_loadlit
    <3> QED  BY <2>2, <2>5, <3>1, FixLoad, FixPrefetch
  <2>6. CASE __fix_pcreladdr(ins)
    <3>1. ins.op \in {"adr", "adru"} \/ ins.op = "adrp"
      BY <2>6 DEF __fix_pcreladdr
    <3> QED  BY <2>2, <2>6, <3>1, FixAdr, FixAdrp
  <2>7. CASE CopyInstruction(ins)
    BY <2>2, <2>7, FixPlain
  <2> QED  BY <2>1, <2>3, <2>4, <2>5, <2>6, <2>7
<1>2. CASE JumpBehind
  BY <1>2, JumpBehindKeeps
<1>3. CASE UNCHANGED movingVars
  BY <1>3 DEF movingVars, MovedInv, WordsWait, idx, count
<1> QED  BY <1>1, <1>2, <1>3 DEF MovingNext

LEMMA MovedIsWhole == MovedInv => TrampolineWhole
<1> SUFFICES ASSUME MovedInv  PROVE TrampolineWhole
  OBVIOUS
<1>1. count \in 1 .. 5 /\ idx \in Nat /\ Len(out) \in Nat
  <2>1. count \in 1 .. 5
    BY PlacesAreNumbers DEF MovedInv
  <2> QED  BY <2>1, Numbers
<1>2. TypeOK
  <2>1. DOMAIN dat = 1 .. Len(dat) /\ DOMAIN fmap = 0 .. 4
    BY DEF MovedInv, WordsWait
  <2>2. \A i \in DOMAIN fmap : fmap[i] \subseteq 1 .. Len(out) /\ (fmap[i] # {} => i < count)
    BY <2>1 DEF MovedInv, WordsWait
  <2> QED  BY <2>1, <2>2 DEF TypeOK, MovedInv
<1>3. Fits
  <2>1. Len(out) <= 9 * idx + 5
    BY <1>1 DEF MovedInv
  <2>2. idx <= 5
    BY <1>1 DEF MovedInv
  <2> QED  BY <1>1, <2>1, <2>2 DEF Fits, TrampolineWords
<1>4. LiteralsAligned
  <2>1. \A p \in 1 .. Len(out) : out[p].op \in {"ldr17", "ldra"} => (place.tramp + p - 1 + out[p].imm) % 2 = 0
    BY DEF MovedInv, WellPlaced, AddressesAligned
  <2>2. \A p \in 1 .. Len(out) : p > 2 /\ out[p].op = "lit" /\ out[p - 1].op = "b"
          => (place.tramp + p - 1) % Copied(out[p - 2].op) = 0
    BY DEF MovedInv, WellPlaced, CopiesAligned
  <2> QED  BY <2>1, <2>2 DEF LiteralsAligned
<1> QED  BY <1>2, <1>3, <1>4 DEF TrampolineWhole

(***************************************************************************)
(* However an instruction has to be rewritten and wherever the trampoline  *)
(* is, a trampoline never outgrows its fifty words, and what its words     *)
(* load is aligned to what they load.                                      *)
(***************************************************************************)
THEOREM TrampolineStaysWhole == MovingSpec => []TrampolineWhole
BY InitMoved, StepMoved, MovedIsWhole, PTL DEF MovingSpec

-----------------------------------------------------------------------------
(***************************************************************************)
(* Relocation: the function is kept.  Each instruction has a block of      *)
(* words: no-ops up to the word it is entered at, and from there one of a  *)
(* few forms.                                                              *)
(***************************************************************************)
Referrers == Branches \cup Conditionals \cup {"adr", "adru"}

\* What instruction j refers to as the code reads it: all but branches without their sign.
AsReadBy(ins, j) ==
  LET offset == Signed(ins.imm, FieldSpan(ins.op)) IN
  IF ins.op \in Conditionals THEN place.base + j + ins.imm
  ELSE IF ins.op \in DOMAIN Loads \cup {"adr", "adru"} THEN place.base + j + Unsigned(offset)
  ELSE IF ins.op = "adrp" THEN Page(place.base + j) + Unsigned(offset * PageSize)
  ELSE RefersTo(ins, place.base + j)

\* The compiler's part: references to the places that Offsets gives and to the pages around,
\* within their fields, and literals that do not run into the function.
Compiled(ins, j) ==
  LET a == RefersTo(ins, place.base + j) IN
  /\ ins.op \in Referrers \cup DOMAIN Loads =>
       a - place.base \in Offsets /\ ins.imm < FieldSpan(ins.op)
  /\ ins.op \in DOMAIN Loads /\ a < place.base => a + Loads[ins.op] <= place.base
  /\ ins.op = "adrp" => Signed(ins.imm, PageSpan) \in {-1, 0, 1}

(***************************************************************************)
(* The n words v, from address e on and behind pad no-ops, that stand for  *)
(* instruction j.  Where a relative word inside the function goes is       *)
(* Linked's subject.                                                       *)
(***************************************************************************)
PlainForm(ins, j, n, v) == ins.op = "plain" /\ n = 1 /\ v[0] = Word("plain", j)

NearForm(ins, a, pad, n, e, v) ==
  /\ ins.op \in Referrers /\ pad = 0 /\ n = 1
  /\ v[0].op = AdrOf(ins.op, a)
  /\ ~ is_in_fixing_range(a) /\ ins.op # "adru" => Signed(v[0].imm, FieldSpan(ins.op)) = a - e

JumpForm(ins, a, n, v) ==
  /\ ins.op = "b" /\ ~ is_in_fixing_range(a) /\ n = 4
  /\ v[0] = Word("ldr17", 2) /\ v[1] = Word("br17", 0) /\ v[2] = Word("addr", a)

CallForm(ins, a, n, v) ==
  /\ ins.op = "bl" /\ ~ is_in_fixing_range(a) /\ n = 5
  /\ v[0] = Word("ldr17", 3) /\ v[1] = Word("adr30", 4) /\ v[3] = Word("addr", a)

SkipForm(ins, a, n, v) ==
  /\ ins.op \in Conditionals /\ ~ is_in_fixing_range(a) /\ n = 6
  /\ v[0] = Word(ins.op, 2) /\ v[1] = Word("b", 5)
  /\ v[2] = Word("ldr17", 2) /\ v[4] = Word("addr", a)

AddressForm(ins, a, n, v) ==
  /\ ins.op \in AddressOps /\ ~ is_in_fixing_range(a) /\ n = 4
  /\ v[0] = Word("ldra", 2) /\ v[1] = Word("b", 3)
  /\ v[2] = Word("addr", <<IF ins.op = "adrp" THEN "adr" ELSE ins.op, a>>)

PageForm(ins, a, n, v) ==
  ins.op = "adrp" /\ is_in_fixing_range(a) /\ n = 1 /\ v[0].op = "adrp"

CopyForm(ins, a, pad, n, e, v) ==
  /\ ins.op \in DOMAIN Loads /\ CopiesLiteral(ins.op, a, e - pad)
  /\ n = 2 + Copied(ins.op)
  /\ v[0] = Word(ins.op, 2) /\ v[1] = Word("b", 1 + Copied(ins.op))
  /\ \A k \in 1 .. Copied(ins.op) : v[1 + k] = Word("lit", a + k - 1)

LoadForm(ins, a, pad, n, e, v) ==
  /\ ins.op \in DOMAIN Loads /\ ~ CopiesLiteral(ins.op, a, e - pad)
  /\ pad \in 0 .. Copied(ins.op) - 1 /\ n = 1
  /\ v[0].op = Resized(ins.op, a - e) /\ Signed(v[0].imm, LitSpan) = a - e

Formed(ins, j, pad, n, e, v) ==
  LET a == AsReadBy(ins, j) IN
  \/ PlainForm(ins, j, n, v) \/ NearForm(ins, a, pad, n, e, v)
  \/ JumpForm(ins, a, n, v) \/ CallForm(ins, a, n, v) \/ SkipForm(ins, a, n, v)
  \/ AddressForm(ins, a, n, v) \/ PageForm(ins, a, n, v)
  \/ CopyForm(ins, a, pad, n, e, v) \/ LoadForm(ins, a, pad, n, e, v)

\* The block of instruction j ends where the next one begins.
Behind(j) == IF j + 1 < Len(start) THEN start[j + 2] ELSE place.tramp + Len(out)

WordsFrom(e, n) == [k \in 0 .. n - 1 |-> At(e + k)]

Padding(j, e) == \A t \in start[j + 1] .. e - 1 : At(t).op = "nop"

\* Instruction j is entered at e.
EnteredAt(j, e) ==
  /\ e \in start[j + 1] .. Behind(j) - 1 /\ Padding(j, e)
  /\ Formed(code[j + 1], j, e - start[j + 1], Behind(j) - e, e, WordsFrom(e, Behind(j) - e))
  /\ code[j + 1].op # "adrp" => dat[j + 1] \in start[j + 1] .. e

Block(j) ==
  IF code[j + 1].op = "prfm" THEN Behind(j) = start[j + 1] /\ dat[j + 1] = start[j + 1]
  ELSE \E e \in start[j + 1] .. Behind(j) - 1 : EnteredAt(j, e)

\* Instruction j refers to instruction r, which is moved too.
Refers(j, r) == code[j + 1].op \in Referrers /\ AsReadBy(code[j + 1], j) = place.base + r

\* A word that refers to an instruction has its place, or waits for it.
Linked(j) ==
  \A r \in Indices :
    Refers(j, r) =>
      IF r < idx
      THEN At(start[j + 1]).imm = Field(dat[r + 1] - start[j + 1], FieldSpan(code[j + 1].op))
      ELSE start[j + 1] - place.tramp + 1 \in fmap[r]

OnlyReferrersWait ==
  \A r \in 0 .. 4 : r >= idx =>
    \A p \in fmap[r] : \E j \in 0 .. idx - 1 : start[j + 1] = place.tramp + p - 1 /\ Refers(j, r)

\* The jump behind the instructions is entered at e.
JumpsBackAt(e) ==
  LET s == start[count + 1]
      n == place.tramp + Len(out) - e
      a == place.base + count IN
  /\ e \in s .. s + 1 /\ e < place.tramp + Len(out) /\ Padding(count, e)
  /\ \/ n = 1 /\ At(e).op = "b" /\ Signed(At(e).imm, BranchSpan) = a - e
     \/ /\ n = 4 /\ At(e) = Word("ldr17", 2) /\ At(e + 1) = Word("br17", 0)
        /\ At(e + 2) = Word("addr", a)

BlocksFollow ==
  /\ start \in Seq(Int) /\ Len(start) = idx + (IF done THEN 1 ELSE 0)
  /\ \A j \in 0 .. Len(start) - 1 : /\ place.tramp <= start[j + 1] /\ start[j + 1] <= Behind(j)
                                    /\ Behind(j) <= place.tramp + Len(out)
  /\ \A j, k \in 0 .. Len(start) - 1 : j < k => Behind(j) <= start[k + 1]

KeptInv ==
  /\ BlocksFollow
  /\ \A j \in 0 .. idx - 1 : Compiled(code[j + 1], j) /\ Block(j) /\ Linked(j)
  /\ OnlyReferrersWait
  /\ done => \E e \in start[count + 1] .. start[count + 1] + 1 : JumpsBackAt(e)

LEMMA DivUnique ==
  ASSUME NEW n \in Nat \ {0}, NEW q \in Int, NEW r \in 0 .. n - 1
  PROVE  (n * q + r) \div n = q /\ (n * q + r) % n = r
OBVIOUS

\* What a field can hold is read back.
LEMMA RoundTrip ==
  ASSUME NEW span \in Nat \ {0}, span % 2 = 0, NEW v \in Int, - (span \div 2) <= v, v < span \div 2
  PROVE  Signed(Field(v, span), span) = v
<1>1. PICK h \in Nat : span = 2 * h /\ span \div 2 = h
  <2>1. span \div 2 \in Nat /\ span = 2 * (span \div 2) + (span % 2)
    OBVIOUS
  <2> QED  BY <2>1
<1>2. CASE v >= 0
  <2>1. span * 0 = 0 /\ v \in 0 .. span - 1
    BY <1>1, <1>2
  <2>2. (span * 0 + v) % span = v
    BY <2>1, DivUnique
  <2>3. v % span = v
    BY <2>1, <2>2
  <2> QED  BY <1>1, <2>3 DEF Field, Signed
<1>3. CASE v < 0
  <2>1. span + v \in 0 .. span - 1 /\ span * (-1) = - span
    BY <1>1, <1>3
  <2>2. (span * (-1) + (span + v)) % span = span + v
    BY <2>1, DivUnique
  <2>3. span * (-1) + (span + v) = v
    BY <2>1
  <2>4. v % span = span + v
    BY <2>2, <2>3
  <2> QED  BY <1>1, <1>3, <2>4 DEF Field, Signed
<1> QED  BY <1>2, <1>3

LEMMA EvenSpans ==
  \A op \in InstructionOps \ {"adrp"} :
    /\ FieldSpan(op) \in Nat \ {0} /\ FieldSpan(op) % 2 = 0
    /\ FieldSpan(op) >= 2 * TrampolineWords
BY SpansHold, RelocationPlaces DEF FieldSpan, Branches, InstructionOps, Loads

\* What holds of an instruction in any state depends on where the function is, not on
\* what has been written.
LEMMA SameForm ==
  ASSUME place' = place
  PROVE  /\ count' = count /\ Indices' = Indices
         /\ \A a : is_in_fixing_range(a)' = is_in_fixing_range(a)
         /\ \A ins, j : AsReadBy(ins, j)' = AsReadBy(ins, j)
         /\ \A ins, j : Compiled(ins, j)' = Compiled(ins, j)
<1>1. count' = count /\ Indices' = Indices
  BY DEF count, Indices
<1>2. \A a : is_in_fixing_range(a)' = is_in_fixing_range(a)
  BY <1>1 DEF is_in_fixing_range
<1> QED  BY <1>1, <1>2 DEF AsReadBy, Compiled

LEMMA FormStays ==
  ASSUME place' = place, NEW ins, NEW j, NEW pad, NEW n, NEW e, NEW v
  PROVE  Formed(ins, j, pad, n, e, v)' = Formed(ins, j, pad, n, e, v)
<1> DEFINE a == AsReadBy(ins, j)
<1>1. /\ a' = a
      /\ \A b : is_in_fixing_range(b)' = is_in_fixing_range(b)
      /\ \A op, x, y : CopiesLiteral(op, x, y)' = CopiesLiteral(op, x, y)
      /\ \A op, x : AdrOf(op, x)' = AdrOf(op, x)
  BY SameForm DEF CopiesLiteral, AdrOf
<1>2. /\ PlainForm(ins, j, n, v)' = PlainForm(ins, j, n, v)
      /\ \A b : /\ NearForm(ins, b, pad, n, e, v)' = NearForm(ins, b, pad, n, e, v)
                /\ JumpForm(ins, b, n, v)' = JumpForm(ins, b, n, v)
                /\ CallForm(ins, b, n, v)' = CallForm(ins, b, n, v)
                /\ SkipForm(ins, b, n, v)' = SkipForm(ins, b, n, v)
                /\ AddressForm(ins, b, n, v)' = AddressForm(ins, b, n, v)
                /\ PageForm(ins, b, n, v)' = PageForm(ins, b, n, v)
                /\ CopyForm(ins, b, pad, n, e, v)' = CopyForm(ins, b, pad, n, e, v)
                /\ LoadForm(ins, b, pad, n, e, v)' = LoadForm(ins, b, pad, n, e, v)
  BY <1>1 DEF PlainForm, NearForm, JumpForm, CallForm, SkipForm, AddressForm, PageForm, CopyForm, LoadForm
<1> QED  BY <1>1, <1>2 DEF Formed

\* What an instruction leaves when it is read: its words behind the others, of which those
\* that waited for it learn where it is.
Writes(ins, words, entry, later) ==
  /\ place' = place /\ done' = FALSE /\ idx \in 0 .. 4 /\ idx' = idx + 1
  /\ code'[idx + 1] = ins /\ \A i \in 1 .. idx : code'[i] = code[i]
  /\ dat'[idx + 1] = entry /\ \A i \in 1 .. idx : dat'[i] = dat[i]
  /\ start'[idx + 1] = rx /\ \A i \in 1 .. idx : start'[i] = start[i]
  /\ start' \in Seq(Int) /\ Len(start') = idx + 1 /\ Len(start) = idx
  /\ Len(out') = Len(out) + Len(words) /\ Len(words) \in Nat
  /\ \A t \in place.tramp .. rx - 1 :
       At(t)' = IF t - place.tramp + 1 \in fmap[idx]
                THEN [At(t) EXCEPT !.imm = Field(entry - t, FieldSpan(At(t).op))]
                ELSE At(t)
  /\ \A s : s = rx => \A k \in 1 .. Len(words) : At(s + k - 1)' = words[k]
  /\ fmap' = [i \in 0 .. 4 |-> IF i \in later THEN fmap[i] \cup {Len(out) + 1} ELSE fmap[i]]

LEMMA EmitWrites ==
  ASSUME MovedInv, idx < count, start \in Seq(Int), Len(start) = idx,
         NEW ins, NEW words \in Seq(WrittenWord), NEW entry \in Int, NEW later,
         Emit(ins, words, entry, later)
  PROVE  Writes(ins, words, entry, later)
<1> DEFINE joined == out \o words
<1>1. /\ code' = Append(code, ins) /\ dat' = Append(dat, entry) /\ start' = Append(start, rx)
      /\ out' = process_fix_map(joined, entry) /\ place' = place /\ done' = done
      /\ fmap' = [i \in 0 .. 4 |-> IF i \in later THEN fmap[i] \cup {Len(out) + 1} ELSE fmap[i]]
  BY DEF Emit
<1>2. /\ rx \in Int /\ rx = place.tramp + Len(out) /\ place.tramp \in Int /\ Len(out) \in Nat
      /\ idx \in Nat /\ count \in 1 .. 5 /\ Len(words) \in Nat
  BY Numbers, PlacesAreNumbers DEF rx, MovedInv
<1>3. idx \in 0 .. 4 /\ done' = FALSE
  <2>1. done \in BOOLEAN /\ (done => idx = count)
    BY DEF MovedInv
  <2>2. idx \in 0 .. 4 /\ idx # count
    BY <1>2
  <2>3. done' = done
    BY <1>1
  <2> QED  BY <2>1, <2>2, <2>3
<1>4. /\ code \in Seq(MovedInstruction) /\ Len(code) = idx /\ dat \in Seq(Int) /\ Len(dat) = idx
      /\ out \in Seq(WrittenWord)
  BY DEF MovedInv, idx
<1>5. code'[idx + 1] = ins /\ (\A i \in 1 .. idx : code'[i] = code[i]) /\ idx' = idx + 1
  BY <1>1, <1>2, <1>4 DEF idx
<1>6. dat'[idx + 1] = entry /\ (\A i \in 1 .. idx : dat'[i] = dat[i])
  <2>1. dat' = Append(dat, entry) /\ dat \in Seq(Int) /\ Len(dat) = idx /\ idx \in Nat
    BY <1>1, <1>2, <1>4
  <2> HIDE DEF joined
  <2> QED  BY <2>1, AppendProperties
<1>7. /\ start'[idx + 1] = rx /\ (\A i \in 1 .. idx : start'[i] = start[i])
      /\ start' \in Seq(Int) /\ Len(start') = idx + 1
  <2>1. start' = Append(start, rx) /\ rx \in Int
    BY <1>1, <1>2
  <2> HIDE DEF joined
  <2> QED  BY <2>1, AppendProperties
<1>8. /\ joined \in Seq(WrittenWord) /\ Len(joined) = Len(out) + Len(words)
      /\ \A p \in 1 .. Len(out) : joined[p] = out[p]
      /\ \A k \in 1 .. Len(words) : joined[Len(out) + k] = words[k]
  <2>1. /\ joined \in Seq(WrittenWord) /\ Len(joined) = Len(out) + Len(words)
        /\ \A p \in 1 .. Len(out) + Len(words) :
             joined[p] = IF p <= Len(out) THEN out[p] ELSE words[p - Len(out)]
    BY <1>4, ConcatProperties
  <2> QED  BY <1>2, <2>1
<1> HIDE DEF joined
<1>9. /\ Len(out') = Len(joined)
      /\ \A p \in 1 .. Len(joined) :
           out'[p] = IF p \in fmap[idx]
                     THEN [joined[p] EXCEPT !.imm = Field(entry - (place.tramp + p - 1), FieldSpan(joined[p].op))]
                     ELSE joined[p]
  BY <1>1, <1>2, <1>8 DEF process_fix_map
<1>10. fmap[idx] \subseteq 1 .. Len(out)
  BY <1>3 DEF MovedInv, WordsWait
<1>11. ASSUME NEW t \in place.tramp .. rx - 1
       PROVE  At(t)' = IF t - place.tramp + 1 \in fmap[idx]
                       THEN [At(t) EXCEPT !.imm = Field(entry - t, FieldSpan(At(t).op))]
                       ELSE At(t)
  <2> DEFINE p == t - place.tramp + 1
  <2>1. p \in 1 .. Len(out) /\ place.tramp + p - 1 = t
    <3>1. t \in Int /\ place.tramp <= t /\ t <= place.tramp + Len(out) - 1
      BY <1>2
    <3>2. \A x, y, l \in Int : y <= x /\ x <= y + l - 1 => (x - y) + 1 \in 1 .. l /\ y + ((x - y) + 1) - 1 = x
      OBVIOUS
    <3>3. place.tramp \in Int /\ Len(out) \in Int
      BY <1>2
    <3> QED  BY <3>1, <3>2, <3>3, Zenon
  <2>4. p \in 1 .. Len(joined)
    <3>1. \A l, n \in Nat : 1 .. l \subseteq 1 .. l + n
      OBVIOUS
    <3> QED  BY <1>2, <1>8, <2>1, <3>1, Zenon
  <2>2. At(t)' = out'[p] /\ At(t) = out[p]
    BY <1>1 DEF At
  <2> HIDE DEF p
  <2>3. joined[p] = At(t)
    BY <1>8, <2>1, <2>2
  <2> QED  BY <1>9, <2>1, <2>4, <2>2, <2>3 DEF p
<1>12. ASSUME NEW s, s = rx, NEW k \in 1 .. Len(words)  PROVE At(s + k - 1)' = words[k]
  <2> DEFINE p == Len(out) + k
  <2>1. p \in 1 .. Len(joined) /\ p \notin 1 .. Len(out) /\ s + k - 1 - place.tramp + 1 = p
    <3>1. \A x, y, l, m \in Int : m \in 1 .. x /\ l >= 0 => /\ l + m \in 1 .. l + x /\ l + m \notin 1 .. l
                                                  /\ (y + l) + m - 1 - y + 1 = l + m
      OBVIOUS
    <3>2. k \in Int /\ Len(words) \in Int /\ Len(out) \in Int /\ place.tramp \in Int /\ Len(out) >= 0
      BY <1>2
    <3>3. s = place.tramp + Len(out) /\ Len(joined) = Len(out) + Len(words)
      BY <1>2, <1>8, <1>12
    <3>4. /\ Len(out) + k \in 1 .. Len(out) + Len(words) /\ Len(out) + k \notin 1 .. Len(out)
          /\ (place.tramp + Len(out)) + k - 1 - place.tramp + 1 = Len(out) + k
      BY <3>1, <3>2
    <3> QED  BY <3>3, <3>4
  <2>2. At(s + k - 1)' = out'[p]
    <3> DEFINE t == s + k - 1
    <3>1. t - place.tramp + 1 = p
      <4>1. s \in Int /\ k \in Int /\ place.tramp \in Int
        BY <1>2, <1>12
      <4> HIDE DEF p
      <4> QED  BY <2>1, <4>1
    <3> HIDE DEF t
    <3>2. At(t)' = out'[t - place.tramp + 1]
      BY <1>1 DEF At
    <3> HIDE DEF p
    <3>3. At(t)' = out'[p]
      BY <3>1, <3>2
    <3> QED  BY <3>3 DEF t
  <2> QED  BY <1>8, <1>9, <1>10, <2>1, <2>2
<1> QED  BY <1>1, <1>2, <1>3, <1>5, <1>6, <1>7, <1>8, <1>9, <1>11, <1>12 DEF Writes

-----------------------------------------------------------------------------
(***************************************************************************)
(* What the end of every __fix_ function leaves as it was.                 *)
(***************************************************************************)
\* The numbers of instructions and words.
LEMMA Counted ==
  ASSUME MovedInv, BlocksFollow
  PROVE  /\ place.base \in Int /\ place.tramp \in Int /\ place.rw \in Int
         /\ count \in 1 .. 5 /\ idx \in 0 .. 5 /\ idx <= count
         /\ Len(out) \in Nat /\ rx = place.tramp + Len(out) /\ rx \in Int
         /\ Len(start) = (IF done THEN idx + 1 ELSE idx)
         /\ \A j \in 0 .. Len(start) - 1 : start[j + 1] \in Int /\ Behind(j) \in Int
         /\ \A j \in 0 .. idx - 1 : /\ j \in 0 .. 4 /\ j + 1 \in 1 .. idx /\ j \in 0 .. Len(start) - 1
                                   /\ start[j + 1] \in Int /\ Behind(j) \in Int
                                   /\ code[j + 1] \in MovedInstruction /\ dat[j + 1] \in Int
         /\ \A r \in Indices : r \in 0 .. 4 /\ r \in 0 .. count - 1
<1>1. /\ place.base \in Int /\ place.tramp \in Int /\ place.rw \in Int /\ count \in 1 .. 5
      /\ Len(out) \in Nat /\ rx = place.tramp + Len(out) /\ rx \in Int /\ idx \in Nat
  BY PlacesAreNumbers, Numbers DEF MovedInv, rx
<1>2. idx \in 0 .. 5 /\ idx <= count
  BY <1>1 DEF MovedInv
<1>3. start \in Seq(Int) /\ Len(start) \in Nat
  BY DEF BlocksFollow
<1>4. ASSUME NEW j \in 0 .. Len(start) - 1  PROVE start[j + 1] \in Int /\ Behind(j) \in Int
  <2>1. j + 1 \in 1 .. Len(start) /\ (j + 1 < Len(start) => j + 2 \in 1 .. Len(start))
    BY <1>3
  <2>2. start[j + 1] \in Int /\ (j + 1 < Len(start) => start[j + 2] \in Int)
    BY <1>3, <2>1
  <2> QED  BY <1>1, <2>2 DEF Behind
<1>5. \A r \in Indices : r \in 0 .. 4 /\ r \in 0 .. count - 1
  BY <1>1 DEF Indices
<1>6. Len(start) = (IF done THEN idx + 1 ELSE idx)
  BY <1>1, <1>2 DEF MovedInv, BlocksFollow
<1>7. ASSUME NEW j \in 0 .. idx - 1
      PROVE  /\ j \in 0 .. 4 /\ j + 1 \in 1 .. idx /\ j \in 0 .. Len(start) - 1
             /\ code[j + 1] \in MovedInstruction /\ dat[j + 1] \in Int
  <2>1. j \in 0 .. 4 /\ j + 1 \in 1 .. idx /\ j \in 0 .. Len(start) - 1
    BY <1>2, <1>6
  <2>2. code \in Seq(MovedInstruction) /\ Len(code) = idx /\ dat \in Seq(Int) /\ Len(dat) = idx
    BY DEF MovedInv, idx
  <2> QED  BY <2>1, <2>2
<1> QED  BY <1>1, <1>2, <1>4, <1>5, <1>6, <1>7

LEMMA WordsThere ==
  ASSUME MovedInv, NEW t \in place.tramp .. rx - 1
  PROVE  At(t) \in WrittenWord
<1>1. rx = place.tramp + Len(out) /\ place.tramp \in Int /\ Len(out) \in Nat
  BY Numbers DEF rx
<1>2. t - place.tramp + 1 \in 1 .. Len(out)
  <2>1. \A x, y, l \in Int : y <= x /\ x <= y + l - 1 => (x - y) + 1 \in 1 .. l
    OBVIOUS
  <2>2. t \in Int /\ place.tramp <= t /\ t <= place.tramp + Len(out) - 1
    BY <1>1
  <2> QED  BY <1>1, <2>1, <2>2
<1> QED  BY <1>2 DEF At, MovedInv

\* Places of moved instructions are in the range.
LEMMA InRange ==
  ASSUME MovedInv, BlocksFollow
  PROVE  /\ \A i \in 0 .. 4 : i < count => i \in Indices
         /\ \A r \in Indices : \A a : a = place.base + r => is_in_fixing_range(a)
<1>1. place.base \in Int /\ count \in 1 .. 5
  BY Counted
<1>2. \A c \in 1 .. 5, i \in 0 .. 4 : i < c => i \in 0 .. c - 1
  OBVIOUS
<1>3. ASSUME NEW r \in Indices  PROVE (place.base + r) - place.base = r
  <2>1. \A x, y \in Int : (x + y) - x = y
    OBVIOUS
  <2>2. r \in Int
    BY Counted
  <2> QED  BY <1>1, <2>1, <2>2
<1> QED  BY <1>1, <1>2, <1>3 DEF Indices, is_in_fixing_range

\* A word that refers to a moved instruction is the only one of its block.
LEMMA RefersNear ==
  ASSUME MovedInv, BlocksFollow, NEW j \in 0 .. idx - 1, NEW r \in Indices, Refers(j, r), Block(j)
  PROVE  /\ Behind(j) = start[j + 1] + 1 /\ EnteredAt(j, start[j + 1])
         /\ At(start[j + 1]).op = code[j + 1].op
<1>1. code[j + 1].op \in Referrers /\ code[j + 1].op # "prfm"
  BY DEF Refers, Referrers, Branches, Conditionals
<1>2. PICK e \in start[j + 1] .. Behind(j) - 1 : EnteredAt(j, e)
  BY <1>1 DEF Block
<1> DEFINE ins == code[j + 1]
           a == AsReadBy(ins, j)
           n == Behind(j) - e
           v == WordsFrom(e, n)
           pad == e - start[j + 1]
<1>3. Formed(ins, j, pad, n, e, v)
  BY <1>2 DEF EnteredAt
<1>4. is_in_fixing_range(a)
  BY InRange DEF Refers
<1> HIDE DEF a, n, v, pad, ins
<1>5. NearForm(ins, a, pad, n, e, v)
  <2>1. ~ PlainForm(ins, j, n, v)
    BY <1>1 DEF PlainForm, Referrers, Branches, Conditionals, ins
  <2>2. ~ JumpForm(ins, a, n, v) /\ ~ CallForm(ins, a, n, v) /\ ~ SkipForm(ins, a, n, v)
        /\ ~ AddressForm(ins, a, n, v)
    BY <1>4 DEF JumpForm, CallForm, SkipForm, AddressForm
  <2>3. ~ PageForm(ins, a, n, v)
    BY <1>1 DEF PageForm, Referrers, Branches, Conditionals, ins
  <2>4. ~ CopyForm(ins, a, pad, n, e, v) /\ ~ LoadForm(ins, a, pad, n, e, v)
    BY <1>1 DEF CopyForm, LoadForm, Referrers, Branches, Conditionals, Loads, ins
  <2> QED  BY <1>3, <2>1, <2>2, <2>3, <2>4 DEF Formed, a
<1>7. start[j + 1] \in Int /\ Behind(j) \in Int
  BY Counted
<1>8. e = start[j + 1] /\ Behind(j) = e + 1
  <2>1. pad = 0 /\ n = 1
    BY <1>5 DEF NearForm
  <2> QED  BY <1>7, <2>1 DEF pad, n
<1>9. v[0] = At(e)
  <2>1. v = [k \in 0 .. n - 1 |-> At(e + k)] /\ n = 1 /\ 0 \in 0 .. n - 1
    BY <1>5 DEF v, WordsFrom, NearForm
  <2>2. v[0] = At(e + 0) /\ e + 0 = e
    BY <1>7, <1>8, <2>1
  <2> QED  BY <2>2
<1>10. At(e).op = ins.op
  BY <1>4, <1>5, <1>9 DEF NearForm, AdrOf
<1> QED  BY <1>2, <1>8, <1>10 DEF ins

\* A word that waits for the next instruction is the one of a block that refers to it.
LEMMA WhoWaits ==
  ASSUME MovedInv, KeptInv, idx < count, ~ done,
         NEW j \in 0 .. idx - 1, NEW t \in start[j + 1] .. Behind(j) - 1,
         t - place.tramp + 1 \in fmap[idx]
  PROVE  start[j + 1] = t /\ Refers(j, idx) /\ Behind(j) = t + 1 /\ At(t).op = code[j + 1].op
<1>0. BlocksFollow
  BY DEF KeptInv
<1>1. /\ idx \in 0 .. 4 /\ place.tramp \in Int /\ Len(start) = idx
      /\ \A i \in 0 .. idx - 1 : i \in Int /\ start[i + 1] \in Int /\ Behind(i) \in Int
  <2>1. idx \in 0 .. 5 /\ count \in 1 .. 5 /\ place.tramp \in Int /\ Len(start) = idx
    BY <1>0, Counted
  <2>2. \A i \in 0 .. idx - 1 : start[i + 1] \in Int /\ Behind(i) \in Int
    BY <1>0, Counted
  <2>3. idx \in 0 .. 4
    BY <2>1
  <2>4. \A i \in 0 .. idx - 1 : i \in Int
    BY <2>1
  <2> QED  BY <2>1, <2>2, <2>3, <2>4, Zenon
<1>2. idx \in Indices
  BY <1>0, <1>1, InRange
<1>t. t \in Int /\ start[j + 1] <= t /\ t < Behind(j)
  BY <1>1
<1>3. PICK k \in 0 .. idx - 1 :
        start[k + 1] = place.tramp + (t - place.tramp + 1) - 1 /\ Refers(k, idx)
  <2>1. idx >= idx
    BY <1>1
  <2> QED  BY <1>1, <2>1 DEF KeptInv, OnlyReferrersWait
<1>4. start[k + 1] = t
  <2>1. \A x, y \in Int : y + ((x - y) + 1) - 1 = x
    OBVIOUS
  <2>2. start[k + 1] = place.tramp + ((t - place.tramp) + 1) - 1
    BY <1>3, Zenon
  <2> QED  BY <1>1, <1>t, <2>1, <2>2
<1>5. Behind(k) = t + 1 /\ At(t).op = code[k + 1].op
  <2>1. Block(k)
    BY DEF KeptInv
  <2> QED  BY <1>2, <1>3, <1>4, <2>1, RefersNear DEF KeptInv
<1>6. j = k
  <2>1. \A x, y \in 0 .. idx - 1 : x < y => Behind(x) <= start[y + 1]
    BY <1>0, <1>1 DEF BlocksFollow
  <2>2. ~ (k < j)
    BY <1>1, <1>t, <1>4, <1>5, <2>1
  <2>3. ASSUME j < k  PROVE FALSE
    <3>1. Behind(j) <= start[k + 1]
      BY <2>1, <2>3
    <3> QED  BY <1>1, <1>t, <1>4, <3>1
  <2> QED  BY <1>1, <2>2, <2>3
<1> QED  BY <1>3, <1>4, <1>5, <1>6

\* The words that are written for the next instruction are a block of its own...
NewBlock(ins, words, entry) ==
  IF ins.op = "prfm" THEN Len(words) = 0 /\ entry = rx
  ELSE \E pad \in 0 .. Len(words) - 1 :
         /\ \A k \in 1 .. pad : words[k].op = "nop"
         /\ Formed(ins, idx, pad, Len(words) - pad, rx + pad,
                   [k \in 0 .. (Len(words) - pad) - 1 |-> words[pad + k + 1]])
         /\ ins.op # "adrp" => entry \in rx .. rx + pad

\* ... and refer to the instructions that are known, or wait.
NewLinks(ins, words, entry, later) ==
  /\ \A r \in Indices :
       ins.op \in Referrers /\ AsReadBy(ins, idx) = place.base + r =>
         IF r < idx THEN words[1].imm = Field(dat[r + 1] - rx, FieldSpan(ins.op))
         ELSE IF r = idx THEN words[1].imm = Field(entry - rx, FieldSpan(ins.op))
         ELSE r \in later
  /\ \A r \in later : /\ r \in Indices /\ r > idx
                      /\ ins.op \in Referrers /\ AsReadBy(ins, idx) = place.base + r

Emitted(ins, words, entry, later) ==
  /\ MovedInv /\ KeptInv /\ idx < count /\ ~ done
  /\ words \in Seq(WrittenWord) /\ entry \in Int
  /\ Emit(ins, words, entry, later)

LEMMA EmittedWrites ==
  ASSUME NEW ins, NEW words, NEW entry, NEW later, Emitted(ins, words, entry, later)
  PROVE  Writes(ins, words, entry, later)
<1>1. MovedInv /\ BlocksFollow /\ idx < count /\ ~ done /\ words \in Seq(WrittenWord) /\ entry \in Int
      /\ Emit(ins, words, entry, later)
  BY DEF Emitted, KeptInv
<1>2. start \in Seq(Int) /\ Len(start) = idx
  BY <1>1, Counted DEF BlocksFollow
<1> QED  BY <1>1, <1>2, EmitWrites

LEMMA EmitFollows ==
  ASSUME NEW ins, NEW words, NEW entry, NEW later, Emitted(ins, words, entry, later)
  PROVE  /\ BlocksFollow'
         /\ \A j \in 0 .. idx - 1 : Behind(j)' = Behind(j)
         /\ \A s, j : s = rx /\ j = idx => Behind(j)' = s + Len(words)
<1>1. /\ place' = place /\ done' = FALSE /\ idx \in 0 .. 4 /\ idx' = idx + 1
      /\ start'[idx + 1] = rx /\ \A i \in 1 .. idx : start'[i] = start[i]
      /\ start' \in Seq(Int) /\ Len(start') = idx + 1 /\ Len(start) = idx
      /\ Len(out') = Len(out) + Len(words) /\ Len(words) \in Nat
  BY EmittedWrites DEF Writes
<1>2. MovedInv /\ BlocksFollow
  BY DEF Emitted, KeptInv
<1>3. /\ place.tramp \in Int /\ rx = place.tramp + Len(out) /\ Len(out) \in Nat /\ rx \in Int
      /\ \A j \in 0 .. idx - 1 : start[j + 1] \in Int /\ Behind(j) \in Int
  <2>1. \A j \in 0 .. idx - 1 : start[j + 1] \in Int /\ Behind(j) \in Int
    BY <1>2, Counted
  <2> QED  BY <1>2, <2>1, Counted
<1>4. ASSUME NEW j \in 0 .. idx - 1  PROVE Behind(j)' = Behind(j)
  <2>1. Behind(j)' = IF j + 1 < idx + 1 THEN start'[j + 2] ELSE place.tramp + Len(out')
    BY <1>1 DEF Behind
  <2>2. Behind(j)' = start'[j + 2]
    BY <1>1, <2>1
  <2>3. CASE j + 1 < idx
    <3>1. j + 2 \in 1 .. idx /\ Behind(j) = start[j + 2]
      BY <1>1, <2>3 DEF Behind
    <3> QED  BY <1>1, <2>2, <3>1
  <2>4. CASE j + 1 = idx
    <3>1. j + 2 = idx + 1 /\ Behind(j) = rx
      BY <1>1, <1>3, <2>4 DEF Behind
    <3> QED  BY <1>1, <2>2, <3>1
  <2> QED  BY <1>1, <2>3, <2>4
<1>5. ASSUME NEW s, NEW j, s = rx, j = idx  PROVE Behind(j)' = s + Len(words)
  <2>1. Behind(j)' = IF j + 1 < idx + 1 THEN start'[j + 2] ELSE place.tramp + Len(out')
    BY <1>1 DEF Behind
  <2>2. Behind(j)' = place.tramp + Len(out')
    BY <1>1, <1>5, <2>1
  <2> QED  BY <1>1, <1>3, <1>5, <2>2
<1>6. \A j \in 0 .. idx - 1 : start'[j + 1] = start[j + 1]
  BY <1>1
<1>7. /\ \A j \in 0 .. idx - 1 : /\ place.tramp <= start[j + 1] /\ start[j + 1] <= Behind(j)
                                 /\ Behind(j) <= rx
      /\ \A j, k \in 0 .. idx - 1 : j < k => Behind(j) <= start[k + 1]
  BY <1>1, <1>2, <1>3 DEF BlocksFollow
<1> DEFINE n == Len(words)
<1>8. ASSUME NEW j \in 0 .. idx
      PROVE  place.tramp <= start'[j + 1] /\ start'[j + 1] <= Behind(j)' /\ Behind(j)' <= rx + n
  <2>1. CASE j \in 0 .. idx - 1
    <3>1. start'[j + 1] = start[j + 1] /\ Behind(j)' = Behind(j)
      BY <1>4, <1>6, <2>1
    <3>2. place.tramp <= start[j + 1] /\ start[j + 1] <= Behind(j) /\ Behind(j) <= rx
      BY <1>7, <2>1
    <3>3. Behind(j) \in Int /\ rx \in Int /\ n \in Nat
      BY <1>1, <1>3, <2>1
    <3>4. Behind(j) <= rx + n
      BY <3>2, <3>3
    <3> QED  BY <3>1, <3>2, <3>4
  <2>2. CASE j = idx
    <3>1. start'[j + 1] = rx /\ Behind(j)' = rx + n
      BY <1>1, <1>5, <2>2
    <3>2. rx \in Int /\ n \in Nat /\ place.tramp <= rx
      BY <1>1, <1>3
    <3>3. rx <= rx + n
      <4> HIDE DEF n
      <4> QED  BY <3>2
    <3> QED  BY <3>1, <3>2, <3>3
  <2> QED  BY <1>1, <2>1, <2>2
<1>9. ASSUME NEW j \in 0 .. idx, NEW k \in 0 .. idx, j < k  PROVE Behind(j)' <= start'[k + 1]
  <2>1. j \in 0 .. idx - 1 /\ Behind(j)' = Behind(j)
    BY <1>1, <1>4, <1>9
  <2>2. CASE k \in 0 .. idx - 1
    BY <1>6, <1>7, <1>9, <2>1, <2>2
  <2>3. CASE k = idx
    BY <1>1, <1>7, <2>1, <2>3
  <2> QED  BY <1>1, <2>2, <2>3
<1>10. place'.tramp + Len(out') = rx + n
  BY <1>1, <1>3
<1>11. Len(start') = idx' + (IF done' THEN 1 ELSE 0) /\ 0 .. Len(start') - 1 = 0 .. idx
  BY <1>1
<1>12. BlocksFollow'
  BY <1>1, <1>8, <1>9, <1>10, <1>11 DEF BlocksFollow
<1> QED  BY <1>4, <1>5, <1>12

LEMMA OldWords ==
  ASSUME NEW ins, NEW words, NEW entry, NEW later, Emitted(ins, words, entry, later),
         NEW j \in 0 .. idx - 1, NEW t \in start[j + 1] .. Behind(j) - 1
  PROVE  At(t)'.op = At(t).op /\ (At(t)' = At(t) \/ Refers(j, idx))
<1>1. \A x \in place.tramp .. rx - 1 :
              At(x)' = IF x - place.tramp + 1 \in fmap[idx]
                       THEN [At(x) EXCEPT !.imm = Field(entry - x, FieldSpan(At(x).op))]
                       ELSE At(x)
  BY EmittedWrites DEF Writes
<1>2. MovedInv /\ KeptInv /\ BlocksFollow /\ idx < count /\ ~ done
  BY DEF Emitted, KeptInv
<1>3. t \in place.tramp .. rx - 1
  <2>1. /\ place.tramp \in Int /\ rx = place.tramp + Len(out) /\ start[j + 1] \in Int /\ Behind(j) \in Int
        /\ rx \in Int /\ j \in 0 .. Len(start) - 1
    BY <1>2, Counted
  <2>2. place.tramp <= start[j + 1] /\ Behind(j) <= rx
    BY <1>2, <2>1 DEF BlocksFollow
  <2> QED  BY <2>1, <2>2
<1>4. At(t) \in WrittenWord
  BY <1>2, <1>3, WordsThere
<1>5. CASE t - place.tramp + 1 \in fmap[idx]
  <2>1. Refers(j, idx)
    BY <1>2, <1>5, WhoWaits
  <2>2. At(t)' = [At(t) EXCEPT !.imm = Field(entry - t, FieldSpan(At(t).op))]
    BY <1>1, <1>3, <1>5
  <2> QED  BY <1>4, <2>1, <2>2 DEF WrittenWord
<1>6. CASE ~ (t - place.tramp + 1 \in fmap[idx])
  BY <1>1, <1>3, <1>6
<1> QED  BY <1>5, <1>6

LEMMA OldStay ==
  ASSUME NEW ins, NEW words, NEW entry, NEW later, Emitted(ins, words, entry, later),
         NEW j \in 0 .. idx - 1
  PROVE  /\ code'[j + 1] = code[j + 1] /\ dat'[j + 1] = dat[j + 1] /\ start'[j + 1] = start[j + 1]
         /\ Behind(j)' = Behind(j)
         /\ \A r : Refers(j, r)' = Refers(j, r)
<1>1. /\ place' = place /\ idx \in 0 .. 4
      /\ \A i \in 1 .. idx : code'[i] = code[i] /\ dat'[i] = dat[i] /\ start'[i] = start[i]
  BY EmittedWrites DEF Writes
<1>2. j + 1 \in 1 .. idx
  BY <1>1
<1>3. code'[j + 1] = code[j + 1] /\ dat'[j + 1] = dat[j + 1] /\ start'[j + 1] = start[j + 1]
  BY <1>1, <1>2
<1>4. Behind(j)' = Behind(j)
  BY EmitFollows
<1>5. ASSUME NEW r  PROVE Refers(j, r)' = Refers(j, r)
  BY <1>1, <1>3, SameForm DEF Refers
<1> QED  BY <1>3, <1>4, <1>5

LEMMA OldBlocks ==
  ASSUME NEW ins, NEW words, NEW entry, NEW later, Emitted(ins, words, entry, later),
         NEW j \in 0 .. idx - 1
  PROVE  Block(j)'
<1>1. /\ code'[j + 1] = code[j + 1] /\ dat'[j + 1] = dat[j + 1] /\ start'[j + 1] = start[j + 1]
      /\ Behind(j)' = Behind(j)
  BY OldStay
<1>2. /\ MovedInv /\ BlocksFollow /\ Block(j) /\ idx \in 0 .. 4 /\ idx < count
      /\ start[j + 1] \in Int /\ Behind(j) \in Int /\ place' = place
  <2>1. MovedInv /\ BlocksFollow /\ Block(j) /\ idx < count
    BY DEF Emitted, KeptInv
  <2>2. start[j + 1] \in Int /\ Behind(j) \in Int
    BY <2>1, Counted
  <2> QED  BY <2>1, <2>2, EmittedWrites DEF Writes
<1>w. ASSUME NEW t \in start[j + 1] .. Behind(j) - 1
      PROVE  At(t)'.op = At(t).op /\ (At(t)' = At(t) \/ Refers(j, idx))
  BY OldWords
<1>3. CASE code[j + 1].op = "prfm"
  BY <1>1, <1>2, <1>3 DEF Block
<1>4. CASE code[j + 1].op # "prfm"
  <2>1. PICK e \in start[j + 1] .. Behind(j) - 1 : EnteredAt(j, e)
    BY <1>2, <1>4 DEF Block
  <2> DEFINE s == start[j + 1]
             n == Behind(j) - e
             v == WordsFrom(e, n)
  <2>2. Formed(code[j + 1], j, e - s, n, e, v) /\ Padding(j, e)
        /\ (code[j + 1].op # "adrp" => dat[j + 1] \in s .. e)
    BY <2>1 DEF EnteredAt
  <2>3. e \in Int /\ \A t : t \in s .. e - 1 => t \in s .. Behind(j) - 1
    BY <1>2
  <2>4. Padding(j, e)'
    <3>1. ASSUME NEW t \in s .. e - 1  PROVE At(t)'.op = "nop"
      <4>1. t \in s .. Behind(j) - 1 /\ At(t).op = "nop"
        BY <2>2, <2>3 DEF Padding
      <4> QED  BY <1>w, <4>1
    <3> QED  BY <1>1, <3>1 DEF Padding
  <2>5. Formed(code[j + 1], j, e - s, n, e, WordsFrom(e, Behind(j) - e))'
    <3>1. CASE Refers(j, idx)
      <4>1. idx \in Indices
        BY <1>2, InRange
      <4>2. Behind(j) = s + 1 /\ At(s).op = code[j + 1].op
        BY <1>2, <3>1, <4>1, RefersNear
      <4>3. e = s /\ n = 1 /\ e - s = 0
        BY <1>2, <2>3, <4>2
      <4>4. is_in_fixing_range(AsReadBy(code[j + 1], j)) /\ code[j + 1].op \in Referrers
        BY <1>2, <3>1, <4>1, InRange DEF Refers
      <4> DEFINE w == WordsFrom(e, 1)
      <4>5. w' = [k \in 0 .. 0 |-> At(e + k)'] /\ e + 0 = e
        BY <1>2, <4>3 DEF WordsFrom
      <4>6. w'[0].op = code[j + 1].op
        <5>1. e \in s .. Behind(j) - 1
          OBVIOUS
        <5>2. At(e)'.op = At(e).op
          BY <1>w, <5>1
        <5>3. w'[0] = At(e)'
          BY <4>5
        <5> QED  BY <4>2, <4>3, <5>2, <5>3
      <4>7. PICK ins1, v1 : ins1 = code[j + 1] /\ v1 = w'
        OBVIOUS
      <4>8. NearForm(ins1, AsReadBy(ins1, j), 0, 1, e, v1)
        BY <4>4, <4>6, <4>7 DEF NearForm, AdrOf
      <4>9. Formed(ins1, j, 0, 1, e, v1)
        BY <4>8 DEF Formed
      <4>10. Formed(ins1, j, 0, 1, e, v1)'
        BY <1>2, <4>9, FormStays
      <4> HIDE DEF w
      <4>11. Behind(j)' - e = 1 /\ WordsFrom(e, 1)' = v1 /\ e - start'[j + 1] = 0
        BY <1>1, <4>3, <4>7 DEF w
      <4> QED  BY <1>1, <4>7, <4>10, <4>11
    <3>2. CASE ~ Refers(j, idx)
      <4>1. WordsFrom(e, n)' = [k \in 0 .. n' - 1 |-> At(e + k)'] /\ n' = n
        BY <1>1 DEF WordsFrom
      <4>2. \A k \in 0 .. n - 1 : At(e + k)' = At(e + k)
        <5>1. \A k \in 0 .. n - 1 : e + k \in s .. Behind(j) - 1
          BY <1>2, <2>3
        <5> QED  BY <1>w, <3>2, <5>1
      <4>3. WordsFrom(e, n)' = WordsFrom(e, n)
        BY <4>1, <4>2 DEF WordsFrom
      <4>4. PICK ins1, pad1, n1, v1 : ins1 = code[j + 1] /\ pad1 = e - s /\ n1 = n /\ v1 = v
        OBVIOUS
      <4>5. Formed(ins1, j, pad1, n1, e, v1)'
        BY <1>2, <2>2, <4>4, FormStays
      <4> QED  BY <1>1, <4>1, <4>3, <4>4, <4>5
    <3> QED  BY <3>1, <3>2
  <2>6. EnteredAt(j, e)'
    BY <1>1, <2>2, <2>4, <2>5 DEF EnteredAt
  <2> QED  BY <1>1, <1>4, <2>6 DEF Block
<1> QED  BY <1>3, <1>4

LEMMA OwnBlock ==
  ASSUME NEW ins, NEW words, NEW entry, NEW later, Emitted(ins, words, entry, later),
         NewBlock(ins, words, entry), NEW j, j = idx
  PROVE  Block(j)'
<1>1. /\ place' = place /\ code'[j + 1] = ins /\ dat'[j + 1] = entry /\ start'[j + 1] = rx
      /\ \A s : s = rx => \A k \in 1 .. Len(words) : At(s + k - 1)' = words[k]
      /\ Len(words) \in Nat
  BY EmittedWrites DEF Writes
<1>2. rx \in Int
  BY Numbers DEF Emitted
<1>3. PICK s : s = rx
  OBVIOUS
<1>4. Behind(j)' = s + Len(words)
  BY <1>3, EmitFollows
<1>5. CASE ins.op = "prfm"
  BY <1>1, <1>2, <1>3, <1>4, <1>5 DEF NewBlock, Block
<1>6. CASE ins.op # "prfm"
  <2>1. PICK pad \in 0 .. Len(words) - 1 :
         /\ \A k \in 1 .. pad : words[k].op = "nop"
         /\ Formed(ins, idx, pad, Len(words) - pad, s + pad,
                   [k \in 0 .. (Len(words) - pad) - 1 |-> words[pad + k + 1]])
         /\ ins.op # "adrp" => entry \in s .. s + pad
    BY <1>3, <1>6 DEF NewBlock
  <2> DEFINE e == s + pad
             n == Len(words) - pad
  <2>2. e \in s .. Behind(j)' - 1 /\ e - s = pad /\ Behind(j)' - e = n /\ e \in Int /\ n \in Nat /\ s \in Int
    BY <1>1, <1>2, <1>3, <1>4
  <2>3. Padding(j, e)'
    <3>1. ASSUME NEW t \in s .. e - 1  PROVE At(t)'.op = "nop"
      <4>1. t - s + 1 \in 1 .. pad /\ t - s + 1 \in 1 .. Len(words) /\ s + (t - s + 1) - 1 = t
        BY <1>1, <2>2
      <4> QED  BY <1>1, <1>3, <2>1, <4>1
    <3> QED  BY <1>1, <1>3, <3>1 DEF Padding
  <2>4. \A k \in 0 .. n - 1 : At(e + k)' = words[pad + k + 1]
    <3> TAKE k \in 0 .. n - 1
    <3>1. pad + k + 1 \in 1 .. Len(words) /\ s + (pad + k + 1) - 1 = e + k
      BY <1>1, <2>2
    <3> QED  BY <1>1, <1>3, <3>1
  <2> DEFINE v == [k \in 0 .. n - 1 |-> words[pad + k + 1]]
  <2>5. WordsFrom(e, n)' = v
    BY <2>4 DEF WordsFrom
  <2>6. Formed(ins, j, pad, n, e, v)
    BY <2>1
  <2> HIDE DEF v, e, n
  <2>7. Formed(ins, j, pad, n, e, v)'
    BY <1>1, <2>6, FormStays
  <2>8. Formed(code[j + 1], j, e - start[j + 1], Behind(j) - e, e, WordsFrom(e, Behind(j) - e))'
    BY <1>1, <1>3, <2>2, <2>5, <2>7
  <2>9. EnteredAt(j, e)'
    BY <1>1, <1>3, <2>1, <2>2, <2>3, <2>8 DEF EnteredAt, e
  <2> QED  BY <1>1, <1>3, <1>6, <2>2, <2>9 DEF Block
<1> QED  BY <1>5, <1>6

LEMMA OldLinks ==
  ASSUME NEW ins, NEW words, NEW entry, NEW later, Emitted(ins, words, entry, later),
         NEW j \in 0 .. idx - 1
  PROVE  Linked(j)'
<1>1. /\ code'[j + 1] = code[j + 1] /\ start'[j + 1] = start[j + 1] /\ Behind(j)' = Behind(j)
      /\ \A r : Refers(j, r)' = Refers(j, r)
  BY OldStay
<1>2. /\ place' = place /\ idx \in 0 .. 4 /\ idx' = idx + 1
      /\ dat'[idx + 1] = entry /\ \A i \in 1 .. idx : dat'[i] = dat[i]
      /\ \A t \in place.tramp .. rx - 1 :
              At(t)' = IF t - place.tramp + 1 \in fmap[idx]
                       THEN [At(t) EXCEPT !.imm = Field(entry - t, FieldSpan(At(t).op))]
                       ELSE At(t)
  BY EmittedWrites DEF Writes
<1>f. fmap' = [i \in 0 .. 4 |-> IF i \in later THEN fmap[i] \cup {Len(out) + 1} ELSE fmap[i]]
  BY Zenon DEF Emitted, Emit
<1>3. /\ MovedInv /\ KeptInv /\ BlocksFollow /\ Block(j) /\ Linked(j) /\ idx < count /\ ~ done
  BY DEF Emitted, KeptInv
<1>4. /\ place.tramp \in Int /\ rx = place.tramp + Len(out) /\ rx \in Int /\ Len(start) = idx
      /\ start[j + 1] \in Int /\ Behind(j) \in Int /\ j \in 0 .. Len(start) - 1
      /\ \A r \in Indices : r \in 0 .. 4
  BY <1>3, Counted
<1>5. PICK s : s = start[j + 1]
  OBVIOUS
<1>6. Indices' = Indices
  BY <1>2, SameForm
<1>7. ASSUME NEW r \in Indices, Refers(j, r)
      PROVE  IF r < idx + 1
             THEN At(s)'.imm = Field(dat'[r + 1] - s, FieldSpan(code[j + 1].op))
             ELSE s - place.tramp + 1 \in fmap'[r]
  <2>1. /\ Behind(j) = s + 1 /\ At(s).op = code[j + 1].op
    BY <1>3, <1>5, <1>7, RefersNear
  <2>2. s \in start[j + 1] .. Behind(j) - 1 /\ s \in place.tramp .. rx - 1
    <3>1. place.tramp <= start[j + 1] /\ Behind(j) <= rx
      BY <1>3, <1>4 DEF BlocksFollow
    <3>2. \A x, b, t, y \in Int : t <= x /\ b = x + 1 /\ b <= y => x \in x .. b - 1 /\ x \in t .. y - 1
      OBVIOUS
    <3>3. /\ s \in Int /\ Behind(j) \in Int /\ place.tramp \in Int /\ rx \in Int
          /\ place.tramp <= s
      BY <1>4, <1>5, <3>1
    <3> QED  BY <1>5, <2>1, <3>1, <3>2, <3>3
  <2>3. IF r < idx THEN At(s).imm = Field(dat[r + 1] - s, FieldSpan(code[j + 1].op))
                   ELSE s - place.tramp + 1 \in fmap[r]
    BY <1>3, <1>5, <1>7 DEF Linked
  <2>4. r \in Int
    BY <1>4
  <2>5. CASE r < idx
    <3>1. dat'[r + 1] = dat[r + 1]
      <4>1. r \in 0 .. 4 /\ r + 1 \in 1 .. idx
        <5>1. idx \in 0 .. 4
          BY <1>2
        <5>2. r \in 0 .. 4
          BY <1>4, <1>7
        <5> QED  BY <2>5, <5>1, <5>2
      <4> QED  BY <1>2, <4>1
    <3>2. s - place.tramp + 1 \notin fmap[idx]
      <4>1. SUFFICES ASSUME s - place.tramp + 1 \in fmap[idx]  PROVE FALSE
        OBVIOUS
      <4>2. Refers(j, idx)
        BY <1>3, <2>2, <4>1, WhoWaits
      <4>3. place.base + idx = place.base + r /\ place.base \in Int
        BY <1>3, <1>7, <4>2, Counted DEF Refers
      <4> QED  BY <1>2, <2>4, <2>5, <4>3
    <3>3. At(s)' = At(s)
      BY <1>2, <2>2, <3>2
    <3> QED  BY <1>2, <2>3, <2>4, <2>5, <3>1, <3>3
  <2>6. CASE r = idx
    <3>1. s - place.tramp + 1 \in fmap[idx]
      BY <1>2, <2>3, <2>6
    <3>2. At(s)' = [At(s) EXCEPT !.imm = Field(entry - s, FieldSpan(At(s).op))]
      BY <1>2, <2>2, <3>1
    <3>3. At(s) \in WrittenWord
      BY <1>3, <2>2, WordsThere
    <3>4. At(s)'.imm = Field(entry - s, FieldSpan(At(s).op))
      BY <3>2, <3>3 DEF WrittenWord
    <3> QED  BY <1>2, <2>1, <2>6, <3>4
  <2>7. CASE r > idx
    <3>1. s - place.tramp + 1 \in fmap[r]
      BY <1>2, <2>3, <2>4, <2>7
    <3>2. fmap[r] \subseteq fmap'[r]
      BY <1>f, <1>4
    <3> QED  BY <1>2, <2>4, <2>7, <3>1, <3>2
  <2> QED  BY <1>2, <2>4, <2>5, <2>6, <2>7
<1> QED  BY <1>1, <1>2, <1>5, <1>6, <1>7 DEF Linked

LEMMA OwnLinks ==
  ASSUME NEW ins, NEW words, NEW entry, NEW later, Emitted(ins, words, entry, later),
         NewBlock(ins, words, entry), NewLinks(ins, words, entry, later), NEW j, j = idx
  PROVE  Linked(j)'
<1>1. /\ place' = place /\ idx \in 0 .. 4 /\ idx' = idx + 1
      /\ code'[j + 1] = ins /\ start'[j + 1] = rx
      /\ dat'[idx + 1] = entry /\ \A i \in 1 .. idx : dat'[i] = dat[i]
      /\ \A s : s = rx => \A k \in 1 .. Len(words) : At(s + k - 1)' = words[k]
      /\ Len(words) \in Nat
  BY EmittedWrites DEF Writes
<1>f. fmap' = [i \in 0 .. 4 |-> IF i \in later THEN fmap[i] \cup {Len(out) + 1} ELSE fmap[i]]
  BY Zenon DEF Emitted, Emit
<1>2. MovedInv /\ BlocksFollow
  BY DEF Emitted, KeptInv
<1>3. /\ rx = place.tramp + Len(out) /\ rx \in Int /\ place.tramp \in Int /\ Len(out) \in Nat
      /\ \A r \in Indices : r \in 0 .. 4
  BY <1>2, Counted
<1>4. PICK s : s = rx
  OBVIOUS
<1>5. Indices' = Indices /\ AsReadBy(ins, j)' = AsReadBy(ins, j)
  BY <1>1, SameForm
<1>6. \A r : Refers(j, r)' = (ins.op \in Referrers /\ AsReadBy(ins, j) = place.base + r)
  BY <1>1, <1>5 DEF Refers
<1>7. ASSUME NEW r \in Indices, Refers(j, r)'
      PROVE  IF r < idx + 1 THEN At(s)'.imm = Field(dat'[r + 1] - s, FieldSpan(ins.op))
             ELSE s - place.tramp + 1 \in fmap'[r]
  <2>1. ins.op \in Referrers /\ AsReadBy(ins, idx) = place.base + r
    BY <1>6, <1>7
  <2>2. Len(words) >= 1
    <3>1. ins.op # "prfm"
      BY <2>1 DEF Referrers, Branches, Conditionals
    <3>2. PICK pad \in 0 .. Len(words) - 1 : TRUE
      BY <3>1 DEF NewBlock
    <3> QED  BY <1>1, <3>2
  <2>3. At(s)' = words[1]
    <3>1. 1 \in 1 .. Len(words) /\ s + 1 - 1 = s
      BY <1>1, <1>3, <1>4, <2>2
    <3> QED  BY <1>1, <1>4, <3>1
  <2>4. r \in Int /\ r \in 0 .. 4
    BY <1>3
  <2>5. IF r < idx THEN words[1].imm = Field(dat[r + 1] - s, FieldSpan(ins.op))
         ELSE IF r = idx THEN words[1].imm = Field(entry - s, FieldSpan(ins.op))
         ELSE r \in later
    BY <1>4, <2>1 DEF NewLinks
  <2>6. CASE r < idx
    BY <1>1, <2>3, <2>4, <2>5, <2>6
  <2>7. CASE r = idx
    BY <1>1, <2>3, <2>4, <2>5, <2>7
  <2>8. CASE r > idx
    <3>1. Len(out) + 1 \in fmap'[r]
      BY <1>1, <1>f, <2>4, <2>5, <2>8
    <3>2. s - place.tramp + 1 = Len(out) + 1
      BY <1>3, <1>4
    <3> QED  BY <1>1, <2>4, <2>8, <3>1, <3>2
  <2> QED  BY <1>1, <2>4, <2>6, <2>7, <2>8
<1> QED  BY <1>1, <1>4, <1>5, <1>7 DEF Linked

LEMMA OthersWait ==
  ASSUME NEW ins, NEW words, NEW entry, NEW later, Emitted(ins, words, entry, later),
         NewLinks(ins, words, entry, later)
  PROVE  OnlyReferrersWait'
<1>1. /\ place' = place /\ idx \in 0 .. 4 /\ idx' = idx + 1
      /\ code'[idx + 1] = ins /\ start'[idx + 1] = rx
  BY EmittedWrites DEF Writes
<1>f. fmap' = [i \in 0 .. 4 |-> IF i \in later THEN fmap[i] \cup {Len(out) + 1} ELSE fmap[i]]
  BY Zenon DEF Emitted, Emit
<1>2. MovedInv /\ KeptInv /\ BlocksFollow
  BY DEF Emitted, KeptInv
<1>3. /\ rx = place.tramp + Len(out) /\ rx \in Int /\ place.tramp \in Int /\ Len(out) \in Nat
  BY <1>2, Counted
<1>4. ASSUME NEW r \in 0 .. 4, r >= idx + 1, NEW p \in fmap'[r]
      PROVE  \E j \in 0 .. idx : (start[j + 1] = place.tramp + p - 1 /\ Refers(j, r))'
  <2>1. CASE p \in fmap[r]
    <3>1. PICK j \in 0 .. idx - 1 : start[j + 1] = place.tramp + p - 1 /\ Refers(j, r)
      BY <1>1, <1>2, <1>4, <2>1 DEF KeptInv, OnlyReferrersWait
    <3>2. start'[j + 1] = start[j + 1] /\ Refers(j, r)' = Refers(j, r)
      BY OldStay
    <3>3. start'[j + 1] = place'.tramp + p - 1 /\ Refers(j, r)' /\ j \in 0 .. idx
      BY <1>1, <3>1, <3>2
    <3> QED  BY <3>3
  <2>2. CASE p \notin fmap[r]
    <3>1. p = Len(out) + 1 /\ r \in later
      BY <1>f, <1>4, <2>2
    <3>2. ins.op \in Referrers /\ AsReadBy(ins, idx) = place.base + r
      BY <3>1 DEF NewLinks
    <3>3. PICK j : j = idx
      OBVIOUS
    <3>4. AsReadBy(ins, j)' = AsReadBy(ins, j)
      BY <1>1, SameForm
    <3>5. Refers(j, r)'
      BY <1>1, <3>2, <3>3, <3>4 DEF Refers
    <3>6. start'[j + 1] = place'.tramp + p - 1
      BY <1>1, <1>3, <3>1, <3>3
    <3> QED  BY <1>1, <3>3, <3>5, <3>6
  <2> QED  BY <2>1, <2>2
<1>5. 0 .. idx' - 1 = 0 .. idx
  BY <1>1
<1> QED  BY <1>1, <1>4, <1>5 DEF OnlyReferrersWait

\* A __fix_ function keeps the invariant when its words are a block that refers to what it should.
LEMMA EmitKept ==
  ASSUME NEW ins, NEW words, NEW entry, NEW later, Emitted(ins, words, entry, later),
         Compiled(ins, idx), NewBlock(ins, words, entry), NewLinks(ins, words, entry, later)
  PROVE  KeptInv'
<1>1. /\ place' = place /\ idx \in 0 .. 4 /\ idx' = idx + 1 /\ done' = FALSE
      /\ code'[idx + 1] = ins /\ \A i \in 1 .. idx : code'[i] = code[i]
  BY EmittedWrites DEF Writes
<1>2. KeptInv
  BY DEF Emitted
<1>3. ASSUME NEW j \in 0 .. idx' - 1  PROVE (Compiled(code[j + 1], j) /\ Block(j) /\ Linked(j))'
  <2>1. CASE j \in 0 .. idx - 1
    <3>1. PICK c : c = code[j + 1]
      OBVIOUS
    <3>2. code'[j + 1] = c
      BY <1>1, <2>1, <3>1
    <3>3. Compiled(c, j)'
      <4>1. Compiled(c, j)
        BY <1>2, <2>1, <3>1 DEF KeptInv
      <4> QED  BY <1>1, <4>1, SameForm
    <3> QED  BY <2>1, <3>2, <3>3, OldBlocks, OldLinks
  <2>2. CASE j = idx
    <3>1. Compiled(ins, j)'
      BY <1>1, <2>2, SameForm
    <3>2. Block(j)' /\ Linked(j)'
      BY <2>2, OwnBlock, OwnLinks
    <3> QED  BY <1>1, <2>2, <3>1, <3>2
  <2> QED  BY <1>1, <2>1, <2>2
<1> QED  BY <1>1, <1>3, EmitFollows, OthersWait DEF KeptInv

-----------------------------------------------------------------------------
(* What each __fix_ function writes is such a block. *)
Fixing(ins) ==
  MovedInv /\ KeptInv /\ idx < count /\ ins \in MovedInstruction /\ Compiled(ins, idx)

LEMMA FixingHere ==
  ASSUME NEW ins, Fixing(ins)
  PROVE  /\ MovedInv /\ KeptInv /\ BlocksFollow /\ ~ done /\ rx \in Int /\ pc \in Int /\ idx \in Int
         /\ pc = place.base + idx /\ place.base \in Int /\ place.rw \in Int /\ Len(out) \in Int
         /\ ins.op \in InstructionOps /\ ins.imm \in Int
         /\ \A span \in Nat : Signed(ins.imm, span) \in Int
<1>1. MovedInv /\ KeptInv /\ BlocksFollow /\ ins \in MovedInstruction
  BY DEF Fixing, KeptInv
<1>2. rx \in Int /\ pc \in Int /\ idx \in Int /\ place.rw \in Int /\ Len(out) \in Int
  BY <1>1, Numbers
<1>3. ~ done
  <2>1. (done => idx = count) /\ idx < count /\ count \in 1 .. 5
    BY <1>1, Counted DEF MovedInv, Fixing
  <2> QED  BY <1>2, <2>1
<1>4. ins.op \in InstructionOps /\ ins.imm \in Int
  BY <1>1 DEF MovedInstruction
<1>5. place.base \in Int
  BY <1>1, Counted
<1> QED  BY <1>1, <1>2, <1>3, <1>4, <1>5, SignedIsInt DEF pc

LEMMA EmitsBlock ==
  ASSUME NEW ins, Fixing(ins), NEW words \in Seq(WrittenWord), NEW entry \in Int, NEW later,
         NewBlock(ins, words, entry), NewLinks(ins, words, entry, later), Emit(ins, words, entry, later)
  PROVE  KeptInv'
<1>1. Emitted(ins, words, entry, later)
  BY FixingHere DEF Emitted, Fixing
<1> QED  BY <1>1, EmitKept DEF Fixing

LEMMA NoLinks ==
  ASSUME NEW ins, Fixing(ins), NEW words, NEW entry,
         ins.op \notin Referrers \/ ~ is_in_fixing_range(AsReadBy(ins, idx))
  PROVE  NewLinks(ins, words, entry, {})
BY FixingHere, InRange DEF NewLinks

LEMMA PaddedBlock ==
  ASSUME NEW ins, Fixing(ins), NEW pad \in Nat, NEW tail \in Seq(WrittenWord), Len(tail) > 0,
         NEW entry, ins.op # "prfm", ins.op # "adrp" => entry \in rx .. rx + pad,
         Formed(ins, idx, pad, Len(tail), rx + pad, [k \in 0 .. Len(tail) - 1 |-> tail[k + 1]])
  PROVE  Nops(pad) \o tail \in Seq(WrittenWord) /\ NewBlock(ins, Nops(pad) \o tail, entry)
<1> DEFINE words == Nops(pad) \o tail
<1>1. Nops(pad) \in Seq(WrittenWord) /\ Len(Nops(pad)) = pad /\ Len(tail) \in Nat
  BY NopsPlaced
<1>2. /\ words \in Seq(WrittenWord) /\ Len(words) = pad + Len(tail)
      /\ \A p \in 1 .. pad + Len(tail) : words[p] = IF p <= pad THEN Nops(pad)[p] ELSE tail[p - pad]
  <2> DEFINE nops == Nops(pad)
  <2>1. nops \in Seq(WrittenWord) /\ Len(nops) = pad
    BY <1>1
  <2> HIDE DEF nops
  <2>2. /\ nops \o tail \in Seq(WrittenWord) /\ Len(nops \o tail) = Len(nops) + Len(tail)
        /\ \A p \in 1 .. Len(nops) + Len(tail) :
             (nops \o tail)[p] = IF p <= Len(nops) THEN nops[p] ELSE tail[p - Len(nops)]
    BY <2>1, ConcatProperties
  <2> QED  BY <2>1, <2>2 DEF nops
<1> HIDE DEF words
<1>3. \A k \in 1 .. pad : words[k].op = "nop"
  <2> TAKE k \in 1 .. pad
  <2>1. words[k] = Nops(pad)[k]
    BY <1>1, <1>2
  <2> QED  BY <2>1 DEF Nops, Word
<1>4. [k \in 0 .. (Len(words) - pad) - 1 |-> words[pad + k + 1]] = [k \in 0 .. Len(tail) - 1 |-> tail[k + 1]]
  <2>1. Len(words) - pad = Len(tail)
    BY <1>1, <1>2
  <2>2. \A k \in 0 .. Len(tail) - 1 : words[pad + k + 1] = tail[k + 1]
    BY <1>1, <1>2
  <2> QED  BY <2>1, <2>2
<1>5. pad \in 0 .. Len(words) - 1 /\ Len(words) - pad = Len(tail)
  BY <1>1, <1>2
<1> QED  BY <1>2, <1>3, <1>4, <1>5 DEF NewBlock, words

LEMMA BareBlock ==
  ASSUME NEW ins, Fixing(ins), NEW tail \in Seq(WrittenWord), Len(tail) > 0,
         NEW entry, ins.op # "prfm", ins.op # "adrp" => entry = rx,
         Formed(ins, idx, 0, Len(tail), rx, [k \in 0 .. Len(tail) - 1 |-> tail[k + 1]])
  PROVE  NewBlock(ins, tail, entry)
<1>1. rx \in Int /\ Len(tail) \in Nat
  BY FixingHere
<1>2. /\ 0 \in 0 .. Len(tail) - 1 /\ Len(tail) - 0 = Len(tail) /\ rx + 0 = rx
      /\ \A k \in 0 .. Len(tail) - 1 : 0 + k + 1 = k + 1
  BY <1>1
<1>3. [k \in 0 .. (Len(tail) - 0) - 1 |-> tail[0 + k + 1]] = [k \in 0 .. Len(tail) - 1 |-> tail[k + 1]]
  BY <1>2
<1>4. ins.op # "adrp" => entry \in rx .. rx + 0
  BY <1>1, <1>2
<1>5. \A k \in 1 .. 0 : tail[k].op = "nop"
  OBVIOUS
<1> QED  BY <1>2, <1>3, <1>4, <1>5 DEF NewBlock

\* Words from an instruction to a place out of reach, or of one that refers to no other.
LEMMA EmitsFar ==
  ASSUME NEW ins, Fixing(ins), NEW pad \in Nat, NEW tail \in Seq(WrittenWord), Len(tail) > 0,
         NEW entry \in Int, ins.op # "prfm", ins.op # "adrp" => entry \in rx .. rx + pad,
         ins.op \notin Referrers \/ ~ is_in_fixing_range(AsReadBy(ins, idx)),
         Formed(ins, idx, pad, Len(tail), rx + pad, [k \in 0 .. Len(tail) - 1 |-> tail[k + 1]]),
         Emit(ins, Nops(pad) \o tail, entry, {})
  PROVE  KeptInv'
<1> DEFINE words == Nops(pad) \o tail
<1>1. words \in Seq(WrittenWord) /\ NewBlock(ins, words, entry)
  BY PaddedBlock
<1>2. NewLinks(ins, words, entry, {})
  BY NoLinks
<1> HIDE DEF words
<1>3. Emit(ins, words, entry, {})
  BY DEF words
<1> QED  BY <1>1, <1>2, <1>3, EmitsBlock

LEMMA EmitsRelative ==
  ASSUME NEW ins, Fixing(ins), ins.op \in Referrers, NEW a \in Int, a = AsReadBy(ins, idx),
         ~ is_in_fixing_range(a) /\ ins.op # "adru" =>
           - (FieldSpan(ins.op) \div 2) <= a - rx /\ a - rx < FieldSpan(ins.op) \div 2,
         EmitRelative(ins, AdrOf(ins.op, a), a)
  PROVE  KeptInv'
<1> DEFINE op == AdrOf(ins.op, a)
           ref == a - place.base
           off == IF ~ is_in_fixing_range(a) THEN a - rx
                  ELSE IF ref < idx THEN dat[ref + 1] - rx ELSE 0
           w == Word(op, Field(off, FieldSpan(op)))
           words == <<w>>
           later == IF is_in_fixing_range(a) /\ ref > idx THEN {ref} ELSE {}
<1>1. /\ MovedInv /\ BlocksFollow /\ rx \in Int /\ idx \in Int /\ place.base \in Int
      /\ ins.op \in InstructionOps
  BY FixingHere
<1>2. off \in Int
  <2>1. ASSUME is_in_fixing_range(a), ref < idx  PROVE dat[ref + 1] \in Int
    <3>1. ref \in 0 .. 4 /\ ref \in 0 .. idx - 1
      BY <1>1, <2>1, Counted DEF is_in_fixing_range
    <3> HIDE DEF ref
    <3> QED  BY <1>1, <3>1, Counted
  <2> QED  BY <1>1, <2>1
<1>3. ins.op # "prfm" /\ ins.op # "adrp" /\ (is_in_fixing_range(a) => op = ins.op) /\ op \in WordOps
  BY <1>1 DEF Referrers, Branches, Conditionals, AdrOf, WordOps
<1>4. w \in WrittenWord /\ w.op = op /\ w.imm = Field(off, FieldSpan(op))
  BY <1>2, <1>3, FieldIsInt, WordIs
<1>5. Emit(ins, words, rx, later)
  BY DEF EmitRelative
<1>6. ~ is_in_fixing_range(a) /\ ins.op # "adru" => Signed(w.imm, FieldSpan(ins.op)) = a - rx
  <2> SUFFICES ASSUME ~ is_in_fixing_range(a), ins.op # "adru"
               PROVE  Signed(w.imm, FieldSpan(ins.op)) = a - rx
    OBVIOUS
  <2>1. op = ins.op /\ off = a - rx
    BY DEF AdrOf
  <2>2. FieldSpan(ins.op) \in Nat \ {0} /\ FieldSpan(ins.op) % 2 = 0
    BY <1>1, <1>3, EvenSpans
  <2>3. a - rx \in Int
    BY <1>1
  <2> QED  BY <1>4, <2>1, <2>2, <2>3, RoundTrip
<1> DEFINE v == [k \in 0 .. Len(words) - 1 |-> words[k + 1]]
<1>7. words \in Seq(WrittenWord) /\ Len(words) = 1 /\ words[1] = w /\ v[0] = w
  <2> HIDE DEF w
  <2>1. words \in Seq(WrittenWord) /\ Len(words) = 1 /\ words[1] = w
    BY <1>4
  <2>2. 0 \in 0 .. Len(words) - 1 /\ 0 + 1 = 1
    BY <2>1
  <2>3. v[0] = words[0 + 1]
    BY <2>2
  <2> QED  BY <2>1, <2>2, <2>3
<1>8. NearForm(ins, a, 0, 1, rx, v)
  BY <1>4, <1>6, <1>7 DEF NearForm
<1>9. Formed(ins, idx, 0, Len(words), rx, v)
  BY <1>7, <1>8 DEF Formed
<1>10. NewBlock(ins, words, rx)
  <2> HIDE DEF w, words
  <2>1. Len(words) > 0
    BY <1>7
  <2> QED  BY <1>3, <1>7, <1>9, <2>1, BareBlock
<1>11. ASSUME NEW r \in Indices, AsReadBy(ins, idx) = place.base + r
       PROVE  IF r < idx THEN words[1].imm = Field(dat[r + 1] - rx, FieldSpan(ins.op))
              ELSE IF r = idx THEN words[1].imm = Field(rx - rx, FieldSpan(ins.op))
              ELSE r \in later
  <2>1. r \in 0 .. 4 /\ is_in_fixing_range(a) /\ ref = r
    <3>1. r \in 0 .. 4 /\ is_in_fixing_range(a)
      BY <1>1, <1>11, InRange, Counted
    <3> QED  BY <1>1, <1>11, <3>1
  <2>2. op = ins.op /\ words[1].imm = Field(off, FieldSpan(ins.op))
    BY <1>3, <1>4, <1>7, <2>1
  <2>3. rx - rx = 0
    BY <1>1
  <2> QED  BY <1>1, <2>1, <2>2, <2>3
<1>12. ASSUME NEW r \in later
       PROVE  r \in Indices /\ r > idx /\ AsReadBy(ins, idx) = place.base + r
  BY <1>1, <1>12 DEF is_in_fixing_range
<1> HIDE DEF words, later
<1>13. NewLinks(ins, words, rx, later)
  BY <1>11, <1>12 DEF NewLinks
<1> QED  BY <1>1, <1>5, <1>7, <1>10, <1>13, EmitsBlock

LEMMA JumpWords ==
  ASSUME NEW a \in Int
  PROVE  /\ JumpTo(a) \in Seq(WrittenWord) /\ Len(JumpTo(a)) = 4
         /\ JumpTo(a)[1] = Word("ldr17", 2) /\ JumpTo(a)[2] = Word("br17", 0)
         /\ JumpTo(a)[3] = Word("addr", a)
<1>1. JumpTo(a) = <<Word("ldr17", 2), Word("br17", 0), Word("addr", a), Word("addr", a)>>
  BY TwoAndTwo DEF JumpTo, AddressOf
<1>2. Word("ldr17", 2) \in WrittenWord /\ Word("br17", 0) \in WrittenWord /\ Word("addr", a) \in WrittenWord
  BY WordIs, OpsThere
<1> QED  BY <1>1, <1>2

LEMMA CallWords ==
  ASSUME NEW a \in Int
  PROVE  /\ CallTo(a) \in Seq(WrittenWord) /\ Len(CallTo(a)) = 5
         /\ CallTo(a)[1] = Word("ldr17", 3) /\ CallTo(a)[2] = Word("adr30", 4)
         /\ CallTo(a)[4] = Word("addr", a)
<1>1. CallTo(a) = <<Word("ldr17", 3), Word("adr30", 4), Word("br17", 0), Word("addr", a), Word("addr", a)>>
  BY ThreeAndTwo DEF CallTo, AddressOf
<1>2. /\ Word("ldr17", 3) \in WrittenWord /\ Word("adr30", 4) \in WrittenWord
      /\ Word("br17", 0) \in WrittenWord /\ Word("addr", a) \in WrittenWord
  BY WordIs, OpsThere
<1> QED  BY <1>1, <1>2

LEMMA LoadAddressWords ==
  ASSUME NEW a \in {"adr", "adru"} \X Int
  PROVE  /\ LoadAddress(a) \in Seq(WrittenWord) /\ Len(LoadAddress(a)) = 4
         /\ LoadAddress(a)[1] = Word("ldra", 2) /\ LoadAddress(a)[2] = Word("b", 3)
         /\ LoadAddress(a)[3] = Word("addr", a)
<1>1. LoadAddress(a) = <<Word("ldra", 2), Word("b", 3), Word("addr", a), Word("addr", a)>>
  BY TwoAndTwo DEF LoadAddress, AddressOf
<1>2. Word("ldra", 2) \in WrittenWord /\ Word("b", 3) \in WrittenWord /\ Word("addr", a) \in WrittenWord
  BY WordIs, OpsThere
<1> QED  BY <1>1, <1>2

\* The words of a block, counted from the one it is entered at.
LEMMA FromZero ==
  ASSUME NEW words \in Seq(WrittenWord)
  PROVE  \A k \in 1 .. Len(words) : [i \in 0 .. Len(words) - 1 |-> words[i + 1]][k - 1] = words[k]
<1> TAKE k \in 1 .. Len(words)
<1>1. Len(words) \in Nat
  OBVIOUS
<1>2. k - 1 \in 0 .. Len(words) - 1 /\ (k - 1) + 1 = k
  BY <1>1
<1> QED  BY <1>2

LEMMA BranchKept ==
  ASSUME NEW ins, Fixing(ins), __fix_branch_imm(ins)
  PROVE  KeptInv'
<1> DEFINE a == pc + Signed(ins.imm, BranchSpan)
           pad == IF ins.op = "b" THEN PadFor(2) ELSE PadForCall
           jump == IF ins.op = "b" THEN JumpTo(a) ELSE CallTo(a)
<1>1. /\ ins.op \in Branches /\ ins.op \in Referrers /\ ins.op \in {"b", "bl"}
      /\ ins.op \notin Conditionals /\ ins.op # "adrp" /\ ins.op # "prfm" /\ FieldSpan(ins.op) = BranchSpan
  <2>1. ins.op \in Branches
    BY DEF __fix_branch_imm
  <2>2. FieldSpan("b") = BranchSpan /\ FieldSpan("bl") = BranchSpan
    BY DEF FieldSpan, Branches, Loads
  <2> QED  BY <2>1, <2>2 DEF Branches, Referrers, Conditionals
<1>2. a \in Int /\ rx \in Int /\ MovedInv /\ ins.op \in InstructionOps /\ BranchSpan \in Nat
  <2>1. BranchSpan \in Nat
    BY RelocationConstants
  <2>2. pc \in Int /\ Signed(ins.imm, BranchSpan) \in Int
    BY <2>1, FixingHere
  <2> QED  BY <2>1, <2>2, FixingHere
<1>3. a = AsReadBy(ins, idx)
  BY <1>1, FixingHere DEF AsReadBy, RefersTo, Branches, Conditionals, Loads
<1>4. CASE OutOfReach(a, BranchSpan)
  <2>1. ~ is_in_fixing_range(a)
    BY <1>4 DEF OutOfReach
  <2>2. Emit(ins, Nops(pad) \o jump, rx + pad, {})
    BY <1>4 DEF __fix_branch_imm
  <2>3. pad \in 0 .. 1
    BY <1>2, PadAligns DEF PadForCall
  <2> DEFINE v == [k \in 0 .. Len(jump) - 1 |-> jump[k + 1]]
  <2>4. jump \in Seq(WrittenWord) /\ Len(jump) \in 4 .. 5 /\ Formed(ins, idx, pad, Len(jump), rx + pad, v)
    <3>1. CASE ins.op = "b"
      <4>1. jump = JumpTo(a) /\ jump \in Seq(WrittenWord) /\ Len(jump) = 4 /\ jump[1] = Word("ldr17", 2)
            /\ jump[2] = Word("br17", 0) /\ jump[3] = Word("addr", a)
        BY <1>2, <3>1, JumpWords
      <4> HIDE DEF jump, a, pad
      <4>2. v[1 - 1] = jump[1] /\ v[2 - 1] = jump[2] /\ v[3 - 1] = jump[3]
        BY <4>1, FromZero
      <4>3. JumpForm(ins, a, Len(jump), v)
        BY <2>1, <3>1, <4>1, <4>2 DEF JumpForm
      <4> QED  BY <1>3, <4>1, <4>3 DEF Formed
    <3>2. CASE ins.op = "bl"
      <4>1. jump \in Seq(WrittenWord) /\ Len(jump) = 5 /\ jump[1] = Word("ldr17", 3)
            /\ jump[2] = Word("adr30", 4) /\ jump[4] = Word("addr", a)
        BY <1>2, <3>2, CallWords
      <4> HIDE DEF jump, a, pad
      <4>2. v[1 - 1] = jump[1] /\ v[2 - 1] = jump[2] /\ v[4 - 1] = jump[4]
        BY <4>1, FromZero
      <4>3. CallForm(ins, a, Len(jump), v)
        BY <2>1, <3>2, <4>1, <4>2 DEF CallForm
      <4> QED  BY <1>3, <4>1, <4>3 DEF Formed
    <3> QED  BY <1>1, <3>1, <3>2
  <2> HIDE DEF pad, jump
  <2>5. pad \in Nat /\ rx + pad \in Int /\ rx + pad \in rx .. rx + pad /\ Len(jump) > 0
    <3>1. \A l \in 4 .. 5 : l > 0
      OBVIOUS
    <3>2. \A r \in Int, p \in 0 .. 1 : p \in Nat /\ r + p \in Int /\ r + p \in r .. r + p
      OBVIOUS
    <3> QED  BY <1>2, <2>3, <2>4, <3>1, <3>2
  <2> QED  BY <1>1, <1>3, <2>1, <2>2, <2>4, <2>5, EmitsFar
<1>5. CASE ~ OutOfReach(a, BranchSpan)
  <2>1. EmitRelative(ins, ins.op, a)
    BY <1>5 DEF __fix_branch_imm
  <2>2. AdrOf(ins.op, a) = ins.op
    BY <1>1 DEF AdrOf
  <2> HIDE DEF a
  <2>3. ~ is_in_fixing_range(a) => - (BranchSpan \div 2) <= a - rx /\ a - rx < BranchSpan \div 2
    <3>1. \A x, y, h \in Int : ~ ((IF x < y THEN y - x ELSE x - y) >= h - 1) => - h <= x - y /\ x - y < h
      OBVIOUS
    <3>2. BranchSpan \div 2 \in Int
      BY <1>2
    <3> QED  BY <1>2, <1>5, <3>1, <3>2 DEF OutOfReach, Distance
  <2> QED  BY <1>1, <1>2, <1>3, <2>1, <2>2, <2>3, EmitsRelative
<1> QED  BY <1>4, <1>5

LEMMA ConditionalKept ==
  ASSUME NEW ins, Fixing(ins), __fix_cond_comp_test_branch(ins)
  PROVE  KeptInv'
<1> DEFINE a == pc + ins.imm
           pad == PadFor(4)
           skip == <<Word(ins.op, 2), Word("b", 5)>>
           span == FieldSpan(ins.op)
<1>1. /\ ins.op \in Conditionals /\ ins.op \in Referrers /\ ins.op # "adrp" /\ ins.op # "prfm"
      /\ ins.op \in WordOps
  BY DEF __fix_cond_comp_test_branch, Referrers, Conditionals, WordOps, InstructionOps
<1>2. a \in Int /\ rx \in Int /\ MovedInv /\ ins.op \in InstructionOps /\ span \in Nat
  BY FixingHere, SpansHold
<1>3. a = AsReadBy(ins, idx)
  BY <1>1, FixingHere DEF AsReadBy
<1>4. CASE OutOfReach(a, span)
  <2>1. ~ is_in_fixing_range(a)
    BY <1>4 DEF OutOfReach
  <2>2. Emit(ins, Nops(pad) \o skip \o JumpTo(a), rx, {})
    BY <1>4 DEF __fix_cond_comp_test_branch
  <2>3. pad \in 0 .. 1
    BY <1>2, PadAligns
  <2> DEFINE tail == skip \o JumpTo(a)
             v == [k \in 0 .. Len(tail) - 1 |-> tail[k + 1]]
             nops == Nops(pad)
  <2>4. skip \in Seq(WrittenWord) /\ Len(skip) = 2 /\ skip[1] = Word(ins.op, 2) /\ skip[2] = Word("b", 5)
    <3>1. Word(ins.op, 2) \in WrittenWord /\ Word("b", 5) \in WrittenWord
      BY <1>1, WordIs, OpsThere
    <3> QED  BY <3>1
  <2>5. nops \in Seq(WrittenWord)
    BY <2>3, NopsPlaced
  <2> HIDE DEF a, pad, skip, span, nops
  <2>6. /\ tail \in Seq(WrittenWord) /\ Len(tail) = 6
        /\ \A p \in 1 .. 6 : tail[p] = IF p <= 2 THEN skip[p] ELSE JumpTo(a)[p - 2]
    <3>1. JumpTo(a) \in Seq(WrittenWord) /\ Len(JumpTo(a)) = 4
      BY <1>2, JumpWords
    <3>2. /\ tail \in Seq(WrittenWord) /\ Len(tail) = Len(skip) + Len(JumpTo(a))
          /\ \A p \in 1 .. Len(skip) + Len(JumpTo(a)) :
               tail[p] = IF p <= Len(skip) THEN skip[p] ELSE JumpTo(a)[p - Len(skip)]
      BY <2>4, <3>1, ConcatProperties
    <3> QED  BY <2>4, <3>1, <3>2
  <2>7. (nops \o skip) \o JumpTo(a) = nops \o tail
    <3> DEFINE jump == JumpTo(a)
    <3>1. jump \in Seq(WrittenWord)
      BY <1>2, JumpWords
    <3> HIDE DEF jump
    <3>2. (nops \o skip) \o jump = nops \o (skip \o jump)
      BY <2>4, <2>5, <3>1, ConcatAssociative
    <3> QED  BY <3>2 DEF jump
  <2>8. /\ tail[1] = Word(ins.op, 2) /\ tail[2] = Word("b", 5)
        /\ tail[3] = Word("ldr17", 2) /\ tail[5] = Word("addr", a)
    <3>1. JumpTo(a)[1] = Word("ldr17", 2) /\ JumpTo(a)[3] = Word("addr", a)
      BY <1>2, JumpWords
    <3> QED  BY <2>4, <2>6, <3>1
  <2> HIDE DEF tail
  <2>9. v[1 - 1] = tail[1] /\ v[2 - 1] = tail[2] /\ v[3 - 1] = tail[3] /\ v[5 - 1] = tail[5]
    BY <2>6, FromZero
  <2>10. SkipForm(ins, a, Len(tail), v)
    BY <1>1, <2>1, <2>6, <2>8, <2>9 DEF SkipForm
  <2>11. Formed(ins, idx, pad, Len(tail), rx + pad, v)
    BY <1>3, <2>10 DEF Formed
  <2>12. pad \in Nat /\ rx \in rx .. rx + pad /\ Len(tail) > 0
    BY <1>2, <2>3, <2>6
  <2>13. Emit(ins, Nops(pad) \o tail, rx, {})
    BY <2>2, <2>7 DEF nops
  <2> QED  BY <1>1, <1>2, <1>3, <2>1, <2>6, <2>11, <2>12, <2>13, EmitsFar
<1>5. CASE ~ OutOfReach(a, span)
  <2>1. EmitRelative(ins, ins.op, a)
    BY <1>5 DEF __fix_cond_comp_test_branch
  <2>2. AdrOf(ins.op, a) = ins.op
    BY <1>1 DEF AdrOf, Conditionals
  <2> HIDE DEF a
  <2>3. ~ is_in_fixing_range(a) => - (span \div 2) <= a - rx /\ a - rx < span \div 2
    <3>1. \A x, y, h \in Int : ~ ((IF x < y THEN y - x ELSE x - y) >= h - 1) => - h <= x - y /\ x - y < h
      OBVIOUS
    <3>2. span \div 2 \in Int
      BY <1>2
    <3> QED  BY <1>2, <1>5, <3>1, <3>2 DEF OutOfReach, Distance
  <2> QED  BY <1>1, <1>2, <1>3, <2>1, <2>2, <2>3, EmitsRelative
<1> QED  BY <1>4, <1>5

LEMMA PlainKept ==
  ASSUME NEW ins, Fixing(ins), CopyInstruction(ins)
  PROVE  KeptInv'
<1> DEFINE w == Word("plain", idx)
           tail == <<w>>
           v == [k \in 0 .. Len(tail) - 1 |-> tail[k + 1]]
<1>1. ins.op = "plain" /\ ins.op \notin Referrers
  BY DEF CopyInstruction, Referrers, Branches, Conditionals
<1>2. rx \in Int /\ idx \in Int
  BY FixingHere
<1>3. w \in WrittenWord
  BY <1>2, WordIs, OpsThere
<1>4. Emit(ins, tail, rx, {})
  BY DEF CopyInstruction
<1>5. tail \in Seq(WrittenWord) /\ Len(tail) = 1 /\ tail[1] = w
  <2> HIDE DEF w
  <2> QED  BY <1>3
<1> HIDE DEF tail
<1>6. v[1 - 1] = tail[1]
  BY <1>5, FromZero
<1>7. PlainForm(ins, idx, Len(tail), v)
  BY <1>1, <1>5, <1>6 DEF PlainForm
<1>8. Formed(ins, idx, 0, Len(tail), rx, v)
  BY <1>7 DEF Formed
<1>9. NewBlock(ins, tail, rx)
  <2>1. Len(tail) > 0
    BY <1>5
  <2> QED  BY <1>1, <1>5, <1>8, <2>1, BareBlock
<1> QED  BY <1>1, <1>2, <1>4, <1>5, <1>9, NoLinks, EmitsBlock

LEMMA PrefetchKept ==
  ASSUME NEW ins, Fixing(ins), ins.op = "prfm", Emit(ins, <<>>, rx, {})
  PROVE  KeptInv'
<1>1. NewBlock(ins, <<>>, rx) /\ <<>> \in Seq(WrittenWord) /\ rx \in Int
  BY FixingHere DEF NewBlock
<1>2. ins.op \notin Referrers
  BY DEF Referrers, Branches, Conditionals
<1> QED  BY <1>1, <1>2, NoLinks, EmitsBlock

LEMMA AdrKept ==
  ASSUME NEW ins, Fixing(ins), __fix_pcreladdr(ins), ins.op \in {"adr", "adru"}
  PROVE  KeptInv'
<1> DEFINE a == pc + Unsigned(Signed(ins.imm, AdrSpan))
           lo == IF ins.op = "adru" THEN 1 ELSE 0
           far == ~ is_in_fixing_range(a) /\ Distance(4 * a + lo, 4 * rx) >= 2 * AdrSpan - 1
           pad == PadFor(2)
           tail == LoadAddress(<<ins.op, a>>)
           v == [k \in 0 .. Len(tail) - 1 |-> tail[k + 1]]
<1>1. /\ ins.op \in Referrers /\ ins.op \in AddressOps /\ ins.op # "adrp" /\ ins.op # "prfm"
      /\ ins.op \notin Conditionals /\ FieldSpan(ins.op) = AdrSpan
  BY DEF Referrers, AddressOps, Conditionals, FieldSpan, Branches, Loads
<1>2. a \in Int /\ rx \in Int /\ MovedInv /\ AdrSpan \in Nat /\ AdrSpan % 2 = 0
  <2>1. AdrSpan \in Nat /\ AdrSpan % 2 = 0
    BY RelocationConstants, RelocationPlaces
  <2>2. pc \in Int /\ Unsigned(Signed(ins.imm, AdrSpan)) \in Int
    BY <2>1, FixingHere, UnsignedIsInt
  <2> QED  BY <2>1, <2>2, FixingHere
<1>3. a = AsReadBy(ins, idx)
  BY <1>1, FixingHere DEF AsReadBy, Conditionals
<1>4. CASE far
  <2>1. Emit(ins, Nops(pad) \o tail, rx + pad, {})
    BY <1>1, <1>4 DEF __fix_pcreladdr
  <2>2. pad \in 0 .. 1
    BY <1>2, PadAligns
  <2>3. /\ tail \in Seq(WrittenWord) /\ Len(tail) = 4 /\ tail[1] = Word("ldra", 2)
        /\ tail[2] = Word("b", 3) /\ tail[3] = Word("addr", <<ins.op, a>>)
    BY <1>2, LoadAddressWords
  <2> HIDE DEF tail, pad
  <2>4. v[1 - 1] = tail[1] /\ v[2 - 1] = tail[2] /\ v[3 - 1] = tail[3]
    BY <2>3, FromZero
  <2>5. AddressForm(ins, a, Len(tail), v)
    BY <1>1, <1>4, <2>3, <2>4 DEF AddressForm
  <2>6. Formed(ins, idx, pad, Len(tail), rx + pad, v)
    BY <1>3, <2>5 DEF Formed
  <2>7. pad \in Nat /\ rx + pad \in Int /\ rx + pad \in rx .. rx + pad /\ Len(tail) > 0
    BY <1>2, <2>2, <2>3
  <2> QED  BY <1>1, <1>3, <1>4, <2>1, <2>3, <2>6, <2>7, EmitsFar
<1>5. CASE ~ far
  <2>1. EmitRelative(ins, AdrOf(ins.op, a), a)
    BY <1>1, <1>5 DEF __fix_pcreladdr
  <2>2. ~ is_in_fixing_range(a) /\ ins.op # "adru" => - (AdrSpan \div 2) <= a - rx /\ a - rx < AdrSpan \div 2
    <3> SUFFICES ASSUME ~ is_in_fixing_range(a), ins.op # "adru"
                 PROVE  - (AdrSpan \div 2) <= a - rx /\ a - rx < AdrSpan \div 2
      OBVIOUS
    <3>1. \A x, y \in Int, s \in Nat :
            s % 2 = 0 /\ ~ ((IF 4 * x < 4 * y THEN 4 * y - 4 * x ELSE 4 * x - 4 * y) >= 2 * s - 1)
              => - (s \div 2) <= x - y /\ x - y < s \div 2
      OBVIOUS
    <3>2. ~ (Distance(4 * a + 0, 4 * rx) >= 2 * AdrSpan - 1)
      BY <1>5
    <3> HIDE DEF a
    <3>3. 4 * a + 0 = 4 * a
      BY <1>2
    <3> QED  BY <1>2, <3>1, <3>2, <3>3 DEF Distance
  <2> HIDE DEF a
  <2> QED  BY <1>1, <1>2, <1>3, <2>1, <2>2, EmitsRelative
<1> QED  BY <1>4, <1>5

LEMMA AdrpKept ==
  ASSUME NEW ins, Fixing(ins), __fix_pcreladdr(ins), ins.op = "adrp"
  PROVE  KeptInv'
<1> DEFINE a == Page(pc) + Unsigned(Signed(ins.imm, PageSpan) * PageSize)
           rw == place.rw + Len(out)
           pad == PadFor(2)
           tail == LoadAddress(<<"adr", a>>)
           entry == IF pad = 1 THEN rx + 1 ELSE rw
           v == [k \in 0 .. Len(tail) - 1 |-> tail[k + 1]]
<1>1. /\ ins.op \notin Referrers /\ ins.op \in AddressOps /\ ins.op # "prfm"
      /\ ins.op \notin Conditionals /\ FieldSpan(ins.op) = PageSpan
  BY DEF Referrers, AddressOps, Conditionals, FieldSpan, Branches, Loads
<1>2. a \in Int /\ rx \in Int /\ rw \in Int /\ MovedInv
  <2>1. PageSpan \in Nat /\ PageSize \in Nat \ {0} /\ pc \in Int
    BY RelocationConstants, FixingHere
  <2>2. Page(pc) \in Int
    BY <2>1 DEF Page
  <2>3. Signed(ins.imm, PageSpan) \in Int
    BY <2>1, FixingHere
  <2>4. a \in Int
    BY <2>2, <2>3, PagesAreInt
  <2> QED  BY <2>4, FixingHere
<1>3. a = AsReadBy(ins, idx)
  BY <1>1, FixingHere DEF AsReadBy, Conditionals, Loads
<1>4. CASE is_in_fixing_range(a)
  <2> DEFINE words == <<ins>>
             u == [k \in 0 .. Len(words) - 1 |-> words[k + 1]]
  <2>1. Emit(ins, words, rw, {})
    BY <1>1, <1>4 DEF __fix_pcreladdr
  <2>2. words \in Seq(WrittenWord) /\ Len(words) = 1 /\ words[1] = ins
    <3>1. ins \in WrittenWord
      BY DEF Fixing, MovedInstruction, WrittenWord, WordOps
    <3> QED  BY <3>1
  <2> HIDE DEF words
  <2>3. u[1 - 1] = words[1]
    BY <2>2, FromZero
  <2>4. PageForm(ins, a, Len(words), u)
    BY <1>4, <2>2, <2>3 DEF PageForm
  <2>5. Formed(ins, idx, 0, Len(words), rx, u)
    BY <1>3, <2>4 DEF Formed
  <2>6. NewBlock(ins, words, rw)
    <3>1. Len(words) > 0
      BY <2>2
    <3> QED  BY <1>1, <2>2, <2>5, <3>1, BareBlock
  <2> QED  BY <1>1, <1>2, <2>1, <2>2, <2>6, NoLinks, EmitsBlock
<1>5. CASE ~ is_in_fixing_range(a)
  <2>1. Emit(ins, Nops(pad) \o tail, entry, {})
    BY <1>1, <1>5 DEF __fix_pcreladdr
  <2>2. pad \in 0 .. 1
    BY <1>2, PadAligns
  <2>3. /\ tail \in Seq(WrittenWord) /\ Len(tail) = 4 /\ tail[1] = Word("ldra", 2)
        /\ tail[2] = Word("b", 3) /\ tail[3] = Word("addr", <<"adr", a>>)
    BY <1>2, LoadAddressWords
  <2> HIDE DEF tail, pad, a
  <2>4. v[1 - 1] = tail[1] /\ v[2 - 1] = tail[2] /\ v[3 - 1] = tail[3]
    BY <2>3, FromZero
  <2>5. AddressForm(ins, a, Len(tail), v)
    BY <1>1, <1>5, <2>3, <2>4 DEF AddressForm
  <2>6. Formed(ins, idx, pad, Len(tail), rx + pad, v)
    BY <1>3, <2>5 DEF Formed
  <2>7. pad \in Nat /\ entry \in Int /\ Len(tail) > 0
    BY <1>2, <2>2, <2>3
  <2> HIDE DEF entry
  <2> QED  BY <1>1, <1>3, <1>5, <2>1, <2>3, <2>6, <2>7, EmitsFar
<1> QED  BY <1>4, <1>5

LEMMA CopyWords ==
  ASSUME NEW op \in DOMAIN Loads, NEW a \in Int, NEW n, n = Copied(op)
  PROVE  LET words == <<Word(op, 2), Word("b", 1 + n)>> \o [k \in 1 .. n |-> Word("lit", a + k - 1)] IN
         /\ words \in Seq(WrittenWord) /\ Len(words) = 2 + n
         /\ words[1] = Word(op, 2) /\ words[2] = Word("b", 1 + n)
         /\ \A k \in 1 .. n : words[2 + k] = Word("lit", a + k - 1)
<1> DEFINE load == <<Word(op, 2), Word("b", 1 + n)>>
           copy == [k \in 1 .. n |-> Word("lit", a + k - 1)]
           words == load \o copy
<1>1. n \in {1, 2, 4} /\ op \in WordOps
  BY CopiedWords DEF Loads, WordOps, InstructionOps
<1>2. load \in Seq(WrittenWord) /\ Len(load) = 2 /\ load[1] = Word(op, 2) /\ load[2] = Word("b", 1 + n)
  <2>1. Word(op, 2) \in WrittenWord /\ Word("b", 1 + n) \in WrittenWord
    BY <1>1, WordIs, OpsThere
  <2> QED  BY <2>1
<1>3. copy \in Seq(WrittenWord) /\ Len(copy) = n
  <2>1. \A k \in 1 .. n : Word("lit", a + k - 1) \in WrittenWord
    BY <1>1, WordIs, OpsThere
  <2>2. copy \in [1 .. n -> WrittenWord] /\ n \in Nat
    BY <1>1, <2>1
  <2> HIDE DEF copy
  <2>3. copy \in Seq(WrittenWord)
    BY <2>2, SeqDef
  <2>4. DOMAIN copy = 1 .. n /\ DOMAIN copy = 1 .. Len(copy) /\ Len(copy) \in Nat
    BY <2>2, <2>3
  <2> QED  BY <2>2, <2>3, <2>4
<1>c. \A k \in 1 .. n : copy[k] = Word("lit", a + k - 1)
  OBVIOUS
<1> HIDE DEF load, copy
<1>4. /\ words \in Seq(WrittenWord) /\ Len(words) = 2 + n
      /\ \A p \in 1 .. 2 + n : words[p] = IF p <= 2 THEN load[p] ELSE copy[p - 2]
  <2>1. /\ words \in Seq(WrittenWord) /\ Len(words) = Len(load) + Len(copy)
        /\ \A p \in 1 .. Len(load) + Len(copy) :
             words[p] = IF p <= Len(load) THEN load[p] ELSE copy[p - Len(load)]
    BY <1>2, <1>3, ConcatProperties
  <2> QED  BY <1>2, <1>3, <2>1
<1>5. words[1] = load[1] /\ words[2] = load[2]
  BY <1>1, <1>4
<1>6. ASSUME NEW k \in 1 .. n  PROVE words[2 + k] = copy[k]
  <2>1. 2 + k \in 1 .. 2 + n /\ ~ (2 + k <= 2) /\ (2 + k) - 2 = k
    BY <1>1
  <2> QED  BY <1>4, <2>1
<1> HIDE DEF words
<1>7. \A k \in 1 .. n : words[2 + k] = Word("lit", a + k - 1)
  BY <1>c, <1>6
<1> QED  BY <1>2, <1>4, <1>5, <1>7 DEF words, load, copy

LEMMA LoadKept ==
  ASSUME NEW ins, Fixing(ins), __fix_loadlit(ins), ins.op \in DOMAIN Loads
  PROVE  KeptInv'
<1> DEFINE a == pc + Unsigned(Signed(ins.imm, LitSpan))
           n == Copied(ins.op)
           copy == CopiesLiteral(ins.op, a, rx)
           pad == IF copy THEN (- rx - 2) % n ELSE (a - rx) % n
           off == a - (rx + pad)
           front == <<Word(ins.op, 2), Word("b", 1 + n)>>
           lits == [k \in 1 .. n |-> Word("lit", a + k - 1)]
           w == Word(Resized(ins.op, off), Field(off, LitSpan))
           tail == IF copy THEN front \o lits ELSE <<w>>
           v == [k \in 0 .. Len(tail) - 1 |-> tail[k + 1]]
<1>1. /\ ins.op \notin Referrers /\ ins.op # "adrp" /\ ins.op # "prfm" /\ ins.op \notin Conditionals
      /\ FieldSpan(ins.op) = LitSpan
  <2>1. /\ FieldSpan("ldrw") = LitSpan /\ FieldSpan("ldrsw") = LitSpan /\ FieldSpan("ldrx") = LitSpan
        /\ FieldSpan("ldrs") = LitSpan /\ FieldSpan("ldrd") = LitSpan /\ FieldSpan("ldrq") = LitSpan
    BY DEF FieldSpan, Branches, Loads
  <2>2. ins.op \in {"ldrw", "ldrsw", "ldrx", "ldrs", "ldrd", "ldrq"}
    BY DEF Loads
  <2> QED  BY <2>1, <2>2 DEF Referrers, Branches, Conditionals
<1>2. /\ a \in Int /\ rx \in Int /\ n \in {1, 2, 4} /\ MovedInv
      /\ LitSpan \in Nat \ {0} /\ LitSpan % 2 = 0 /\ LitSpan \div 2 \in Int
  <2>1. LitSpan \in Nat \ {0} /\ LitSpan % 2 = 0 /\ LitSpan \div 2 \in Int
    BY RelocationConstants, RelocationPlaces
  <2>2. pc \in Int /\ rx \in Int /\ Unsigned(Signed(ins.imm, LitSpan)) \in Int
    BY <2>1, FixingHere, UnsignedIsInt
  <2>3. n \in {1, 2, 4}
    BY CopiedWords
  <2> QED  BY <2>1, <2>2, <2>3, FixingHere
<1>3. a = AsReadBy(ins, idx)
  BY <1>1, FixingHere DEF AsReadBy, Conditionals
<1>4. Emit(ins, Nops(pad) \o tail, rx + pad, {})
  BY <1>1 DEF __fix_loadlit
<1>5. pad \in 0 .. n - 1
  <2>1. \A m \in Int : m % 1 \in 0 .. 0 /\ m % 2 \in 0 .. 1 /\ m % 4 \in 0 .. 3
    OBVIOUS
  <2>2. PICK m \in Int : pad = m % n
    <3>1. - rx - 2 \in Int /\ a - rx \in Int
      BY <1>2
    <3> QED  BY <3>1
  <2> HIDE DEF pad, n
  <2> QED  BY <1>2, <2>1, <2>2
<1>6. off \in Int /\ rx + pad \in Int /\ pad \in Nat /\ rx + pad \in rx .. rx + pad
  <2> HIDE DEF pad, a, n
  <2> QED  BY <1>2, <1>5
<1>7. tail \in Seq(WrittenWord) /\ Len(tail) > 0 /\ Formed(ins, idx, pad, Len(tail), rx + pad, v)
  <2>1. CASE copy
    <3>1. /\ tail = front \o lits /\ tail \in Seq(WrittenWord) /\ Len(tail) = 2 + n
          /\ tail[1] = Word(ins.op, 2) /\ tail[2] = Word("b", 1 + n)
          /\ \A k \in 1 .. n : tail[2 + k] = Word("lit", a + k - 1)
      <4> HIDE DEF a
      <4> QED  BY <1>2, <2>1, CopyWords
    <3> HIDE DEF tail, a, copy, pad
    <3>2. v[1 - 1] = tail[1] /\ v[2 - 1] = tail[2]
      <4>1. 1 \in 1 .. Len(tail) /\ 2 \in 1 .. Len(tail)
        BY <1>2, <3>1
      <4> QED  BY <3>1, <4>1, FromZero
    <3>3. ASSUME NEW k \in 1 .. n  PROVE v[1 + k] = Word("lit", a + k - 1)
      <4>1. 2 + k \in 1 .. Len(tail) /\ (2 + k) - 1 = 1 + k
        BY <1>2, <3>1
      <4>2. v[(2 + k) - 1] = tail[2 + k]
        BY <3>1, <4>1, FromZero
      <4> QED  BY <3>1, <4>1, <4>2
    <3>4. (rx + pad) - pad = rx
      BY <1>2, <1>6
    <3> HIDE DEF v
    <3>5. CopyForm(ins, a, pad, Len(tail), rx + pad, v)
      <4>1. v[0] = Word(ins.op, 2) /\ v[1] = Word("b", 1 + Copied(ins.op))
        BY <3>1, <3>2
      <4>2. CopiesLiteral(ins.op, a, (rx + pad) - pad)
        BY <2>1, <3>4 DEF copy
      <4>3. Len(tail) = 2 + Copied(ins.op)
        BY <3>1
      <4>4. \A k \in 1 .. Copied(ins.op) : v[1 + k] = Word("lit", a + k - 1)
        BY <3>3
      <4> QED  BY <4>1, <4>2, <4>3, <4>4 DEF CopyForm
    <3>6. Len(tail) > 0
      BY <1>2, <3>1
    <3> QED  BY <1>3, <3>1, <3>5, <3>6 DEF Formed
  <2>2. CASE ~ copy
    <3>1. Signed(Field(off, LitSpan), LitSpan) = off
      <4>1. \A x, y, h \in Int, m \in {1, 2, 4}, p \in 0 .. 3 :
              p <= m - 1 /\ ~ ((IF x < y THEN y - x ELSE x - y) + m - 1 >= h - 1)
                => - h <= x - (y + p) /\ x - (y + p) < h
        OBVIOUS
      <4>2. ~ (Distance(a, rx) + n - 1 >= LitSpan \div 2 - 1)
        BY <2>2 DEF CopiesLiteral
      <4>3. pad \in 0 .. 3 /\ pad <= n - 1
        <5> HIDE DEF pad, n
        <5> QED  BY <1>2, <1>5
      <4> HIDE DEF a, n, pad
      <4>4. - (LitSpan \div 2) <= off /\ off < LitSpan \div 2
        BY <1>2, <4>1, <4>2, <4>3 DEF Distance
      <4> QED  BY <1>2, <1>6, <4>4, RoundTrip
    <3>2. w \in WrittenWord
      <4>1. Field(off, LitSpan) \in Int
        BY <1>2, <1>6 DEF Field
      <4>2. Resized(ins.op, off) \in WordOps
        BY DEF Resized, Loads, WordOps, InstructionOps
      <4> QED  BY <4>1, <4>2, WordIs
    <3>3. w.op = Resized(ins.op, off) /\ w.imm = Field(off, LitSpan)
      BY DEF Word
    <3>4. tail = <<w>>
      BY <2>2
    <3> HIDE DEF w, tail
    <3>5. tail \in Seq(WrittenWord) /\ Len(tail) = 1 /\ tail[1] = w
      BY <3>2, <3>4
    <3>6. v[1 - 1] = tail[1] /\ Len(tail) > 0
      BY <3>5, FromZero
    <3>7. (rx + pad) - pad = rx
      <4> HIDE DEF pad
      <4> QED  BY <1>2, <1>6
    <3>8. ~ CopiesLiteral(ins.op, a, (rx + pad) - pad)
      BY <2>2, <3>7
    <3> HIDE DEF v, a, pad, n, copy
    <3>9. LoadForm(ins, a, pad, Len(tail), rx + pad, v)
      BY <1>5, <3>1, <3>3, <3>5, <3>6, <3>8 DEF LoadForm, n
    <3> QED  BY <1>3, <3>5, <3>6, <3>9 DEF Formed
  <2> QED  BY <2>1, <2>2
<1> HIDE DEF tail, pad
<1> QED  BY <1>1, <1>4, <1>6, <1>7, EmitsFar

-----------------------------------------------------------------------------
\* What is written behind the blocks, or nothing, leaves them as they are.
LEMMA WordStays ==
  ASSUME MovedInv, BlocksFollow, NEW j \in 0 .. idx - 1, NEW t \in start[j + 1] .. Behind(j) - 1,
         place' = place, \A p \in 1 .. Len(out) : out'[p] = out[p]
  PROVE  At(t)' = At(t)
<1>1. /\ start[j + 1] \in Int /\ Behind(j) \in Int /\ place.tramp \in Int /\ Len(out) \in Nat
      /\ place.tramp <= start[j + 1] /\ Behind(j) <= place.tramp + Len(out)
  <2>1. /\ start[j + 1] \in Int /\ Behind(j) \in Int /\ place.tramp \in Int /\ Len(out) \in Nat
        /\ j \in 0 .. Len(start) - 1
    BY Counted
  <2> QED  BY <2>1 DEF BlocksFollow
<1>2. \A x, y, l \in Int : y <= x /\ x <= y + l - 1 => (x - y) + 1 \in 1 .. l
  OBVIOUS
<1>3. t \in Int /\ place.tramp <= t /\ t <= place.tramp + Len(out) - 1
  <2>1. \A a, b, c, l, x \in Int :
          x \in a .. b - 1 /\ c <= a /\ b <= c + l => c <= x /\ x <= c + l - 1
    OBVIOUS
  <2>2. t \in Int /\ Len(out) \in Int
    BY <1>1
  <2> QED  BY <1>1, <2>1, <2>2
<1>4. t - place.tramp + 1 \in 1 .. Len(out)
  BY <1>1, <1>2, <1>3
<1>5. PICK p : p = t - place.tramp + 1
  OBVIOUS
<1>6. At(t)' = out'[p] /\ At(t) = out[p]
  BY <1>5 DEF At
<1> QED  BY <1>4, <1>5, <1>6

LEMMA BlockStays ==
  ASSUME MovedInv, BlocksFollow, NEW j \in 0 .. idx - 1, Block(j),
         place' = place, code' = code, dat' = dat, start'[j + 1] = start[j + 1], Behind(j)' = Behind(j),
         \A p \in 1 .. Len(out) : out'[p] = out[p]
  PROVE  Block(j)'
<1>1. start[j + 1] \in Int /\ Behind(j) \in Int
  BY Counted
<1>2. ASSUME NEW t \in start[j + 1] .. Behind(j) - 1  PROVE At(t)' = At(t)
  BY WordStays
<1>3. CASE code[j + 1].op = "prfm"
  BY <1>3 DEF Block
<1>4. CASE code[j + 1].op # "prfm"
  <2>1. PICK e \in start[j + 1] .. Behind(j) - 1 : EnteredAt(j, e)
    BY <1>4 DEF Block
  <2> DEFINE s == start[j + 1]
             n == Behind(j) - e
             v == WordsFrom(e, n)
  <2>2. Formed(code[j + 1], j, e - s, n, e, v) /\ Padding(j, e)
        /\ (code[j + 1].op # "adrp" => dat[j + 1] \in s .. e)
    BY <2>1 DEF EnteredAt
  <2>3. e \in Int /\ \A t : t \in s .. e - 1 => t \in s .. Behind(j) - 1
    BY <1>1
  <2>4. Padding(j, e)'
    <3>1. ASSUME NEW t \in s .. e - 1  PROVE At(t)'.op = "nop"
      <4>1. t \in s .. Behind(j) - 1 /\ At(t).op = "nop"
        BY <2>2, <2>3 DEF Padding
      <4> QED  BY <1>2, <4>1
    <3> QED  BY <3>1 DEF Padding
  <2>5. WordsFrom(e, n)' = WordsFrom(e, n)
    <3>1. WordsFrom(e, n)' = [k \in 0 .. n' - 1 |-> At(e + k)'] /\ n' = n
      BY DEF WordsFrom
    <3>2. \A k \in 0 .. n - 1 : e + k \in s .. Behind(j) - 1
      BY <1>1, <2>3
    <3>3. \A k \in 0 .. n - 1 : At(e + k)' = At(e + k)
      BY <1>2, <3>2
    <3> QED  BY <3>1, <3>3 DEF WordsFrom
  <2>6. PICK ins1, pad1, n1, v1 : ins1 = code[j + 1] /\ pad1 = e - s /\ n1 = n /\ v1 = v
    OBVIOUS
  <2>7. Formed(ins1, j, pad1, n1, e, v1)'
    BY <2>2, <2>6, FormStays
  <2>8. Formed(code[j + 1], j, e - start[j + 1], Behind(j) - e, e, WordsFrom(e, Behind(j) - e))'
    BY <2>5, <2>6, <2>7
  <2>9. EnteredAt(j, e)'
    BY <2>2, <2>4, <2>8 DEF EnteredAt
  <2> QED  BY <1>4, <2>9 DEF Block
<1> QED  BY <1>3, <1>4

LEMMA LinksStay ==
  ASSUME MovedInv, KeptInv, NEW j \in 0 .. idx - 1,
         place' = place, code' = code, dat' = dat, fmap' = fmap,
         start'[j + 1] = start[j + 1], Behind(j)' = Behind(j),
         \A p \in 1 .. Len(out) : out'[p] = out[p]
  PROVE  Compiled(code[j + 1], j)' /\ Block(j)' /\ Linked(j)'
<1>1. BlocksFollow /\ Compiled(code[j + 1], j) /\ Block(j) /\ Linked(j)
  BY DEF KeptInv
<1>2. Block(j)'
  BY <1>1, BlockStays
<1>3. Compiled(code[j + 1], j)'
  <2>1. PICK c : c = code[j + 1]
    OBVIOUS
  <2>2. Compiled(c, j)'
    BY <1>1, <2>1, SameForm
  <2> QED  BY <2>1, <2>2
<1>4. PICK s : s = start[j + 1]
  OBVIOUS
<1>5. Indices' = Indices /\ idx' = idx /\ (\A r : Refers(j, r)' = Refers(j, r))
  BY SameForm DEF idx, Refers
<1>6. ASSUME NEW r \in Indices, Refers(j, r)
      PROVE  IF r < idx THEN At(s)'.imm = Field(dat[r + 1] - s, FieldSpan(code[j + 1].op))
             ELSE s - place.tramp + 1 \in fmap[r]
  <2>1. Behind(j) = s + 1 /\ s \in Int
    BY <1>1, <1>4, <1>6, RefersNear, Counted
  <2>2. At(s)' = At(s)
    <3>1. s \in start[j + 1] .. Behind(j) - 1
      BY <1>4, <2>1
    <3> QED  BY <1>1, <3>1, WordStays
  <2>3. IF r < idx THEN At(s).imm = Field(dat[r + 1] - s, FieldSpan(code[j + 1].op))
        ELSE s - place.tramp + 1 \in fmap[r]
    BY <1>1, <1>4, <1>6 DEF Linked
  <2> QED  BY <2>2, <2>3
<1>7. Linked(j)'
  BY <1>4, <1>5, <1>6 DEF Linked
<1> QED  BY <1>2, <1>3, <1>7

LEMMA StutterKept ==
  ASSUME MovedInv, KeptInv, UNCHANGED movingVars
  PROVE  KeptInv'
<1>1. /\ place' = place /\ code' = code /\ dat' = dat /\ fmap' = fmap /\ start' = start
      /\ out' = out /\ done' = done
  BY DEF movingVars
<1>2. idx' = idx /\ count' = count /\ (\A j : Behind(j)' = Behind(j)) /\ (\A t : At(t)' = At(t))
      /\ (\A j, r : Refers(j, r)' = Refers(j, r))
  BY <1>1, SameForm DEF idx, Behind, At, Refers
<1>3. BlocksFollow'
  BY <1>1, <1>2 DEF BlocksFollow, KeptInv
<1>4. OnlyReferrersWait'
  BY <1>1, <1>2 DEF OnlyReferrersWait, KeptInv
<1>5. \A j \in 0 .. idx' - 1 : (Compiled(code[j + 1], j) /\ Block(j) /\ Linked(j))'
  BY <1>1, <1>2, LinksStay
<1>6. ASSUME NEW e  PROVE JumpsBackAt(e)' = JumpsBackAt(e)
  BY <1>1, <1>2 DEF JumpsBackAt, Padding
<1>7. done' => \E e \in start'[count' + 1] .. start'[count' + 1] + 1 : JumpsBackAt(e)'
  BY <1>1, <1>2, <1>6 DEF KeptInv
<1> QED  BY <1>3, <1>4, <1>5, <1>7 DEF KeptInv

\* The jump behind the instructions is put behind their blocks.
LEMMA JumpBehindKept ==
  ASSUME MovedInv, KeptInv, JumpBehind
  PROVE  KeptInv'
<1> DEFINE callback == place.base + count
           far == Distance(callback, rx) >= BranchSpan \div 2 - 1
           pad == IF far THEN PadFor(2) ELSE 0
           tail == IF far THEN JumpTo(callback) ELSE <<Word("b", Field(callback - rx, BranchSpan))>>
           words == Nops(pad) \o tail
<1>1. /\ callback \in Int /\ rx \in Int /\ rx = place.tramp + Len(out) /\ idx \in Nat /\ Len(out) \in Nat
      /\ place.tramp \in Int /\ count \in 1 .. 5 /\ BlocksFollow /\ BranchSpan \in Nat \ {0}
      /\ BranchSpan % 2 = 0 /\ BranchSpan \div 2 \in Int
      /\ \A j \in 0 .. idx - 1 : start[j + 1] \in Int /\ Behind(j) \in Int
  <2>1. BranchSpan \in Nat \ {0} /\ BranchSpan % 2 = 0 /\ BranchSpan \div 2 \in Int
    BY RelocationConstants, RelocationPlaces
  <2>2. BlocksFollow
    BY DEF KeptInv
  <2>3. \A j \in 0 .. idx - 1 : start[j + 1] \in Int /\ Behind(j) \in Int
    BY <2>2, Counted
  <2>4. place.base \in Int /\ count \in 1 .. 5 /\ rx = place.tramp + Len(out)
    BY <2>2, Counted
  <2> QED  BY <2>1, <2>2, <2>3, <2>4, Numbers
<1>2. pad \in 0 .. 1
  BY PadAligns
<1>3. tail \in Seq(WrittenWord) /\ Len(tail) \in {1, 4}
  <2>1. CASE far
    BY <1>1, <2>1, JumpWords
  <2>2. CASE ~ far
    <3> DEFINE w == Word("b", Field(callback - rx, BranchSpan))
    <3>1. Field(callback - rx, BranchSpan) \in Int
      <4> HIDE DEF callback
      <4> QED  BY <1>1 DEF Field
    <3>2. w \in WrittenWord /\ tail = <<w>>
      BY <2>2, <3>1, WordIs, OpsThere
    <3> HIDE DEF w, tail
    <3> QED  BY <3>2
  <2> QED  BY <2>1, <2>2
<1>4. Nops(pad) \in Seq(WrittenWord) /\ Len(Nops(pad)) = pad /\ \A k \in 1 .. pad : Nops(pad)[k].op = "nop"
  <2> HIDE DEF pad
  <2>1. pad \in Nat
    BY <1>2
  <2>2. Nops(pad) \in Seq(WrittenWord) /\ Len(Nops(pad)) = pad
    BY <2>1, NopsPlaced
  <2>3. \A k \in 1 .. pad : Nops(pad)[k].op = "nop"
    BY DEF Nops, Word
  <2> QED  BY <2>2, <2>3
<1>5. /\ place' = place /\ code' = code /\ dat' = dat /\ fmap' = fmap /\ done' = TRUE /\ ~ done
      /\ idx = count /\ start' = Append(start, rx)
  BY DEF JumpBehind
<1>6. out' = out \o words
  <2>1. CASE far
    BY <2>1 DEF JumpBehind
  <2>2. CASE ~ far
    <3> DEFINE w == Word("b", Field(callback - rx, BranchSpan))
    <3>1. out' = out \o <<w>> /\ tail = <<w>> /\ pad = 0
      BY <2>2 DEF JumpBehind
    <3> HIDE DEF w, far
    <3>2. Nops(0) \o tail = tail
      <4>1. Nops(0) = <<>>
        <5>1. Nops(0) \in Seq(WrittenWord) /\ Len(Nops(0)) = 0
          BY <1>1, NopsPlaced
        <5> QED  BY <5>1
      <4> HIDE DEF tail
      <4> QED  BY <1>3, <4>1, ConcatSimplifications
    <3> QED  BY <3>1, <3>2
  <2> QED  BY <2>1, <2>2
<1> DEFINE n == Len(tail)
<1>7. /\ words \in Seq(WrittenWord) /\ Len(words) = pad + n
      /\ \A p \in 1 .. pad : words[p].op = "nop"
      /\ \A p \in 1 .. n : words[pad + p] = tail[p]
  <2> DEFINE nops == Nops(pad)
  <2>1. nops \in Seq(WrittenWord) /\ Len(nops) = pad /\ (\A k \in 1 .. pad : nops[k].op = "nop")
        /\ words = nops \o tail
    BY <1>4
  <2> HIDE DEF nops, words, tail, pad
  <2>2. /\ nops \o tail \in Seq(WrittenWord) /\ Len(nops \o tail) = Len(nops) + Len(tail)
        /\ \A p \in 1 .. Len(nops) + Len(tail) :
             (nops \o tail)[p] = IF p <= Len(nops) THEN nops[p] ELSE tail[p - Len(nops)]
    BY <1>3, <2>1, ConcatProperties
  <2>3. \A p \in 1 .. pad + n : words[p] = IF p <= pad THEN nops[p] ELSE tail[p - pad]
    BY <2>1, <2>2
  <2> QED  BY <1>2, <1>3, <2>1, <2>2, <2>3
<1> HIDE DEF words, pad, tail, far, callback
<1>8. /\ Len(out') = Len(out) + pad + n /\ \A p \in 1 .. Len(out) : out'[p] = out[p]
      /\ \A p \in 1 .. pad + n : out'[Len(out) + p] = words[p]
  <2>1. out \in Seq(WrittenWord)
    BY DEF MovedInv
  <2> DEFINE joined == out \o words
  <2>2. /\ Len(joined) = Len(out) + Len(words)
        /\ \A p \in 1 .. Len(out) + Len(words) :
             joined[p] = IF p <= Len(out) THEN out[p] ELSE words[p - Len(out)]
    <3>1. words \in Seq(WrittenWord)
      BY <1>7
    <3> HIDE DEF n
    <3> QED  BY <2>1, <3>1, ConcatProperties
  <2>3. out' = joined
    BY <1>6
  <2> HIDE DEF joined
  <2>4. Len(words) \in Nat /\ Len(words) = pad + n /\ pad \in Nat /\ n \in Nat
    BY <1>2, <1>3, <1>7
  <2> HIDE DEF n
  <2>5. \A p \in 1 .. Len(out) : p \in 1 .. Len(out) + Len(words) /\ p <= Len(out)
    BY <1>1, <2>4
  <2>6. \A p \in 1 .. pad + n : /\ Len(out) + p \in 1 .. Len(out) + Len(words)
                                /\ ~ (Len(out) + p <= Len(out)) /\ (Len(out) + p) - Len(out) = p
    BY <1>1, <2>4
  <2>7. Len(out') = Len(out) + pad + n
    BY <1>1, <2>2, <2>3, <2>4
  <2> QED  BY <2>2, <2>3, <2>5, <2>6, <2>7
<1>9. /\ idx' = idx /\ count' = count /\ start' \in Seq(Int) /\ Len(start) = idx /\ Len(start') = idx + 1
      /\ start'[idx + 1] = rx /\ \A i \in 1 .. idx : start'[i] = start[i]
  <2>1. start \in Seq(Int) /\ Len(start) = idx
    BY <1>1, <1>5 DEF BlocksFollow
  <2>2. idx' = idx /\ count' = count
    BY <1>5 DEF idx, count
  <2>3. start' = Append(start, rx) /\ rx \in Int
    BY <1>1, <1>5
  <2> QED  BY <2>1, <2>2, <2>3, AppendProperties
<1>10. ASSUME NEW j \in 0 .. idx - 1  PROVE Behind(j)' = Behind(j)
  <2>1. Behind(j)' = start'[j + 2]
    BY <1>1, <1>9 DEF Behind
  <2>2. CASE j + 1 < idx
    <3>1. j + 2 \in 1 .. idx /\ Behind(j) = start[j + 2]
      BY <1>1, <1>9, <2>2 DEF Behind
    <3> QED  BY <1>9, <2>1, <3>1
  <2>3. CASE j + 1 = idx
    <3>1. j + 2 = idx + 1 /\ Behind(j) = rx
      BY <1>1, <1>9, <2>3 DEF Behind
    <3> QED  BY <1>9, <2>1, <3>1
  <2> QED  BY <1>1, <2>2, <2>3
<1>11. PICK s : s = rx
  OBVIOUS
<1>12. Behind(idx)' = s + pad + n
  <2>1. \A i : i = idx => Behind(i)' = place.tramp + Len(out')
    BY <1>5, <1>9 DEF Behind
  <2>2. PICK i : i = idx
    OBVIOUS
  <2>3. idx' = i /\ Behind(i)' = place.tramp + Len(out')
    BY <1>9, <2>1, <2>2
  <2>4. place.tramp + (Len(out) + pad + n) = place.tramp + Len(out) + pad + n
    <3>1. pad \in Int /\ n \in Int
      BY <1>2, <1>3
    <3> HIDE DEF n
    <3> QED  BY <1>1, <3>1
  <2>5. Behind(i)' = s + pad + n
    BY <1>1, <1>8, <1>11, <2>3, <2>4
  <2> QED  BY <2>3, <2>5
<1>13. BlocksFollow'
  <2>1. /\ \A j \in 0 .. idx - 1 : /\ place.tramp <= start[j + 1] /\ start[j + 1] <= Behind(j)
                                   /\ Behind(j) <= rx
        /\ \A j, k \in 0 .. idx - 1 : j < k => Behind(j) <= start[k + 1]
    BY <1>1, <1>9 DEF BlocksFollow
  <2>2. n \in Nat /\ pad \in Nat
    BY <1>2, <1>3
  <2>9. s \in Int /\ place.tramp <= s
    BY <1>1, <1>11
  <2>3. PICK i : i = idx
    OBVIOUS
  <2>4. Behind(i)' = s + pad + n
    BY <1>9, <1>12, <2>3
  <2>5. ASSUME NEW j \in 0 .. i
        PROVE  place.tramp <= start'[j + 1] /\ start'[j + 1] <= Behind(j)' /\ Behind(j)' <= s + pad + n
    <3>1. CASE j \in 0 .. idx - 1
      <4>1. start'[j + 1] = start[j + 1] /\ Behind(j)' = Behind(j)
        BY <1>1, <1>9, <1>10, <3>1
      <4>2. place.tramp <= start[j + 1] /\ start[j + 1] <= Behind(j) /\ Behind(j) <= s
        BY <1>11, <2>1, <3>1
      <4>3. Behind(j) \in Int
        BY <1>1, <3>1
      <4>4. Behind(j) <= s + pad + n
        <5> HIDE DEF n
        <5> QED  BY <2>2, <2>9, <4>2, <4>3
      <4> QED  BY <4>1, <4>2, <4>4
    <3>2. CASE j = i
      <4>1. start'[j + 1] = s /\ Behind(j)' = s + pad + n
        BY <1>9, <1>11, <2>3, <2>4, <3>2
      <4>2. place.tramp <= s /\ s <= s + pad + n /\ s + pad + n <= s + pad + n
        <5> HIDE DEF n
        <5> QED  BY <2>2, <2>9
      <4> QED  BY <4>1, <4>2
    <3> QED  BY <1>1, <2>3, <3>1, <3>2
  <2>6. ASSUME NEW j \in 0 .. i, NEW k \in 0 .. i, j < k  PROVE Behind(j)' <= start'[k + 1]
    <3>1. j \in 0 .. idx - 1 /\ Behind(j)' = Behind(j)
      BY <1>1, <1>10, <2>3, <2>6
    <3>2. CASE k \in 0 .. idx - 1
      BY <1>1, <1>9, <2>1, <2>6, <3>1, <3>2
    <3>3. CASE k = i
      BY <1>9, <2>1, <2>3, <3>1, <3>3
    <3> QED  BY <1>1, <2>3, <3>2, <3>3
  <2>7. place'.tramp + Len(out') = s + pad + n
    <3>1. place' = place /\ Len(out') = Len(out) + pad + n
      BY <1>5, <1>8
    <3>2. s = place.tramp + Len(out) /\ place.tramp \in Int /\ Len(out) \in Int
      BY <1>1, <1>11
    <3> HIDE DEF n
    <3> QED  BY <2>2, <3>1, <3>2
  <2>8. Len(start') = idx' + (IF done' THEN 1 ELSE 0) /\ 0 .. Len(start') - 1 = 0 .. i
    BY <1>1, <1>5, <1>9, <2>3
  <2> QED  BY <1>5, <1>9, <2>5, <2>6, <2>7, <2>8 DEF BlocksFollow
<1>14. OnlyReferrersWait'
  <2>1. OnlyReferrersWait
    BY DEF KeptInv
  <2>2. \A j, r : Refers(j, r)' = Refers(j, r)
    BY <1>5, SameForm DEF Refers
  <2>3. ASSUME NEW r \in 0 .. 4, r >= idx, NEW p \in fmap[r]
        PROVE  \E j \in 0 .. idx - 1 : start'[j + 1] = place.tramp + p - 1 /\ Refers(j, r)
    <3>1. PICK j \in 0 .. idx - 1 : start[j + 1] = place.tramp + p - 1 /\ Refers(j, r)
      BY <2>1, <2>3 DEF OnlyReferrersWait
    <3>2. start'[j + 1] = start[j + 1]
      BY <1>1, <1>9
    <3> QED  BY <3>1, <3>2
  <2> QED  BY <1>5, <1>9, <2>2, <2>3 DEF OnlyReferrersWait
<1>15. \A j \in 0 .. idx' - 1 : (Compiled(code[j + 1], j) /\ Block(j) /\ Linked(j))'
  <2> SUFFICES ASSUME NEW j \in 0 .. idx - 1  PROVE (Compiled(code[j + 1], j) /\ Block(j) /\ Linked(j))'
    BY <1>9
  <2>1. start'[j + 1] = start[j + 1] /\ Behind(j)' = Behind(j)
    BY <1>1, <1>9, <1>10
  <2> QED  BY <1>5, <1>8, <2>1, LinksStay
<1>16. ASSUME NEW p \in 1 .. pad + n  PROVE At(s + p - 1)' = words[p]
  <2>2. PICK t : t = s + p - 1
    OBVIOUS
  <2>3. PICK q : q = Len(out) + p
    OBVIOUS
  <2>4. At(t)' = out'[t - place.tramp + 1]
    BY <1>5 DEF At
  <2>6. t - place.tramp + 1 = q
    <3>1. pad + n \in Int /\ s \in Int /\ Len(out) \in Int /\ place.tramp \in Int
      BY <1>1, <1>2, <1>3, <1>11
    <3> HIDE DEF n
    <3>2. p \in Int
      BY <3>1
    <3>3. s = place.tramp + Len(out)
      BY <1>1, <1>11
    <3>4. \A x, l, m, u \in Int : u = (x + l) + (m - 1) => (u - x) + 1 = l + m
      OBVIOUS
    <3>5. t \in Int /\ t = s + (p - 1)
      BY <2>2, <3>1, <3>2
    <3>6. (t - place.tramp) + 1 = Len(out) + p
      <4>1. t = (place.tramp + Len(out)) + (p - 1)
        BY <3>3, <3>5
      <4> QED  BY <3>1, <3>2, <3>5, <4>1
    <3> QED  BY <2>3, <3>6
  <2>5. At(t)' = out'[q]
    BY <2>4, <2>6
  <2> QED  BY <1>8, <2>2, <2>3, <2>5
<1>17. \E e \in start'[count' + 1] .. start'[count' + 1] + 1 : JumpsBackAt(e)'
  <2>1. PICK e : e = s + pad
    OBVIOUS
  <2>2. PICK c : c = count
    OBVIOUS
  <2>3. /\ e \in Int /\ e \in s .. s + 1 /\ pad \in Nat /\ n \in {1, 4}
        /\ s + pad + n - e = n /\ e < s + pad + n /\ s \in Int
    <3>1. pad \in {0, 1} /\ n \in {1, 4} /\ s \in Int
      BY <1>1, <1>2, <1>3, <1>11
    <3> HIDE DEF n
    <3> QED  BY <2>1, <3>1
  <2>4. start'[c + 1] = s /\ place'.tramp + Len(out') = s + pad + n
    <3>1. start'[c + 1] = s
      BY <1>5, <1>9, <1>11, <2>2
    <3>2. place.tramp + (Len(out) + pad + n) = place.tramp + Len(out) + pad + n
      <4>1. pad \in Int /\ n \in Int
        BY <1>2, <1>3
      <4> HIDE DEF n
      <4> QED  BY <1>1, <4>1
    <3> QED  BY <1>1, <1>5, <1>8, <1>11, <3>1, <3>2
  <2>5. Padding(c, e)'
    <3>1. ASSUME NEW t \in s .. e - 1  PROVE At(t)'.op = "nop"
      <4>1. t - s + 1 \in 1 .. pad /\ t - s + 1 \in 1 .. pad + n /\ s + (t - s + 1) - 1 = t
        BY <1>2, <1>3, <2>1, <2>3
      <4> QED  BY <1>7, <1>16, <4>1
    <3> QED  BY <2>4, <3>1 DEF Padding
  <2>6. ASSUME NEW k \in 0 .. n - 1  PROVE At(e + k)' = tail[k + 1]
    <3>1. pad + k + 1 \in 1 .. pad + n /\ s + (pad + k + 1) - 1 = e + k /\ k + 1 \in 1 .. n
          /\ pad + (k + 1) = pad + k + 1
      BY <1>2, <1>3, <2>1, <2>3
    <3> QED  BY <1>7, <1>16, <3>1
  <2>7. \/ n = 1 /\ At(e)'.op = "b" /\ Signed(At(e)'.imm, BranchSpan) = callback - e
        \/ /\ n = 4 /\ At(e)' = Word("ldr17", 2) /\ At(e + 1)' = Word("br17", 0)
           /\ At(e + 2)' = Word("addr", callback)
    <3>1. CASE far
      <4>1. tail = JumpTo(callback) /\ n = 4 /\ tail[1] = Word("ldr17", 2)
            /\ tail[2] = Word("br17", 0) /\ tail[3] = Word("addr", callback)
        <5>1. tail = JumpTo(callback)
          BY <3>1 DEF tail, far
        <5> QED  BY <1>1, <5>1, JumpWords
      <4>2. e + 0 = e /\ 0 \in 0 .. n - 1 /\ 1 \in 0 .. n - 1 /\ 2 \in 0 .. n - 1
        BY <2>3, <4>1
      <4>3. At(e + 0)' = tail[0 + 1] /\ At(e + 1)' = tail[1 + 1] /\ At(e + 2)' = tail[2 + 1]
        BY <2>6, <4>2
      <4> QED  BY <4>1, <4>2, <4>3
    <3>2. CASE ~ far
      <4> DEFINE w == Word("b", Field(callback - rx, BranchSpan))
      <4>1. tail = <<w>> /\ w.op = "b" /\ w.imm = Field(callback - s, BranchSpan)
        BY <1>11, <3>2 DEF tail, far, Word
      <4> HIDE DEF w
      <4>2. n = 1 /\ tail[1] = w
        BY <4>1
      <4>3. e + 0 = e /\ 0 \in 0 .. n - 1 /\ 0 + 1 = 1
        BY <2>3, <4>2
      <4>4. At(e + 0)' = tail[0 + 1]
        BY <2>6, <4>3
      <4>5. e = s
        BY <1>1, <1>11, <2>1, <3>2 DEF pad
      <4>6. - (BranchSpan \div 2) <= callback - s /\ callback - s < BranchSpan \div 2
        <5>1. \A x, y, h \in Int : ~ ((IF x < y THEN y - x ELSE x - y) >= h - 1) => - h <= x - y /\ x - y < h
          OBVIOUS
        <5>2. ~ (Distance(callback, s) >= BranchSpan \div 2 - 1)
          BY <1>11, <3>2 DEF far
        <5> QED  BY <1>1, <1>11, <5>1, <5>2 DEF Distance
      <4>7. Signed(Field(callback - s, BranchSpan), BranchSpan) = callback - s
        BY <1>1, <1>11, <4>6, RoundTrip
      <4> QED  BY <4>1, <4>2, <4>3, <4>4, <4>5, <4>7
    <3> QED  BY <3>1, <3>2
  <2>8. /\ (place.base + count)' = callback /\ count' = c /\ callback = place.base + c
    BY <1>5, <1>9, <2>2 DEF callback
  <2>9. JumpsBackAt(e)'
    <3> HIDE DEF n
    <3>1. e \in start'[c + 1] .. start'[c + 1] + 1 /\ e < place'.tramp + Len(out')
          /\ place'.tramp + Len(out') - e = n
      <4>1. place'.tramp \in Int /\ Len(out') \in Int /\ pad \in Int /\ n \in Int
        <5>1. pad \in Int /\ n \in Int
          BY <2>3 DEF n
        <5> QED  BY <1>1, <1>5, <1>8, <5>1
      <4>2. e \in s .. s + 1 /\ start'[c + 1] = s
        BY <2>3, <2>4
      <4> QED  BY <2>1, <2>3, <2>4, <4>1, <4>2
    <3>2. PICK m : m = n
      OBVIOUS
    <3> QED  BY <2>5, <2>7, <2>8, <3>1, <3>2 DEF JumpsBackAt
  <2> QED  BY <2>3, <2>4, <2>8, <2>9
<1> QED  BY <1>5, <1>13, <1>14, <1>15, <1>17 DEF KeptInv

-----------------------------------------------------------------------------
\* What is read at a place, from the source: the places Offsets gives, and pages next to its own.
LEMMA AsCompiled ==
  ASSUME MovedInv, KeptInv, idx < count, NEW ins \in InstructionsAt
  PROVE  Fixing(ins)
<1>1. /\ pc \in Int /\ place.base \in Int /\ idx \in Int /\ pc = place.base + idx
      /\ ins \in MovedInstruction
  <2>1. pc \in Int /\ idx \in Int
    BY Numbers
  <2>2. place.base \in Int
    BY PlacesAreNumbers DEF MovedInv
  <2> QED  BY <2>1, <2>2, InstructionsAreTyped DEF pc
<1> SUFFICES Compiled(ins, idx)
  BY <1>1 DEF Fixing
<1> DEFINE a == RefersTo(ins, place.base + idx)
<1>2. CASE ins = Word("plain", 0) \/ ins = Word("prfm", 0)
  <2>1. ins.op \notin Referrers /\ ins.op \notin DOMAIN Loads /\ ins.op # "adrp" /\ ins.op \notin Conditionals
    BY <1>2 DEF Word, Referrers, Branches, Conditionals, Loads
  <2> QED  BY <2>1 DEF Compiled
<1>3. ASSUME NEW p \in {-1, 0, 1}, ins = Word("adrp", Field(p, PageSpan))
      PROVE  Compiled(ins, idx)
  <2>1. ins.op = "adrp" /\ ins.imm = Field(p, PageSpan)
    BY <1>3 DEF Word
  <2>2. ins.op \notin Referrers /\ ins.op \notin DOMAIN Loads /\ ins.op \notin Conditionals
    BY <2>1 DEF Referrers, Branches, Conditionals, Loads
  <2>3. Signed(Field(p, PageSpan), PageSpan) = p
    <3>1. PageSpan \in Nat \ {0} /\ PageSpan >= 4 /\ PageSpan % 2 = 0
      BY RelocationConstants, RelocationPlaces
    <3>2. - (PageSpan \div 2) <= p /\ p < PageSpan \div 2 /\ p \in Int
      BY <3>1
    <3> QED  BY <3>1, <3>2, RoundTrip
  <2> QED  BY <2>1, <2>2, <2>3 DEF Compiled
<1>4. ASSUME NEW op \in Referrers \cup DOMAIN Loads, NEW o \in Reachable(op),
             op \in DOMAIN Loads => IsLiteral(op, o), ins = Word(op, Field(o, FieldSpan(op)))
      PROVE  Compiled(ins, idx)
  <2>1. ins.op = op /\ ins.imm = Field(o, FieldSpan(op))
    BY <1>4 DEF Word
  <2>2. op # "adrp" /\ op \in InstructionOps
    BY DEF Referrers, Branches, Conditionals, Loads, InstructionOps
  <2>3. PICK r \in Offsets : o = place.base + r - pc
    BY DEF Reachable
  <2>4. r \in Int /\ FieldSpan(op) \in Nat \ {0} /\ FieldSpan(op) % 2 = 0
    BY <2>2, EvenSpans, RelocationConstants
  <2>5. o \in Int /\ - (FieldSpan(op) \div 2) <= o /\ o < FieldSpan(op) \div 2
    <3>1. o \in - (FieldSpan(op) \div 2) .. FieldSpan(op) \div 2 - 1
      BY DEF Reachable
    <3>2. FieldSpan(op) \div 2 \in Int
      BY <2>4
    <3> QED  BY <3>1, <3>2
  <2>6. Signed(ins.imm, FieldSpan(op)) = o
    BY <2>1, <2>4, <2>5, RoundTrip
  <2>7. a = pc + o
    BY <1>1, <2>1, <2>2, <2>6 DEF RefersTo
  <2>8. a - place.base = r
    BY <1>1, <2>3, <2>4, <2>7
  <2>9. op \in DOMAIN Loads /\ a < place.base => a + Loads[op] <= place.base
    BY <1>4, <2>7 DEF IsLiteral
  <2>10. ins.imm < FieldSpan(op)
    BY <2>1, <2>4, <2>5 DEF Field
  <2> QED  BY <2>1, <2>2, <2>8, <2>9, <2>10 DEF Compiled
<1>5. \A op \in DOMAIN Loads : FieldSpan(op) = LitSpan
  BY DEF FieldSpan, Branches, Loads
<1>6. \/ ins \in { Word("plain", 0), Word("prfm", 0) }
      \/ \E p \in {-1, 0, 1} : ins = Word("adrp", Field(p, PageSpan))
      \/ \E op \in Branches \cup Conditionals \cup {"adr", "adru"} : \E o \in Reachable(op) :
           ins = Word(op, Field(o, FieldSpan(op)))
      \/ \E op \in DOMAIN Loads : \E o \in Reachable(op) :
           IsLiteral(op, o) /\ ins = Word(op, Field(o, LitSpan))
  BY DEF InstructionsAt
<1>7. CASE \E op \in Branches \cup Conditionals \cup {"adr", "adru"} : \E o \in Reachable(op) :
             ins = Word(op, Field(o, FieldSpan(op)))
  <2>1. PICK op \in Branches \cup Conditionals \cup {"adr", "adru"} : \E o \in Reachable(op) :
          ins = Word(op, Field(o, FieldSpan(op)))
    BY <1>7
  <2>2. op \in Referrers /\ op \notin DOMAIN Loads
    BY DEF Referrers, Branches, Conditionals, Loads
  <2> QED  BY <1>4, <2>1, <2>2
<1>8. CASE \E op \in DOMAIN Loads : \E o \in Reachable(op) :
             IsLiteral(op, o) /\ ins = Word(op, Field(o, LitSpan))
  BY <1>4, <1>5, <1>8
<1> QED  BY <1>2, <1>3, <1>6, <1>7, <1>8

LEMMA InitKept == MovingInit => KeptInv
<1> SUFFICES ASSUME MovingInit  PROVE KeptInv
  OBVIOUS
<1>1. /\ start = <<>> /\ code = <<>> /\ done = FALSE /\ fmap = [i \in 0 .. 4 |-> {}] /\ idx = 0
  BY DEF MovingInit, idx
<1>2. BlocksFollow
  BY <1>1 DEF BlocksFollow
<1>3. OnlyReferrersWait
  BY <1>1 DEF OnlyReferrersWait
<1> QED  BY <1>1, <1>2, <1>3 DEF KeptInv

LEMMA StepKept == MovedInv /\ KeptInv /\ [MovingNext]_movingVars => KeptInv'
<1> SUFFICES ASSUME MovedInv, KeptInv, [MovingNext]_movingVars  PROVE KeptInv'
  OBVIOUS
<1>1. CASE FixNext
  <2>1. PICK ins \in InstructionsAt :
          \/ __fix_branch_imm(ins) \/ __fix_cond_comp_test_branch(ins)
          \/ __fix_loadlit(ins) \/ __fix_pcreladdr(ins) \/ CopyInstruction(ins)
    BY <1>1 DEF FixNext
  <2>2. Fixing(ins)
    BY <1>1, <2>1, AsCompiled DEF FixNext
  <2>3. CASE __fix_branch_imm(ins)
    BY <2>2, <2>3, BranchKept
  <2>4. CASE __fix_cond_comp_test_branch(ins)
    BY <2>2, <2>4, ConditionalKept
  <2>5. CASE __fix_loadlit(ins)
    <3>1. ins.op \in DOMAIN Loads \/ (ins.op = "prfm" /\ Emit(ins, <<>>, rx, {}))
      BY <2>5 DEF __fix_loadlit
    <3> QED  BY <2>2, <2>5, <3>1, LoadKept, PrefetchKept
  <2>6. CASE __fix_pcreladdr(ins)
    <3>1. ins.op \in {"adr", "adru"} \/ ins.op = "adrp"
      BY <2>6 DEF __fix_pcreladdr
    <3> QED  BY <2>2, <2>6, <3>1, AdrKept, AdrpKept
  <2>7. CASE CopyInstruction(ins)
    BY <2>2, <2>7, PlainKept
  <2> QED  BY <2>1, <2>3, <2>4, <2>5, <2>6, <2>7
<1>2. CASE JumpBehind
  BY <1>2, JumpBehindKept
<1>3. CASE UNCHANGED movingVars
  BY <1>3, StutterKept
<1> QED  BY <1>1, <1>2, <1>3 DEF MovingNext

-----------------------------------------------------------------------------
(***************************************************************************)
(* The finished trampoline: where control that reaches a word is.          *)
(***************************************************************************)
Finished == MovedInv /\ KeptInv /\ done

\* Instruction m, or the jump behind them all, is entered at e.
Enters(m, e) ==
  /\ m \in 0 .. count /\ (m < count => code[m + 1].op # "prfm")
  /\ e \in start[m + 1] .. Behind(m) - 1 /\ Padding(m, e) /\ At(e).op # "nop"

LEMMA Grounds ==
  ASSUME Finished
  PROVE  /\ MovedInv /\ KeptInv /\ BlocksFollow
         /\ place.base \in Int /\ place.tramp \in Int /\ count \in 1 .. 5 /\ idx = count
         /\ Len(out) \in 0 .. TrampolineWords /\ Behind(count) = place.tramp + Len(out)
         /\ \A k \in 0 .. count : /\ start[k + 1] \in Int /\ Behind(k) \in Int
                                  /\ place.tramp <= start[k + 1] /\ start[k + 1] <= Behind(k)
                                  /\ Behind(k) <= place.tramp + Len(out)
         /\ \A k \in 0 .. count - 1 : Behind(k) = start[(k + 1) + 1]
         /\ \A j, k \in 0 .. count : j < k => Behind(j) <= start[k + 1]
<1>1. MovedInv /\ KeptInv /\ BlocksFollow /\ done
  BY DEF Finished, KeptInv
<1>2. place.base \in Int /\ place.tramp \in Int /\ count \in 1 .. 5 /\ Len(out) \in Nat /\ idx = count
  BY <1>1, Counted DEF MovedInv
<1>3. Len(start) = count + 1
  BY <1>1, <1>2 DEF BlocksFollow
<1>4. 0 .. Len(start) - 1 = 0 .. count
  BY <1>2, <1>3
<1>5. \A k \in 0 .. count : start[k + 1] \in Int /\ Behind(k) \in Int
  BY <1>1, <1>4, Counted
<1>6. Len(out) \in 0 .. TrampolineWords
  <2>1. Fits
    BY <1>1, MovedIsWhole DEF TrampolineWhole
  <2>2. Len(out) <= 50 /\ Len(out) \in Nat
    BY <1>2, <2>1 DEF Fits, TrampolineWords
  <2>3. \A n \in Nat : n <= 50 => n \in 0 .. 50
    OBVIOUS
  <2>4. Len(out) \in 0 .. 50
    BY <2>2, <2>3
  <2> QED  BY <2>4, Zenon DEF TrampolineWords
<1>7. Behind(count) = place.tramp + Len(out)
  BY <1>2, <1>3 DEF Behind
<1>8. ASSUME NEW k \in 0 .. count - 1  PROVE Behind(k) = start[(k + 1) + 1]
  <2>1. k + 1 < Len(start) /\ k + 2 = (k + 1) + 1
    BY <1>2, <1>3
  <2> QED  BY <2>1 DEF Behind
<1>9. /\ \A k \in 0 .. count : /\ place.tramp <= start[k + 1] /\ start[k + 1] <= Behind(k)
                               /\ Behind(k) <= place.tramp + Len(out)
      /\ \A j, k \in 0 .. count : j < k => Behind(j) <= start[k + 1]
  BY <1>1, <1>4 DEF BlocksFollow
<1> QED  BY <1>1, <1>2, <1>5, <1>6, <1>7, <1>8, <1>9

\* The word a block is entered at does something.
LEMMA Formed0 ==
  ASSUME NEW ins \in MovedInstruction, NEW j, NEW pad, NEW n \in Nat, NEW e \in Int, n > 0,
         Formed(ins, j, pad, n, e, WordsFrom(e, n))
  PROVE  At(e).op # "nop"
<1> DEFINE v == WordsFrom(e, n)
           a == AsReadBy(ins, j)
<1>1. v[0] = At(e)
  <2>1. 0 \in 0 .. n - 1 /\ e + 0 = e
    OBVIOUS
  <2> QED  BY <2>1 DEF WordsFrom
<1>2. ins.op \in InstructionOps
  BY DEF MovedInstruction
<1> HIDE DEF v, a
<1>3. \/ PlainForm(ins, j, n, v) \/ NearForm(ins, a, pad, n, e, v)
      \/ JumpForm(ins, a, n, v) \/ CallForm(ins, a, n, v) \/ SkipForm(ins, a, n, v)
      \/ AddressForm(ins, a, n, v) \/ PageForm(ins, a, n, v)
      \/ CopyForm(ins, a, pad, n, e, v) \/ LoadForm(ins, a, pad, n, e, v)
  BY DEF Formed, v, a
<1>4. ins.op # "nop"
  BY <1>2 DEF InstructionOps
<1>5. CASE PlainForm(ins, j, n, v)
  BY <1>1, <1>5 DEF PlainForm, Word
<1>6. CASE NearForm(ins, a, pad, n, e, v)
  BY <1>1, <1>4, <1>6 DEF NearForm, AdrOf
<1>7. CASE JumpForm(ins, a, n, v) \/ CallForm(ins, a, n, v) \/ AddressForm(ins, a, n, v) \/ PageForm(ins, a, n, v)
  BY <1>1, <1>7 DEF JumpForm, CallForm, AddressForm, PageForm, Word
<1>8. CASE SkipForm(ins, a, n, v) \/ CopyForm(ins, a, pad, n, e, v)
  BY <1>1, <1>4, <1>8 DEF SkipForm, CopyForm, Word
<1>9. CASE LoadForm(ins, a, pad, n, e, v)
  BY <1>1, <1>4, <1>9 DEF LoadForm, Resized
<1> QED  BY <1>3, <1>5, <1>6, <1>7, <1>8, <1>9

LEMMA Entrance ==
  ASSUME Finished, NEW j \in 0 .. count - 1, code[j + 1].op # "prfm"
  PROVE  \E e : Enters(j, e) /\ EnteredAt(j, e)
<1>1. Block(j) /\ j \in 0 .. idx - 1 /\ j \in 0 .. count /\ code[j + 1] \in MovedInstruction
  <2>1. j \in 0 .. idx - 1 /\ j \in 0 .. count
    BY Grounds
  <2>2. code[j + 1] \in MovedInstruction
    BY <2>1, Grounds, Counted
  <2> QED  BY <2>1, <2>2 DEF Finished, KeptInv
<1>2. PICK e \in start[j + 1] .. Behind(j) - 1 : EnteredAt(j, e)
  BY <1>1 DEF Block
<1>3. e \in Int /\ Behind(j) - e \in Nat /\ Behind(j) - e > 0
  <2>1. start[j + 1] \in Int /\ Behind(j) \in Int
    BY <1>1, Grounds
  <2> QED  BY <2>1
<1>4. At(e).op # "nop"
  BY <1>1, <1>2, <1>3, Formed0 DEF EnteredAt
<1> QED  BY <1>1, <1>2, <1>4 DEF Enters, EnteredAt

LEMMA LastEntrance ==
  ASSUME Finished
  PROVE  \E e : Enters(count, e) /\ JumpsBackAt(e)
<1>1. PICK e : JumpsBackAt(e)
  BY DEF Finished, KeptInv
<1>2. /\ e \in start[count + 1] .. start[count + 1] + 1 /\ e < place.tramp + Len(out) /\ Padding(count, e)
      /\ At(e).op \in {"b", "ldr17"}
  BY <1>1 DEF JumpsBackAt, Word
<1>3. count \in 0 .. count /\ start[count + 1] \in Int /\ Behind(count) = place.tramp + Len(out)
      /\ Behind(count) \in Int
  <2>1. count \in 0 .. count
    BY Grounds
  <2> QED  BY <2>1, Grounds
<1>4. e \in start[count + 1] .. Behind(count) - 1 /\ ~ (count < count)
  <2>1. count \in Int
    BY Grounds
  <2> QED  BY <1>2, <1>3, <2>1
<1> QED  BY <1>1, <1>2, <1>3, <1>4 DEF Enters

\* The first word behind the no-ops.
LEMMA AwakeAt ==
  ASSUME Finished, NEW a \in Int, NEW e \in Int, a <= e, e < place.tramp + Len(out),
         At(e).op # "nop", \A t \in a .. e - 1 : At(t).op = "nop"
  PROVE  Awake(a) = e
<1> DEFINE S == { t \in a .. place.tramp + Len(out) - 1 : At(t).op # "nop" }
<1>1. place.tramp \in Int /\ Len(out) \in Int
  <2>1. Len(out) \in 0 .. TrampolineWords
    BY Grounds
  <2> QED  BY <2>1, Grounds DEF TrampolineWords
<1>2. e \in S
  BY <1>1
<1>3. \A t \in S : e <= t /\ t \in Int
  BY <1>1
<1>4. \A x \in S : (\A y \in S : x <= y) => x = e
  BY <1>2, <1>3
<1>5. Min(S) = e
  BY <1>2, <1>3, <1>4 DEF Min
<1> QED  BY <1>5 DEF Awake

LEMMA Inhabited ==
  ASSUME NEW S, S \subseteq 0 .. 5, S # {}
  PROVE  /\ Min(S) \in S /\ \A y \in S : Min(S) <= y
         /\ Max(S) \in S /\ \A y \in S : y <= Max(S)
<1>0. /\ \A y \in S : y \in Int /\ 0 <= y /\ y <= 5
      /\ 0 \in S \/ 1 \in S \/ 2 \in S \/ 3 \in S \/ 4 \in S \/ 5 \in S
  <2>1. PICK z : z \in S
    OBVIOUS
  <2>2. \A y \in 0 .. 5 : y = 0 \/ y = 1 \/ y = 2 \/ y = 3 \/ y = 4 \/ y = 5
    OBVIOUS
  <2>3. z \in 0 .. 5
    BY <2>1
  <2>4. \A y \in S : y \in Int /\ 0 <= y /\ y <= 5
    <3> TAKE y \in S
    <3>1. y \in 0 .. 5
      OBVIOUS
    <3> QED  BY <3>1
  <2> QED  BY <2>1, <2>2, <2>3, <2>4
<1>1. \E x \in S : \A y \in S : x <= y
  <2>2. CASE 0 \in S
    BY <1>0, <2>2
  <2>3. CASE 0 \notin S /\ 1 \in S
    BY <1>0, <2>3
  <2>4. CASE 0 \notin S /\ 1 \notin S /\ 2 \in S
    BY <1>0, <2>4
  <2>5. CASE 0 \notin S /\ 1 \notin S /\ 2 \notin S /\ 3 \in S
    BY <1>0, <2>5
  <2>6. CASE 0 \notin S /\ 1 \notin S /\ 2 \notin S /\ 3 \notin S /\ 4 \in S
    BY <1>0, <2>6
  <2>7. CASE 0 \notin S /\ 1 \notin S /\ 2 \notin S /\ 3 \notin S /\ 4 \notin S /\ 5 \in S
    BY <1>0, <2>7
  <2> QED  BY <1>0, <2>2, <2>3, <2>4, <2>5, <2>6, <2>7
<1>2. \E x \in S : \A y \in S : y <= x
  <2>2. CASE 5 \in S
    BY <1>0, <2>2
  <2>3. CASE 5 \notin S /\ 4 \in S
    BY <1>0, <2>3
  <2>4. CASE 5 \notin S /\ 4 \notin S /\ 3 \in S
    BY <1>0, <2>4
  <2>5. CASE 5 \notin S /\ 4 \notin S /\ 3 \notin S /\ 2 \in S
    BY <1>0, <2>5
  <2>6. CASE 5 \notin S /\ 4 \notin S /\ 3 \notin S /\ 2 \notin S /\ 1 \in S
    BY <1>0, <2>6
  <2>7. CASE 5 \notin S /\ 4 \notin S /\ 3 \notin S /\ 2 \notin S /\ 1 \notin S /\ 0 \in S
    BY <1>0, <2>7
  <2> QED  BY <1>0, <2>2, <2>3, <2>4, <2>5, <2>6, <2>7
<1>3. Min(S) \in S /\ \A y \in S : Min(S) <= y
  BY <1>1 DEF Min
<1>4. \A y \in S : y >= 0
  OBVIOUS
<1>5. Max(S) \in S /\ \A y \in S : Max(S) >= y
  <2>1. \E x \in S : \A y \in S : x >= y
    BY <1>2
  <2> QED  BY <2>1 DEF Max
<1>6. \A y \in S : y <= Max(S)
  <2>1. Max(S) \in Int /\ \A y \in S : y \in Int
    BY <1>0, <1>5
  <2> QED  BY <1>5, <2>1
<1> QED  BY <1>3, <1>5, <1>6

LEMMA Skipped ==
  ASSUME Finished, NEW k \in 0 .. count, NEW m, m = SkipPrefetch(k)
  PROVE  /\ m \in k .. count /\ m \in 0 .. count /\ (m < count => code[m + 1].op # "prfm")
         /\ \A i \in k .. m - 1 : code[i + 1].op = "prfm"
         /\ start[k + 1] = start[m + 1]
<1> DEFINE S == { i \in k .. count : i = count \/ code[i + 1].op # "prfm" }
<1>1. count \in 1 .. 5 /\ \A i \in 0 .. count : start[i + 1] \in Int
  BY Grounds
<1>2. m \in S /\ \A i \in S : m <= i
  <2>1. S \subseteq 0 .. 5 /\ count \in S
    BY <1>1
  <2> HIDE DEF S
  <2>2. Min(S) \in S /\ \A i \in S : Min(S) <= i
    BY <2>1, Inhabited
  <2> QED  BY <2>2 DEF SkipPrefetch, S
<1>3. m \in k .. count /\ m \in 0 .. count /\ (m < count => code[m + 1].op # "prfm")
  BY <1>1, <1>2
<1>4. ASSUME NEW i \in k .. m - 1  PROVE code[i + 1].op = "prfm"
  <2>1. i \in k .. count /\ ~ (m <= i) /\ i # count
    BY <1>1, <1>3
  <2> QED  BY <1>2, <2>1
<1>5. ASSUME NEW i \in k .. m - 1  PROVE start[i + 1] = start[(i + 1) + 1]
  <2>1. i \in 0 .. count - 1 /\ i \in 0 .. idx - 1 /\ i \in 0 .. count
    <3>1. idx = count
      BY Grounds
    <3> QED  BY <1>1, <1>3, <3>1
  <2>2. Behind(i) = start[i + 1]
    <3>1. Block(i)
      BY <2>1 DEF Finished, KeptInv
    <3> QED  BY <1>4, <3>1 DEF Block
  <2> QED  BY <2>1, <2>2, Grounds
<1>6. start[k + 1] = start[m + 1]
  <2>1. m = k \/ m = k + 1 \/ m = k + 2 \/ m = k + 3 \/ m = k + 4 \/ m = k + 5
    BY <1>1, <1>3
  <2>2. m >= k + 1 => start[k + 1] = start[(k + 1) + 1]
    BY <1>1, <1>3, <1>5
  <2>3. m >= k + 2 => start[(k + 1) + 1] = start[(k + 2) + 1]
    <3>1. (k + 1) + 1 = k + 2
      BY <1>1
    <3> QED  BY <1>1, <1>3, <1>5, <3>1
  <2>4. m >= k + 3 => start[(k + 2) + 1] = start[(k + 3) + 1]
    <3>1. (k + 2) + 1 = k + 3
      BY <1>1
    <3> QED  BY <1>1, <1>3, <1>5, <3>1
  <2>5. m >= k + 4 => start[(k + 3) + 1] = start[(k + 4) + 1]
    <3>1. (k + 3) + 1 = k + 4
      BY <1>1
    <3> QED  BY <1>1, <1>3, <1>5, <3>1
  <2>6. m >= k + 5 => start[(k + 4) + 1] = start[(k + 5) + 1]
    <3>1. (k + 4) + 1 = k + 5
      BY <1>1
    <3> QED  BY <1>1, <1>3, <1>5, <3>1
  <2> QED  BY <1>1, <2>1, <2>2, <2>3, <2>4, <2>5, <2>6
<1> QED  BY <1>3, <1>4, <1>6

\* An instruction is entered where the first of its successors that has words is.
LEMMA EntryOf ==
  ASSUME Finished, NEW k \in 0 .. count, NEW e, Enters(SkipPrefetch(k), e)
  PROVE  Entry(k) = e
<1> DEFINE m == SkipPrefetch(k)
<1>1. m \in 0 .. count /\ start[k + 1] = start[m + 1]
  BY Skipped
<1> HIDE DEF m
<1>2. e \in start[m + 1] .. Behind(m) - 1 /\ Padding(m, e) /\ At(e).op # "nop"
  BY DEF Enters, m
<1>3. start[m + 1] \in Int /\ Behind(m) \in Int /\ Behind(m) <= place.tramp + Len(out)
      /\ place.tramp \in Int /\ Len(out) \in Int
  <2>1. Len(out) \in 0 .. TrampolineWords
    BY Grounds
  <2> QED  BY <1>1, <2>1, Grounds DEF TrampolineWords
<1>4. \A t \in start[m + 1] .. e - 1 : At(t).op = "nop"
  BY <1>2 DEF Padding
<1>5. e \in Int /\ start[m + 1] <= e /\ e < place.tramp + Len(out)
  BY <1>2, <1>3
<1>6. Awake(start[m + 1]) = e
  BY <1>2, <1>3, <1>4, <1>5, AwakeAt
<1> QED  BY <1>1, <1>6 DEF Entry

LEMMA EveryEntry ==
  ASSUME Finished, NEW k \in 0 .. count
  PROVE  \E e : Enters(SkipPrefetch(k), e) /\ Entry(k) = e
<1> DEFINE m == SkipPrefetch(k)
<1>1. m \in 0 .. count /\ (m < count => code[m + 1].op # "prfm")
  BY Skipped
<1>2. \E e : Enters(m, e)
  <2>1. CASE m = count
    BY <2>1, LastEntrance
  <2>2. CASE m # count
    <3>1. m \in 0 .. count - 1
      <4>1. count \in 1 .. 5
        BY Grounds
      <4> QED  BY <1>1, <2>2, <4>1
    <3>2. m < count
      <4>1. count \in 1 .. 5
        BY Grounds
      <4> QED  BY <3>1, <4>1
    <3> QED  BY <1>1, <3>1, <3>2, Entrance
  <2> QED  BY <2>1, <2>2
<1> QED  BY <1>2, EntryOf

\* What is between the beginning of a block and its entrance is the place of its instruction.
LEMMA PlaceOf ==
  ASSUME Finished, NEW m, NEW e, Enters(m, e), NEW a \in start[m + 1] .. e
  PROVE  InTrampoline(a) /\ Entries(a) # {} /\ NewPlace(a) = <<"at", m>>
<1>1. /\ m \in 0 .. count /\ (m < count => code[m + 1].op # "prfm")
      /\ e \in start[m + 1] .. Behind(m) - 1 /\ Padding(m, e) /\ At(e).op # "nop"
  BY DEF Enters
<1>2. /\ start[m + 1] \in Int /\ Behind(m) \in Int /\ Behind(m) <= place.tramp + Len(out)
      /\ place.tramp \in Int /\ Len(out) \in Int /\ place.tramp <= start[m + 1] /\ count \in 1 .. 5
  <2>1. Len(out) \in 0 .. TrampolineWords
    BY Grounds
  <2> QED  BY <1>1, <2>1, Grounds DEF TrampolineWords
<1>3. a \in Int /\ e \in Int /\ start[m + 1] <= a /\ a <= e /\ e < Behind(m) /\ e < place.tramp + Len(out)
  BY <1>1, <1>2
<1>4. InTrampoline(a)
  <2>1. \A x, y, l \in Int : y <= x /\ x < y + l => x - y \in 0 .. l - 1
    OBVIOUS
  <2>2. place.tramp <= a /\ a < place.tramp + Len(out)
    BY <1>2, <1>3
  <2> QED  BY <1>2, <1>3, <2>1, <2>2 DEF InTrampoline
<1>5. Awake(a) = e
  <2>1. \A t \in a .. e - 1 : At(t).op = "nop"
    BY <1>1, <1>2, <1>3 DEF Padding
  <2> QED  BY <1>1, <1>3, <2>1, AwakeAt
<1>6. SkipPrefetch(m) = m
  <2>1. PICK q : q = SkipPrefetch(m)
    OBVIOUS
  <2>2. q \in m .. count /\ \A i \in m .. q - 1 : code[i + 1].op = "prfm"
    BY <1>1, <2>1, Skipped
  <2>3. q # m => m \in m .. q - 1 /\ m < count
    BY <1>1, <1>2, <2>2
  <2> QED  BY <1>1, <2>1, <2>2, <2>3
<1>7. m \in Entries(a)
  <2>1. Entry(m) = e
    BY <1>1, <1>6, EntryOf
  <2> QED  BY <1>1, <1>5, <2>1 DEF Entries
<1>8. \A k \in Entries(a) : k <= m
  <2>1. SUFFICES ASSUME NEW k \in 0 .. count, Entry(k) = e, k > m  PROVE FALSE
    BY <1>1, <1>2, <1>5 DEF Entries
  <2>2. PICK f : Enters(SkipPrefetch(k), f) /\ Entry(k) = f
    BY EveryEntry
  <2>3. PICK q : q = SkipPrefetch(k)
    OBVIOUS
  <2>4. q \in k .. count /\ q \in 0 .. count /\ f \in start[q + 1] .. Behind(q) - 1
    BY <2>2, <2>3, Skipped DEF Enters
  <2>5. Behind(m) <= start[q + 1] /\ start[q + 1] \in Int /\ Behind(q) \in Int
    <3>1. m < q
      BY <1>1, <1>2, <2>1, <2>4
    <3> QED  BY <1>1, <2>4, <3>1, Grounds
  <2> QED  BY <1>2, <1>3, <2>1, <2>2, <2>4, <2>5
<1>9. Max(Entries(a)) = m
  <2>1. Entries(a) \subseteq 0 .. 5 /\ Entries(a) # {}
    <3>1. \A c \in 1 .. 5 : 0 .. c \subseteq 0 .. 5
      OBVIOUS
    <3>2. 0 .. count \subseteq 0 .. 5
      BY <1>2, <3>1
    <3> QED  BY <1>7, <3>2 DEF Entries
  <2>2. Max(Entries(a)) \in Entries(a) /\ \A y \in Entries(a) : y <= Max(Entries(a))
    BY <2>1, Inhabited
  <2>3. Max(Entries(a)) \in Int /\ m \in Int
    BY <1>1, <1>2, <2>1, <2>2
  <2> QED  BY <1>7, <1>8, <2>2, <2>3
<1> QED  BY <1>4, <1>7, <1>9 DEF NewPlace

\* The beginning of a block, of no words too.
LEMMA PlaceNext ==
  ASSUME Finished, NEW k \in 0 .. count
  PROVE  /\ NewPlace(start[k + 1]) = <<"at", SkipPrefetch(k)>>
         /\ Continues(start[k + 1]) = <<"at", SkipPrefetch(k)>>
<1>1. PICK m : m = SkipPrefetch(k)
  OBVIOUS
<1>2. m \in 0 .. count /\ start[k + 1] = start[m + 1]
  BY <1>1, Skipped
<1>3. PICK e : Enters(m, e)
  BY <1>1, EveryEntry
<1>4. start[m + 1] \in start[m + 1] .. e
  <2>1. start[m + 1] \in Int /\ Behind(m) \in Int /\ e \in start[m + 1] .. Behind(m) - 1
    BY <1>2, <1>3, Grounds DEF Enters
  <2> QED  BY <2>1
<1>5. Entries(start[m + 1]) # {} /\ NewPlace(start[m + 1]) = <<"at", m>>
  BY <1>3, <1>4, PlaceOf
<1> QED  BY <1>1, <1>2, <1>5 DEF Continues

\* The other words of a block are entered from nowhere but the block.
LEMMA Inside ==
  ASSUME Finished, NEW j \in 0 .. count, NEW e, Enters(j, e),
         NEW a \in Int, e < a, a < Behind(j), At(a).op # "nop"
  PROVE  InTrampoline(a) /\ Awake(a) = a /\ Entries(a) = {}
<1>1. /\ e \in start[j + 1] .. Behind(j) - 1
  BY DEF Enters
<1>2. /\ start[j + 1] \in Int /\ Behind(j) \in Int /\ Behind(j) <= place.tramp + Len(out)
      /\ place.tramp \in Int /\ Len(out) \in Int /\ place.tramp <= start[j + 1] /\ count \in 1 .. 5
  <2>1. Len(out) \in 0 .. TrampolineWords
    BY Grounds
  <2> QED  BY <1>1, <2>1, Grounds DEF TrampolineWords
<1>3. e \in Int /\ start[j + 1] <= a /\ a < place.tramp + Len(out) /\ place.tramp <= a /\ start[j + 1] <= e
  BY <1>1, <1>2
<1>4. InTrampoline(a)
  <2>1. \A x, y, l \in Int : y <= x /\ x < y + l => x - y \in 0 .. l - 1
    OBVIOUS
  <2> QED  BY <1>2, <1>3, <2>1 DEF InTrampoline
<1>5. Awake(a) = a
  <2>1. \A t \in a .. a - 1 : At(t).op = "nop"
    OBVIOUS
  <2>2. a <= a
    OBVIOUS
  <2> QED  BY <1>3, <2>1, <2>2, AwakeAt
<1>6. ASSUME NEW k \in 0 .. count  PROVE Entry(k) # a
  <2>1. SUFFICES ASSUME Entry(k) = a  PROVE FALSE
    OBVIOUS
  <2>2. PICK q : q = SkipPrefetch(k)
    OBVIOUS
  <2>3. Enters(q, a)
    BY <2>1, <2>2, EveryEntry
  <2>4. q \in 0 .. count /\ a \in start[q + 1] .. Behind(q) - 1 /\ start[q + 1] \in Int /\ Behind(q) \in Int
    BY <2>3, Grounds DEF Enters
  <2>5. CASE q = j
    <3>1. Padding(j, a) /\ At(e).op # "nop"
      BY <2>3, <2>5 DEF Enters
    <3>2. e \in start[j + 1] .. a - 1
      BY <1>2, <1>3
    <3> QED  BY <3>1, <3>2 DEF Padding
  <2>6. CASE q < j
    <3>1. Behind(q) <= start[j + 1]
      BY <2>4, <2>6, Grounds
    <3> QED  BY <1>2, <1>3, <2>4, <3>1
  <2>7. CASE j < q
    <3>1. Behind(j) <= start[q + 1]
      BY <2>4, <2>7, Grounds
    <3> QED  BY <1>2, <1>3, <2>4, <3>1
  <2> QED  BY <1>2, <2>4, <2>5, <2>6, <2>7
<1>7. Entries(a) = {}
  BY <1>5, <1>6 DEF Entries
<1> QED  BY <1>4, <1>5, <1>7

LEMMA NotInside ==
  ASSUME Finished, NEW a \in Int, \A w \in 0 .. TrampolineWords - 1 : place.tramp + w # a
  PROVE  ~ InTrampoline(a)
<1>1. place.tramp \in Int /\ Len(out) \in 0 .. TrampolineWords
  BY Grounds
<1>2. SUFFICES ASSUME InTrampoline(a)  PROVE FALSE
  OBVIOUS
<1>3. a - place.tramp \in 0 .. TrampolineWords - 1
  <2>1. a - place.tramp \in 0 .. Len(out) - 1
    BY <1>2 DEF InTrampoline
  <2>2. \A x, l, n \in Int : l \in 0 .. n /\ x \in 0 .. l - 1 => x \in 0 .. n - 1
    OBVIOUS
  <2>3. TrampolineWords \in Int
    BY DEF TrampolineWords
  <2>4. Len(out) \in Int /\ a - place.tramp \in Int
    BY <1>1, <2>1, <2>3
  <2> QED  BY <1>1, <2>1, <2>2, <2>3, <2>4
<1>4. place.tramp + (a - place.tramp) = a
  BY <1>1
<1> QED  BY <1>3, <1>4

\* A trampoline is apart from what instructions refer to.
LEMMA Apart ==
  ASSUME Finished
  PROVE  /\ \A o \in Offsets, k \in 0 .. 3 : ~ InTrampoline(place.base + o + k)
         /\ \A i \in 0 .. 4, k \in {-1, 0, 1} : ~ InTrampoline(Page(place.base + i) + k * PageSize)
         /\ ~ InTrampoline(place.base + count)
<1>1. /\ place \in Placements /\ place.base \in Int /\ place.tramp \in Int /\ count \in 1 .. 5
  BY Grounds DEF MovedInv
<1>2. ASSUME NEW w \in 0 .. TrampolineWords - 1
      PROVE  /\ place.tramp + w \notin place.base .. place.base + 5
             /\ \A o \in Offsets : place.tramp + w \notin place.base + o .. place.base + o + 3
             /\ \A i \in 0 .. 4, k \in {-1, 0, 1} : place.tramp + w # Page(place.base + i) + k * PageSize
  BY <1>1, RelocationPlaces
<1>3. ASSUME NEW o \in Offsets, NEW k \in 0 .. 3  PROVE ~ InTrampoline(place.base + o + k)
  <2>1. o \in Int
    BY RelocationConstants
  <2>2. place.base + o + k \in Int /\ place.base + o + k \in place.base + o .. place.base + o + 3
    BY <1>1, <2>1
  <2> QED  BY <1>2, <2>2, NotInside
<1>4. ASSUME NEW i \in 0 .. 4, NEW k \in {-1, 0, 1}
      PROVE  ~ InTrampoline(Page(place.base + i) + k * PageSize)
  <2>1. Page(place.base + i) + k * PageSize \in Int
    <3>1. PageSize \in Nat \ {0} /\ place.base + i \in Int
      BY <1>1, RelocationConstants
    <3>2. (place.base + i) - ((place.base + i) % PageSize) \in Int
      BY <3>1
    <3>3. Page(place.base + i) \in Int
      BY <3>2 DEF Page
    <3>4. \A x, z \in Int, y \in {-1, 0, 1} : x + y * z \in Int
      OBVIOUS
    <3>5. PageSize \in Int
      BY <3>1
    <3> QED  BY <3>3, <3>4, <3>5, Zenon
  <2> QED  BY <1>2, <2>1, NotInside
<1>5. ~ InTrampoline(place.base + count)
  <2>1. place.base + count \in Int /\ place.base + count \in place.base .. place.base + 5
    BY <1>1
  <2> QED  BY <1>2, <2>1, NotInside
<1> QED  BY <1>3, <1>4, <1>5

LEMMA Outside ==
  ASSUME Finished, NEW a \in Int, ~ InTrampoline(a), ~ is_in_fixing_range(a)
  PROVE  NewPlace(a) = OriginalPlace(a) /\ Continues(a) = OriginalPlace(a)
<1>1. place.base \in Int /\ count \in 1 .. 5
  BY Grounds
<1>2. NewPlace(a) = IF a = place.base + count THEN <<"at", count>> ELSE <<"elsewhere", a>>
  BY DEF NewPlace
<1>3. CASE a = place.base + count
  <2>1. a - place.base = count /\ count \in 0 .. count
    BY <1>1, <1>3
  <2>2. SkipPrefetch(count) = count
    <3>1. PICK q : q = SkipPrefetch(count)
      OBVIOUS
    <3>2. q \in count .. count
      BY <2>1, <3>1, Skipped
    <3> QED  BY <1>1, <3>1, <3>2
  <2>3. OriginalPlace(a) = <<"at", count>>
    BY <2>1, <2>2 DEF OriginalPlace
  <2> QED  BY <1>2, <1>3, <2>3 DEF Continues
<1>4. CASE a # place.base + count
  <2>1. a - place.base \notin 0 .. count
    <3>1. a - place.base \notin 0 .. count - 1
      BY DEF is_in_fixing_range, Indices
    <3> QED  BY <1>1, <1>4, <3>1
  <2> QED  BY <1>2, <1>4, <2>1 DEF OriginalPlace, Continues
<1> QED  BY <1>3, <1>4

LEMMA NotSkipped ==
  ASSUME Finished, NEW m \in 0 .. count, m < count => code[m + 1].op # "prfm"
  PROVE  SkipPrefetch(m) = m
<1>1. PICK q : q = SkipPrefetch(m)
  OBVIOUS
<1>2. q \in m .. count /\ \A i \in m .. q - 1 : code[i + 1].op = "prfm"
  BY <1>1, Skipped
<1>3. count \in 1 .. 5
  BY Grounds
<1>4. q # m => m \in m .. q - 1 /\ m < count
  BY <1>2, <1>3
<1> QED  BY <1>1, <1>2, <1>4

(***************************************************************************)
(* What is known of the words of an instruction that is entered at e.      *)
(***************************************************************************)
Runs(j, e) == j \in 0 .. count - 1 /\ Finished /\ Enters(j, e) /\ EnteredAt(j, e)

LEMMA Running ==
  ASSUME NEW j, NEW e, Runs(j, e)
  PROVE  /\ Finished /\ Enters(j, e) /\ j \in 0 .. count - 1 /\ j \in 0 .. count /\ count \in 1 .. 5
         /\ code[j + 1] \in MovedInstruction /\ code[j + 1].op # "prfm"
         /\ Compiled(code[j + 1], j) /\ Linked(j)
         /\ e \in Int /\ Behind(j) \in Int /\ start[j + 1] \in Int
         /\ place.tramp \in Int /\ place.base \in Int
         /\ e < Behind(j) /\ start[j + 1] <= e
         /\ place.tramp <= e /\ Behind(j) <= place.tramp + 50
         /\ Entry(j) = e
         /\ NewPlace(Behind(j)) = <<"at", SkipPrefetch(j + 1)>>
         /\ Continues(Behind(j)) = <<"at", SkipPrefetch(j + 1)>>
         /\ Formed(code[j + 1], j, e - start[j + 1], Behind(j) - e, e, WordsFrom(e, Behind(j) - e))
<1>1. /\ Finished /\ Enters(j, e) /\ j \in 0 .. count - 1
      /\ Formed(code[j + 1], j, e - start[j + 1], Behind(j) - e, e, WordsFrom(e, Behind(j) - e))
  BY DEF Runs, EnteredAt
<1>2. count \in 1 .. 5 /\ place.tramp \in Int /\ place.base \in Int
  BY <1>1, Grounds
<1>3. j \in 0 .. count /\ j + 1 \in 0 .. count /\ j < count
  BY <1>1, <1>2
<1>4. j \in 0 .. idx - 1
  BY <1>1, Grounds
<1>5. code[j + 1] \in MovedInstruction
  BY <1>1, <1>4, Grounds, Counted
<1>6. code[j + 1].op # "prfm"
  BY <1>1, <1>3 DEF Enters
<1>7. Compiled(code[j + 1], j) /\ Linked(j)
  BY <1>1, <1>4 DEF Finished, KeptInv
<1>8. /\ Behind(j) \in Int /\ start[j + 1] \in Int /\ Behind(j) <= place.tramp + Len(out)
      /\ place.tramp <= start[j + 1]
  BY <1>1, <1>3, Grounds
<1>9. e \in Int /\ e < Behind(j) /\ start[j + 1] <= e /\ place.tramp <= e
  <2>1. e \in start[j + 1] .. Behind(j) - 1
    BY <1>1 DEF Enters
  <2> QED  BY <1>2, <1>8, <2>1
<1>10. Behind(j) <= place.tramp + 50
  <2>1. Len(out) \in 0 .. TrampolineWords
    BY <1>1, Grounds
  <2>2. Len(out) \in 0 .. 50
    BY <2>1, Zenon DEF TrampolineWords
  <2>3. \A l \in 0 .. 50, b, t \in Int : b <= t + l => b <= t + 50
    OBVIOUS
  <2> QED  BY <1>2, <1>8, <2>2, <2>3
<1>11. Entry(j) = e
  <2>1. SkipPrefetch(j) = j
    BY <1>1, <1>3, <1>6, NotSkipped
  <2> QED  BY <1>1, <1>3, <2>1, EntryOf
<1>12. Behind(j) = start[(j + 1) + 1]
  BY <1>1, Grounds
<1>13. /\ NewPlace(Behind(j)) = <<"at", SkipPrefetch(j + 1)>>
       /\ Continues(Behind(j)) = <<"at", SkipPrefetch(j + 1)>>
  BY <1>1, <1>3, <1>12, PlaceNext
<1> QED  BY <1>1, <1>2, <1>3, <1>5, <1>6, <1>7, <1>8, <1>9, <1>10, <1>11, <1>13

\* A short distance is read back from every field that counts words.
LEMMA ShortWay ==
  ASSUME NEW op \in InstructionOps \ {"adrp"}, NEW d \in -50 .. 49
  PROVE  Signed(Field(d, FieldSpan(op)), FieldSpan(op)) = d
         /\ (d >= 0 => Signed(d, FieldSpan(op)) = d)
<1>1. PICK span : span = FieldSpan(op)
  OBVIOUS
<1>2. span \in Nat \ {0} /\ span % 2 = 0 /\ span >= 100
  BY <1>1, EvenSpans DEF TrampolineWords
<1>3. - (span \div 2) <= d /\ d < span \div 2 /\ d \in Int
  BY <1>2
<1>4. Signed(Field(d, span), span) = d
  BY <1>2, <1>3, RoundTrip
<1>5. Signed(d, span) = d
  BY <1>2, <1>3 DEF Signed
<1> QED  BY <1>1, <1>4, <1>5

\* An offset that is not negative is read as it is.
LEMMA ReadForward ==
  ASSUME NEW span \in Nat, span <= UintSpan, NEW v \in Int, v < span, Signed(v, span) >= 0
  PROVE  Signed(v, span) = v /\ Unsigned(Signed(v, span)) = v
<1>1. Signed(v, span) = v /\ v >= 0
  BY DEF Signed
<1>2. UintSpan \in Nat \ {0} /\ v \in 0 .. UintSpan - 1
  BY <1>1, RelocationConstants
<1>3. UintSpan * 0 + v = v /\ 0 \in Int
  BY <1>2
<1>4. v % UintSpan = v
  BY <1>2, <1>3, DivUnique
<1> QED  BY <1>1, <1>4 DEF Unsigned

\* So are those of the page itself and of the one behind it.
LEMMA ReadPages ==
  ASSUME NEW k \in {0, 1}
  PROVE  Unsigned(k * PageSize) = k * PageSize /\ k * PageSize \in Int
<1>1. PageSpan \in Nat /\ PageSize \in Nat \ {0} /\ UintSpan \in Nat \ {0}
      /\ PageSpan >= 4 /\ PageSpan * PageSize = 2 * UintSpan
  BY RelocationConstants, RelocationPlaces
<1>2. PageSize < UintSpan
  <2>1. PICK q \in Nat : PageSpan = 4 + q
    <3>1. PageSpan - 4 \in Nat /\ PageSpan = 4 + (PageSpan - 4)
      BY <1>1
    <3> QED  BY <3>1
  <2>2. \A x, y \in Nat : (4 + x) * y = 4 * y + x * y /\ x * y \in Nat
    OBVIOUS
  <2>3. PICK m \in Nat : 2 * UintSpan = 4 * PageSize + m
    BY <1>1, <2>1, <2>2
  <2> QED  BY <1>1, <2>3
<1>3. k * PageSize \in 0 .. UintSpan - 1
  <2>1. 0 * PageSize = 0 /\ 1 * PageSize = PageSize
    BY <1>1
  <2> QED  BY <1>1, <1>2, <2>1
<1>4. PICK o \in 0 .. UintSpan - 1 : o = k * PageSize
  BY <1>3
<1>5. UintSpan * 0 + o = o
  BY <1>1, <1>4
<1>6. o % UintSpan = o
  BY <1>1, <1>5, DivUnique
<1> QED  BY <1>1, <1>4, <1>6 DEF Unsigned

\* What is read is what is meant, but for what is referred to behind.
LEMMA ReadRight ==
  ASSUME NEW j, NEW e, Runs(j, e), ~ Backward(j)
  PROVE  AsReadBy(code[j + 1], j) = Target(j) /\ Target(j) \in Int
<1> DEFINE ins == code[j + 1]
           span == FieldSpan(ins.op)
           offset == Signed(ins.imm, span)
<1>1. /\ ins \in MovedInstruction /\ Compiled(ins, j) /\ j \in 0 .. count - 1 /\ count \in 1 .. 5
      /\ place.base \in Int
  BY Running
<1>2. ins.imm \in Int /\ span \in Nat /\ ins.op \in InstructionOps
  BY <1>1, SpansHold DEF MovedInstruction
<1>3. j \in Int /\ offset \in Int /\ place.base + j \in Int
  <2>1. j \in Int
    BY <1>1
  <2>2. offset \in Int
    <3> HIDE DEF ins, span
    <3> QED  BY <1>2, SignedIsInt
  <2> QED  BY <1>1, <2>1, <2>2
<1>4. CASE ins.op \in Conditionals \cup DOMAIN Loads \cup {"adr", "adru"}
  <2>1. ins.op # "adrp" /\ ins.op \in Referrers \cup DOMAIN Loads /\ ins.op \in InstructionOps \ {"adrp"}
    BY <1>2, <1>4 DEF Conditionals, Loads, Referrers
  <2>2. Target(j) = place.base + j + offset
    BY <2>1 DEF Target, RefersTo
  <2>3. offset >= 0
    BY <1>3, <1>4 DEF Backward, AddressOps
  <2>4. ins.imm < span
    BY <1>1, <2>1 DEF Compiled
  <2>5. span <= UintSpan
    BY <2>1, RelocationPlaces DEF FieldSpan, Branches, InstructionOps, Loads
  <2> HIDE DEF ins, span
  <2>6. offset = ins.imm /\ Unsigned(offset) = ins.imm
    BY <1>2, <2>3, <2>4, <2>5, ReadForward
  <2>7. AsReadBy(ins, j) = place.base + j + ins.imm
    BY <1>4, <2>6 DEF AsReadBy, span
  <2> HIDE DEF offset
  <2> QED  BY <1>3, <2>2, <2>6, <2>7 DEF ins
<1>5. CASE ins.op = "adrp"
  <2>1. ins.op \notin Conditionals \cup DOMAIN Loads \cup {"adr", "adru"} /\ span = PageSpan
    BY <1>5 DEF Conditionals, Loads, FieldSpan, Branches
  <2>2. offset \in {-1, 0, 1}
    BY <1>1, <1>5, <2>1 DEF Compiled
  <2>3. offset >= 0
    BY <1>3, <1>5 DEF Backward, AddressOps
  <2>4. offset \in {0, 1}
    <3> HIDE DEF offset
    <3> QED  BY <2>2, <2>3
  <2>5. Target(j) = Page(place.base + j) + offset * PageSize
    BY <1>5 DEF Target, RefersTo
  <2>6. AsReadBy(ins, j) = Page(place.base + j) + Unsigned(offset * PageSize)
    BY <1>5, <2>1 DEF AsReadBy
  <2>7. Page(place.base + j) \in Int
    <3>1. PageSize \in Nat \ {0}
      BY RelocationConstants
    <3> QED  BY <1>3, <3>1 DEF Page
  <2> HIDE DEF offset, ins
  <2>8. PICK o \in Int : o = offset * PageSize /\ Unsigned(o) = o
    BY <2>4, ReadPages
  <2> QED  BY <2>5, <2>6, <2>7, <2>8 DEF ins
<1>6. CASE ins.op \notin Conditionals \cup DOMAIN Loads \cup AddressOps
  <2>1. AsReadBy(ins, j) = Target(j)
    BY <1>6 DEF AsReadBy, Target, AddressOps
  <2>2. Target(j) = place.base + j + offset
    BY <1>6 DEF Target, RefersTo, AddressOps
  <2> HIDE DEF offset
  <2> QED  BY <1>3, <2>1, <2>2
<1> QED  BY <1>4, <1>5, <1>6 DEF AddressOps

\* Nothing that is referred to, as it is read, is in the trampoline.
LEMMA TargetApart ==
  ASSUME NEW j, NEW e, Runs(j, e), ~ Backward(j),
         code[j + 1].op \in Referrers \cup DOMAIN Loads \cup {"adrp"}
  PROVE  /\ ~ InTrampoline(Target(j))
         /\ code[j + 1].op \in DOMAIN Loads => \A k \in 0 .. 3 : ~ InTrampoline(Target(j) + k)
         /\ ~ is_in_fixing_range(Target(j)) =>
              NewPlace(Target(j)) = OriginalPlace(Target(j)) /\ Continues(Target(j)) = OriginalPlace(Target(j))
<1> DEFINE ins == code[j + 1]
           a == Target(j)
<1>1. /\ Finished /\ Compiled(ins, j) /\ j \in 0 .. count - 1 /\ count \in 1 .. 5 /\ place.base \in Int
  BY Running
<1>2. a \in Int /\ a = RefersTo(ins, place.base + j)
  BY ReadRight DEF Target
<1>3. ~ InTrampoline(a) /\ (ins.op \in DOMAIN Loads => \A k \in 0 .. 3 : ~ InTrampoline(a + k))
  <2>1. CASE ins.op \in Referrers \cup DOMAIN Loads
    <3>1. a - place.base \in Offsets
      BY <1>1, <1>2, <2>1 DEF Compiled
    <3>2. \A k \in 0 .. 3 : ~ InTrampoline(place.base + (a - place.base) + k)
      BY <1>1, <3>1, Apart
    <3> HIDE DEF a
    <3>3. \A k \in 0 .. 3 : place.base + (a - place.base) + k = a + k
      BY <1>1, <1>2
    <3>4. \A k \in 0 .. 3 : ~ InTrampoline(a + k)
      BY <3>2, <3>3
    <3>5. ~ InTrampoline(a + 0) /\ a + 0 = a
      BY <1>2, <3>4
    <3> QED  BY <3>4, <3>5
  <2>2. CASE ins.op = "adrp"
    <3>1. PICK k \in {-1, 0, 1} : a = Page(place.base + j) + k * PageSize
      <4>1. FieldSpan(ins.op) = PageSpan
        BY <2>2 DEF FieldSpan, Branches, Loads
      <4> QED  BY <1>1, <1>2, <2>2, <4>1 DEF Compiled, RefersTo
    <3>2. j \in 0 .. 4
      BY <1>1
    <3>3. ~ InTrampoline(a)
      BY <1>1, <3>1, <3>2, Apart
    <3> QED  BY <2>2, <3>3 DEF Loads
  <2> QED  BY <2>1, <2>2
<1> QED  BY <1>1, <1>2, <1>3, Outside

\* An instruction that was moved is where the words that refer to it were told.
LEMMA Recorded ==
  ASSUME Finished, NEW r \in 0 .. count - 1, code[r + 1].op # "adrp"
  PROVE  /\ dat[r + 1] \in Int /\ InTrampoline(dat[r + 1])
         /\ NewPlace(dat[r + 1]) = <<"at", SkipPrefetch(r)>>
         /\ Continues(dat[r + 1]) = <<"at", SkipPrefetch(r)>>
<1>1. count \in 1 .. 5 /\ r \in 0 .. count /\ r < count /\ start[r + 1] \in Int
  <2>1. count \in 1 .. 5
    BY Grounds
  <2>2. r \in 0 .. count /\ r < count
    BY <2>1
  <2> QED  BY <2>1, <2>2, Grounds
<1>2. PICK m, e : m = SkipPrefetch(r) /\ Enters(m, e) /\ dat[r + 1] \in start[m + 1] .. e
  <2>1. CASE code[r + 1].op = "prfm"
    <3>1. dat[r + 1] = start[r + 1]
      <4>1. r \in 0 .. idx - 1
        BY Grounds
      <4> QED  BY <2>1, <4>1 DEF Finished, KeptInv, Block
    <3>2. PICK e : Enters(SkipPrefetch(r), e)
      BY <1>1, EveryEntry
    <3>3. PICK m : m = SkipPrefetch(r)
      OBVIOUS
    <3>4. m \in 0 .. count /\ start[r + 1] = start[m + 1]
      BY <1>1, <3>3, Skipped
    <3>5. e \in start[m + 1] .. Behind(m) - 1 /\ start[m + 1] \in Int /\ Behind(m) \in Int
      BY <3>2, <3>3, <3>4, Grounds DEF Enters
    <3>6. start[m + 1] \in start[m + 1] .. e
      BY <3>5
    <3> QED  BY <3>1, <3>2, <3>3, <3>4, <3>6
  <2>2. CASE code[r + 1].op # "prfm"
    <3>1. SkipPrefetch(r) = r
      BY <1>1, <2>2, NotSkipped
    <3>2. PICK e : Enters(r, e) /\ EnteredAt(r, e)
      BY <2>2, Entrance
    <3>3. dat[r + 1] \in start[r + 1] .. e
      BY <3>2 DEF EnteredAt
    <3> QED  BY <3>1, <3>2, <3>3
  <2> QED  BY <2>1, <2>2
<1>3. m \in 0 .. count /\ start[m + 1] \in Int
  BY <1>2, Grounds DEF Enters
<1>4. e \in Int
  <2>1. e \in start[m + 1] .. Behind(m) - 1 /\ Behind(m) \in Int
    BY <1>2, <1>3, Grounds DEF Enters
  <2> QED  BY <1>3, <2>1
<1>5. /\ InTrampoline(dat[r + 1]) /\ Entries(dat[r + 1]) # {}
      /\ NewPlace(dat[r + 1]) = <<"at", m>>
  BY <1>2, PlaceOf
<1> QED  BY <1>2, <1>3, <1>4, <1>5 DEF Continues

\* The one-word form refers to what the instruction referred to, wherever that is now.
LEMMA NearPlace ==
  ASSUME NEW j, NEW e, Runs(j, e), ~ Deviates(j),
         NearForm(code[j + 1], Target(j), e - start[j + 1], Behind(j) - e, e, WordsFrom(e, Behind(j) - e))
  PROVE  /\ At(e).op = code[j + 1].op /\ Behind(j) = e + 1
         /\ NewPlace(Relative(e)) = OriginalPlace(Target(j))
         /\ Continues(Relative(e)) = OriginalPlace(Target(j))
<1> DEFINE ins == code[j + 1]
           a == Target(j)
           span == FieldSpan(ins.op)
<1>1. /\ Finished /\ Linked(j) /\ j \in 0 .. count - 1 /\ count \in 1 .. 5
      /\ place.base \in Int /\ place.tramp \in Int
      /\ e \in Int /\ Behind(j) \in Int /\ start[j + 1] \in Int /\ e < Behind(j)
      /\ place.tramp <= e /\ Behind(j) <= place.tramp + 50
      /\ ins \in MovedInstruction
  BY Running
<1>2. a \in Int /\ a = AsReadBy(ins, j)
  BY ReadRight DEF Deviates
<1>3. ins.op \in Referrers /\ e - start[j + 1] = 0 /\ Behind(j) - e = 1
  BY DEF NearForm
<1>4. WordsFrom(e, Behind(j) - e)[0] = At(e)
  <2>1. 0 \in 0 .. (Behind(j) - e) - 1 /\ e + 0 = e
    BY <1>1, <1>3
  <2> QED  BY <2>1 DEF WordsFrom
<1>5. /\ At(e).op = AdrOf(ins.op, a)
      /\ ~ is_in_fixing_range(a) /\ ins.op # "adru" => Signed(At(e).imm, span) = a - e
  BY <1>4 DEF NearForm
<1>6. At(e).op = ins.op
  <2>1. ~ LabelOffWord(j)
    BY DEF Deviates
  <2> QED  BY <1>5, <2>1 DEF AdrOf, LabelOffWord
<1>7. Behind(j) = e + 1 /\ e = start[j + 1]
  BY <1>1, <1>3
<1>8. ins.op \in InstructionOps \ {"adrp"}
  BY <1>3 DEF Referrers, Branches, Conditionals, InstructionOps
<1>9. Relative(e) = e + Signed(At(e).imm, span)
  BY <1>6 DEF Relative
<1>10. CASE ~ is_in_fixing_range(a)
  <2>1. ins.op # "adru"
    BY <1>10 DEF Deviates, LabelOffWord
  <2>2. Relative(e) = a
    <3>1. Relative(e) = e + (a - e)
      BY <1>5, <1>9, <1>10, <2>1
    <3> HIDE DEF a
    <3> QED  BY <1>1, <1>2, <3>1
  <2>3. NewPlace(a) = OriginalPlace(a) /\ Continues(a) = OriginalPlace(a)
    BY <1>3, <1>10, TargetApart DEF Deviates
  <2> QED  BY <1>6, <1>7, <2>2, <2>3
<1>11. CASE is_in_fixing_range(a)
  <2>1. PICK r \in 0 .. count - 1 : a = place.base + r /\ a - place.base = r
    <3>1. a - place.base \in 0 .. count - 1
      BY <1>11 DEF is_in_fixing_range, Indices
    <3> HIDE DEF a
    <3> QED  BY <1>1, <1>2, <3>1
  <2>2. code[r + 1].op # "adrp"
    <3>1. CASE a # place.base + j
      <4>1. ins.op \in Branches \cup Conditionals \cup {"adr", "adru"}
        BY <1>3 DEF Referrers
      <4>2. ~ RefersToAdrp(j)
        BY DEF Deviates
      <4> QED  BY <1>11, <2>1, <3>1, <4>1, <4>2 DEF RefersToAdrp
    <3>2. CASE a = place.base + j
      <4>1. r = j
        BY <1>1, <2>1, <3>2
      <4> QED  BY <1>8, <4>1
    <3> QED  BY <3>1, <3>2
  <2>3. /\ dat[r + 1] \in Int /\ InTrampoline(dat[r + 1])
        /\ NewPlace(dat[r + 1]) = <<"at", SkipPrefetch(r)>>
        /\ Continues(dat[r + 1]) = <<"at", SkipPrefetch(r)>>
    BY <1>1, <2>2, Recorded
  <2>4. PICK d : d = dat[r + 1] - e
    OBVIOUS
  <2>5. d \in -50 .. 49
    <3>1. dat[r + 1] - place.tramp \in 0 .. Len(out) - 1
      BY <2>3 DEF InTrampoline
    <3>2. Len(out) \in 0 .. 50
      BY <1>1, Grounds, Zenon DEF TrampolineWords
    <3>3. \A l \in 0 .. 50, x, t, b \in Int :
            x - t \in 0 .. l - 1 /\ t <= b /\ b < t + 50 => x - b \in -50 .. 49
      OBVIOUS
    <3>4. e < place.tramp + 50
      BY <1>1
    <3> QED  BY <1>1, <2>3, <2>4, <3>1, <3>2, <3>3, <3>4
  <2>6. At(e).imm = Field(d, span)
    <3>1. Refers(j, r) /\ r \in Indices /\ r < idx
      <4>1. idx = count
        BY <1>1, Grounds
      <4>2. r < count
        BY <1>1
      <4> QED  BY <1>2, <1>3, <2>1, <4>1, <4>2 DEF Refers, Indices
    <3>2. At(start[j + 1]).imm = Field(dat[r + 1] - start[j + 1], FieldSpan(code[j + 1].op))
      BY <1>1, <3>1 DEF Linked
    <3> QED  BY <1>7, <2>4, <3>2
  <2>7. Signed(At(e).imm, span) = d
    BY <1>8, <2>5, <2>6, ShortWay
  <2>8. Relative(e) = dat[r + 1]
    BY <1>1, <1>9, <2>3, <2>4, <2>7
  <2>9. OriginalPlace(a) = <<"at", SkipPrefetch(r)>>
    <3>1. r \in 0 .. count
      BY <1>1
    <3> QED  BY <2>1, <3>1 DEF OriginalPlace
  <2> QED  BY <1>6, <1>7, <2>3, <2>8, <2>9
<1> QED  BY <1>10, <1>11

\* The i-th word of an instruction.
LEMMA WordAt ==
  ASSUME NEW j, NEW e, Runs(j, e), NEW i \in Nat, i < Behind(j) - e
  PROVE  /\ WordsFrom(e, Behind(j) - e)[i] = At(e + i) /\ e + i \in Int
         /\ i > 0 /\ At(e + i).op # "nop" =>
              InTrampoline(e + i) /\ Awake(e + i) = e + i /\ Entries(e + i) = {}
<1>1. e \in Int /\ Behind(j) \in Int /\ Finished /\ Enters(j, e) /\ j \in 0 .. count
  BY Running
<1>2. i \in 0 .. (Behind(j) - e) - 1
  BY <1>1
<1>3. ASSUME i > 0, At(e + i).op # "nop"
      PROVE  InTrampoline(e + i) /\ Awake(e + i) = e + i /\ Entries(e + i) = {}
  <2>1. e + i \in Int /\ e < e + i /\ e + i < Behind(j)
    BY <1>1, <1>3
  <2> QED  BY <1>1, <1>3, <2>1, Inside
<1> QED  BY <1>1, <1>2, <1>3 DEF WordsFrom

\* An address that a word loads.
LEMMA FromConstant ==
  ASSUME NEW j, NEW e, Runs(j, e), NEW i \in Nat, i > 0, i < Behind(j) - e, NEW a, At(e + i) = Word("addr", a)
  PROVE  Constant(e + i) = a
<1>1. At(e + i).op = "addr" /\ At(e + i).imm = a
  BY DEF Word
<1> QED  BY <1>1, WordAt DEF Constant

\* A branch inside an instruction's words that goes behind them.
LEMMA PassesOn ==
  ASSUME NEW j, NEW e, Runs(j, e), NEW i \in Nat, i > 0, i < Behind(j) - e,
         NEW d \in 0 .. 49, At(e + i) = Word("b", d), Behind(j) = e + i + d
  PROVE  Continues(e + i) = <<"at", SkipPrefetch(j + 1)>>
<1>1. At(e + i).op = "b" /\ At(e + i).imm = d
  BY DEF Word
<1>2. InTrampoline(e + i) /\ Awake(e + i) = e + i /\ Entries(e + i) = {}
  BY <1>1, WordAt
<1>3. Signed(d, FieldSpan("b")) = d
  <2>1. "b" \in InstructionOps \ {"adrp"} /\ d \in -50 .. 49 /\ d >= 0
    BY DEF InstructionOps
  <2> QED  BY <2>1, ShortWay
<1>4. Relative(e + i) = Behind(j)
  BY <1>1, <1>3 DEF Relative
<1>5. NewPlace(Behind(j)) = <<"at", SkipPrefetch(j + 1)>>
  BY Running
<1> QED  BY <1>1, <1>2, <1>4, <1>5 DEF Continues

(***************************************************************************)
(* What the words at an entrance do, by the first of them, and what the    *)
(* instruction did.                                                        *)
(***************************************************************************)
LEMMA DoesJump ==
  ASSUME NEW j, NEW e, Entry(j) = e, At(e).op = "b"
  PROVE  Relocated(j) = Effect("jump", NewPlace(Relative(e)), Nowhere)
BY DEF Relocated, Conditionals, Loads, AddressOps

LEMMA DoesCall ==
  ASSUME NEW j, NEW e, Entry(j) = e, At(e).op = "bl"
  PROVE  Relocated(j) = Effect("call", NewPlace(Relative(e)), Continues(e + 1))
BY DEF Relocated, Conditionals, Loads, AddressOps

LEMMA DoesFarJump ==
  ASSUME NEW j, NEW e, Entry(j) = e, At(e).op = "ldr17", At(e + 1).op = "br17"
  PROVE  Relocated(j) = Effect("jump", NewPlace(Constant(e + At(e).imm)), Nowhere)
BY DEF Relocated, Conditionals, Loads, AddressOps

LEMMA DoesFarCall ==
  ASSUME NEW j, NEW e, Entry(j) = e, At(e).op = "ldr17", At(e + 1).op = "adr30"
  PROVE  Relocated(j) = Effect("call", NewPlace(Constant(e + At(e).imm)),
                               Continues(e + 1 + At(e + 1).imm))
BY DEF Relocated, Conditionals, Loads, AddressOps

LEMMA DoesLoadAddress ==
  ASSUME NEW j, NEW e, Entry(j) = e, At(e).op = "ldra"
  PROVE  Relocated(j) = Effect(At(e + At(e).imm).imm[1], NewPlace(At(e + At(e).imm).imm[2]),
                               Continues(e + 1))
BY DEF Relocated, Conditionals, Loads, AddressOps

LEMMA DoesTest ==
  ASSUME NEW j, NEW e, Entry(j) = e, NEW op \in Conditionals, At(e).op = op
  PROVE  Relocated(j) = Effect(op, Continues(Relative(e)), Continues(e + 1))
BY DEF Relocated, Conditionals, Loads, AddressOps

LEMMA DoesAddress ==
  ASSUME NEW j, NEW e, Entry(j) = e, NEW op \in {"adr", "adru"}, At(e).op = op
  PROVE  Relocated(j) = Effect(op, NewPlace(Relative(e)), Continues(e + 1))
BY DEF Relocated, Conditionals, Loads, AddressOps

LEMMA DoesLoad ==
  ASSUME NEW j, NEW e, Entry(j) = e, NEW op \in DOMAIN Loads, At(e).op = op
  PROVE  Relocated(j) = Effect(op, <<"words", [k \in 1 .. Loads[op] |-> LoadedWord(Relative(e) + k - 1)]>>,
                               Continues(e + 1))
BY DEF Relocated, Conditionals, Loads, AddressOps

LEMMA DidJump ==
  ASSUME NEW j, code[j + 1].op = "b"
  PROVE  Original(j) = Effect("jump", OriginalPlace(Target(j)), Nowhere)
BY DEF Original, Loads

LEMMA DidCall ==
  ASSUME NEW j, code[j + 1].op = "bl"
  PROVE  Original(j) = Effect("call", OriginalPlace(Target(j)), <<"at", SkipPrefetch(j + 1)>>)
BY DEF Original, Loads

LEMMA DidAdrp ==
  ASSUME NEW j, code[j + 1].op = "adrp"
  PROVE  Original(j) = Effect("adr", OriginalPlace(Target(j)), <<"at", SkipPrefetch(j + 1)>>)
BY DEF Original, Loads

LEMMA DidRefer ==
  ASSUME NEW j, NEW op \in Conditionals \cup {"adr", "adru"}, code[j + 1].op = op
  PROVE  Original(j) = Effect(op, OriginalPlace(Target(j)), <<"at", SkipPrefetch(j + 1)>>)
BY DEF Original, Loads, Conditionals

LEMMA DidLoad ==
  ASSUME NEW j, NEW op \in DOMAIN Loads, code[j + 1].op = op
  PROVE  Original(j) = Effect(op, <<"words", [k \in 1 .. Loads[op] |-> Target(j) + k - 1]>>, <<"at", SkipPrefetch(j + 1)>>)
BY DEF Original, Loads

\* Where control is behind an instruction's words, if the first is all that is run.
LEMMA NextBehind ==
  ASSUME NEW j, NEW e, Runs(j, e), Behind(j) - e = 1
  PROVE  Continues(e + 1) = <<"at", SkipPrefetch(j + 1)>>
<1>1. e \in Int /\ Behind(j) \in Int /\ Continues(Behind(j)) = <<"at", SkipPrefetch(j + 1)>>
  BY Running
<1>2. e + 1 = Behind(j)
  BY <1>1
<1> QED  BY <1>1, <1>2

LEMMA PlainRight ==
  ASSUME NEW j, NEW e, Runs(j, e),
         PlainForm(code[j + 1], j, Behind(j) - e, WordsFrom(e, Behind(j) - e))
  PROVE  Relocated(j) = Original(j)
<1>1. Entry(j) = e /\ e \in Int
  BY Running
<1>2. code[j + 1].op = "plain" /\ Behind(j) - e = 1
      /\ WordsFrom(e, Behind(j) - e)[0] = Word("plain", j)
  BY DEF PlainForm
<1>3. At(e).op = "plain" /\ At(e).imm = j
  <2>1. WordsFrom(e, Behind(j) - e)[0] = At(e + 0) /\ e + 0 = e
    BY <1>1, <1>2, WordAt
  <2> QED  BY <1>2, <2>1 DEF Word
<1>4. Continues(e + 1) = <<"at", SkipPrefetch(j + 1)>>
  BY <1>2, NextBehind
<1> QED  BY <1>1, <1>2, <1>3, <1>4 DEF Relocated, Original, Branches, Conditionals, Loads, AddressOps

LEMMA NearRight ==
  ASSUME NEW j, NEW e, Runs(j, e), ~ Deviates(j),
         NearForm(code[j + 1], Target(j), e - start[j + 1], Behind(j) - e, e, WordsFrom(e, Behind(j) - e))
  PROVE  Relocated(j) = Original(j)
<1>1. Entry(j) = e /\ e \in Int
  BY Running
<1>2. /\ At(e).op = code[j + 1].op
      /\ NewPlace(Relative(e)) = OriginalPlace(Target(j))
      /\ Continues(Relative(e)) = OriginalPlace(Target(j))
  BY NearPlace
<1>3. Behind(j) - e = 1 /\ code[j + 1].op \in Referrers
  BY DEF NearForm
<1>4. Continues(e + 1) = <<"at", SkipPrefetch(j + 1)>>
  BY <1>3, NextBehind
<1> DEFINE op == code[j + 1].op
<1>5. op \in {"b", "bl", "cond", "test", "adr", "adru"}
  BY <1>3 DEF Referrers, Branches, Conditionals
<1>6. CASE op = "b"
  BY <1>1, <1>2, <1>6, DoesJump, DidJump
<1>7. CASE op = "bl"
  BY <1>1, <1>2, <1>4, <1>7, DoesCall, DidCall
<1>8. CASE op \in {"cond", "test"}
  <2>1. op \in Conditionals
    BY <1>8 DEF Conditionals
  <2> QED  BY <1>1, <1>2, <1>4, <2>1, DoesTest, DidRefer
<1>9. CASE op \in {"adr", "adru"}
  BY <1>1, <1>2, <1>4, <1>9, DoesAddress, DidRefer
<1> QED  BY <1>5, <1>6, <1>7, <1>8, <1>9

\* Where a far instruction refers to.
LEMMA FarTarget ==
  ASSUME NEW j, NEW e, Runs(j, e), ~ Deviates(j), ~ is_in_fixing_range(Target(j)),
         code[j + 1].op \in Referrers \cup {"adrp"}
  PROVE  NewPlace(Target(j)) = OriginalPlace(Target(j))
BY TargetApart DEF Deviates

LEMMA JumpRight ==
  ASSUME NEW j, NEW e, Runs(j, e), ~ Deviates(j),
         JumpForm(code[j + 1], Target(j), Behind(j) - e, WordsFrom(e, Behind(j) - e))
  PROVE  Relocated(j) = Original(j)
<1> DEFINE v == WordsFrom(e, Behind(j) - e)
           a == Target(j)
<1>1. Entry(j) = e /\ e \in Int
  BY Running
<1>2. /\ code[j + 1].op = "b" /\ ~ is_in_fixing_range(a) /\ Behind(j) - e = 4
      /\ v[0] = Word("ldr17", 2) /\ v[1] = Word("br17", 0) /\ v[2] = Word("addr", a)
  BY DEF JumpForm
<1>3. v[0] = At(e + 0) /\ e + 0 = e /\ v[1] = At(e + 1) /\ v[2] = At(e + 2)
  BY <1>1, <1>2, WordAt
<1>4. At(e).op = "ldr17" /\ At(e).imm = 2 /\ At(e + 1).op = "br17"
  <2> HIDE DEF v
  <2> QED  BY <1>2, <1>3 DEF Word
<1>5. Constant(e + 2) = a
  BY <1>2, <1>3, FromConstant
<1>6. NewPlace(a) = OriginalPlace(a)
  BY <1>2, FarTarget DEF Referrers, Branches
<1>7. Relocated(j) = Effect("jump", NewPlace(Constant(e + 2)), Nowhere)
  BY <1>1, <1>4, DoesFarJump
<1>8. Original(j) = Effect("jump", OriginalPlace(a), Nowhere)
  BY <1>2, DidJump
<1> QED  BY <1>5, <1>6, <1>7, <1>8

LEMMA CallRight ==
  ASSUME NEW j, NEW e, Runs(j, e), ~ Deviates(j),
         CallForm(code[j + 1], Target(j), Behind(j) - e, WordsFrom(e, Behind(j) - e))
  PROVE  Relocated(j) = Original(j)
<1> DEFINE v == WordsFrom(e, Behind(j) - e)
           a == Target(j)
<1>1. Entry(j) = e /\ e \in Int /\ Behind(j) \in Int /\ Continues(Behind(j)) = <<"at", SkipPrefetch(j + 1)>>
  BY Running
<1>2. /\ code[j + 1].op = "bl" /\ ~ is_in_fixing_range(a) /\ Behind(j) - e = 5
      /\ v[0] = Word("ldr17", 3) /\ v[1] = Word("adr30", 4) /\ v[3] = Word("addr", a)
  BY DEF CallForm
<1>3. v[0] = At(e + 0) /\ e + 0 = e /\ v[1] = At(e + 1) /\ v[3] = At(e + 3)
  BY <1>1, <1>2, WordAt
<1>4. At(e).op = "ldr17" /\ At(e).imm = 3 /\ At(e + 1).op = "adr30" /\ At(e + 1).imm = 4
  <2> HIDE DEF v
  <2> QED  BY <1>2, <1>3 DEF Word
<1>5. Constant(e + 3) = a
  BY <1>2, <1>3, FromConstant
<1>6. NewPlace(a) = OriginalPlace(a)
  BY <1>2, FarTarget DEF Referrers, Branches
<1>7. e + 1 + 4 = Behind(j)
  BY <1>1, <1>2
<1>8. Relocated(j) = Effect("call", NewPlace(Constant(e + 3)), Continues(e + 1 + 4))
  BY <1>1, <1>4, DoesFarCall
<1>9. Original(j) = Effect("call", OriginalPlace(a), <<"at", SkipPrefetch(j + 1)>>)
  BY <1>2, DidCall
<1> QED  BY <1>1, <1>5, <1>6, <1>7, <1>8, <1>9

LEMMA SkipRight ==
  ASSUME NEW j, NEW e, Runs(j, e), ~ Deviates(j),
         SkipForm(code[j + 1], Target(j), Behind(j) - e, WordsFrom(e, Behind(j) - e))
  PROVE  Relocated(j) = Original(j)
<1> DEFINE v == WordsFrom(e, Behind(j) - e)
           a == Target(j)
           op == code[j + 1].op
<1>1. Entry(j) = e /\ e \in Int /\ Behind(j) \in Int
  BY Running
<1>2. /\ op \in Conditionals /\ ~ is_in_fixing_range(a) /\ Behind(j) - e = 6
      /\ v[0] = Word(op, 2) /\ v[1] = Word("b", 5)
      /\ v[2] = Word("ldr17", 2) /\ v[4] = Word("addr", a)
  BY DEF SkipForm
<1>3. v[0] = At(e + 0) /\ e + 0 = e /\ v[1] = At(e + 1) /\ v[2] = At(e + 2) /\ v[4] = At(e + 4)
  BY <1>1, <1>2, WordAt
<1>4. At(e).op = op /\ At(e).imm = 2 /\ At(e + 2).op = "ldr17" /\ At(e + 2).imm = 2
  <2> HIDE DEF v
  <2> QED  BY <1>2, <1>3 DEF Word
<1>5. Constant(e + 4) = a
  BY <1>2, <1>3, FromConstant
<1>6. NewPlace(a) = OriginalPlace(a)
  BY <1>2, FarTarget DEF Referrers
<1>7. Relative(e) = e + 2
  <2>1. op \in InstructionOps \ {"adrp"} /\ 2 \in -50 .. 49 /\ 2 >= 0
    BY <1>2 DEF Conditionals, InstructionOps
  <2>2. Signed(2, FieldSpan(op)) = 2
    BY <2>1, ShortWay
  <2> QED  BY <1>4, <2>2 DEF Relative
<1>8. Continues(e + 2) = NewPlace(a)
  <2>1. InTrampoline(e + 2) /\ Awake(e + 2) = e + 2 /\ Entries(e + 2) = {}
    BY <1>2, <1>4, WordAt
  <2>2. (e + 2) + 2 = e + 4
    BY <1>1
  <2>3. Continues(e + 2) = NewPlace(Constant((e + 2) + 2))
    BY <1>4, <2>1 DEF Continues
  <2> QED  BY <1>5, <2>2, <2>3
<1>9. Continues(e + 1) = <<"at", SkipPrefetch(j + 1)>>
  <2>1. Behind(j) = e + 1 + 5
    BY <1>1, <1>2
  <2> QED  BY <1>2, <1>3, <2>1, PassesOn
<1>10. Relocated(j) = Effect(op, Continues(Relative(e)), Continues(e + 1))
  BY <1>1, <1>2, <1>4, DoesTest
<1>11. Original(j) = Effect(op, OriginalPlace(a), <<"at", SkipPrefetch(j + 1)>>)
  BY <1>2, DidRefer
<1> QED  BY <1>6, <1>7, <1>8, <1>9, <1>10, <1>11

LEMMA AddressRight ==
  ASSUME NEW j, NEW e, Runs(j, e), ~ Deviates(j),
         AddressForm(code[j + 1], Target(j), Behind(j) - e, WordsFrom(e, Behind(j) - e))
  PROVE  Relocated(j) = Original(j)
<1> DEFINE v == WordsFrom(e, Behind(j) - e)
           a == Target(j)
           op == code[j + 1].op
           as == IF op = "adrp" THEN "adr" ELSE op
<1>1. Entry(j) = e /\ e \in Int /\ Behind(j) \in Int
  BY Running
<1>2. /\ op \in AddressOps /\ ~ is_in_fixing_range(a) /\ Behind(j) - e = 4
      /\ v[0] = Word("ldra", 2) /\ v[1] = Word("b", 3) /\ v[2] = Word("addr", <<as, a>>)
  BY DEF AddressForm
<1>3. v[0] = At(e + 0) /\ e + 0 = e /\ v[1] = At(e + 1) /\ v[2] = At(e + 2)
  BY <1>1, <1>2, WordAt
<1> HIDE DEF v
<1>4. At(e).op = "ldra" /\ At(e).imm = 2 /\ At(e + 2).imm = <<as, a>>
  <2>1. At(e) = Word("ldra", 2) /\ At(e + 2) = Word("addr", <<as, a>>)
    BY <1>2, <1>3
  <2>2. \A w, o, i : w = Word(o, i) => w.op = o /\ w.imm = i
    BY DEF Word
  <2>3. At(e).op = "ldra" /\ At(e).imm = 2
    BY <2>1, <2>2
  <2>4. At(e + 2).imm = <<as, a>>
    BY <2>1, <2>2
  <2> QED  BY <2>3, <2>4
<1>5. NewPlace(a) = OriginalPlace(a)
  BY <1>2, FarTarget DEF Referrers, AddressOps
<1>6. Continues(e + 1) = <<"at", SkipPrefetch(j + 1)>>
  <2>1. Behind(j) = e + 1 + 3
    BY <1>1, <1>2
  <2> QED  BY <1>2, <1>3, <2>1, PassesOn DEF v
<1>7. At(e + 2).imm[1] = as /\ At(e + 2).imm[2] = a
  <2>1. \A t, x, y : t = <<x, y>> => t[1] = x /\ t[2] = y
    OBVIOUS
  <2> HIDE DEF as, a
  <2> QED  BY <1>4, <2>1, Zenon
<1>8. Relocated(j) = Effect(as, NewPlace(a), Continues(e + 1))
  <2>1. Relocated(j) = Effect(At(e + At(e).imm).imm[1], NewPlace(At(e + At(e).imm).imm[2]), Continues(e + 1))
    BY <1>1, <1>4, DoesLoadAddress
  <2> HIDE DEF as, a
  <2> QED  BY <1>4, <1>7, <2>1
<1>9. Original(j) = Effect(as, OriginalPlace(a), <<"at", SkipPrefetch(j + 1)>>)
  <2>1. CASE op = "adrp"
    BY <2>1, DidAdrp
  <2>2. CASE op \in {"adr", "adru"}
    BY <2>2, DidRefer
  <2> QED  BY <1>2, <2>1, <2>2 DEF AddressOps
<1> QED  BY <1>5, <1>6, <1>8, <1>9

\* The loads of a literal that was copied find the copy.
LEMMA CopyRight ==
  ASSUME NEW j, NEW e, Runs(j, e), ~ Deviates(j),
         CopyForm(code[j + 1], Target(j), e - start[j + 1], Behind(j) - e, e, WordsFrom(e, Behind(j) - e))
  PROVE  Relocated(j) = Original(j)
<1> DEFINE v == WordsFrom(e, Behind(j) - e)
           a == Target(j)
           op == code[j + 1].op
<1>1. Entry(j) = e /\ e \in Int /\ Behind(j) \in Int
  BY Running
<1>2. a \in Int
  BY ReadRight DEF Deviates
<1>3. /\ op \in DOMAIN Loads /\ Behind(j) - e = 2 + Copied(op)
      /\ v[0] = Word(op, 2) /\ v[1] = Word("b", 1 + Copied(op))
      /\ \A k \in 1 .. Copied(op) : v[1 + k] = Word("lit", a + k - 1)
  BY DEF CopyForm
<1>4. Copied(op) \in {1, 2, 4} /\ Loads[op] \in {1, 2, 4} /\ Loads[op] <= Copied(op)
  BY <1>3 DEF Copied, Loads
<1>5. v[0] = At(e + 0) /\ e + 0 = e /\ v[1] = At(e + 1)
  BY <1>1, <1>3, <1>4, WordAt
<1>6. At(e).op = op /\ At(e).imm = 2
  <2> HIDE DEF v, op
  <2> QED  BY <1>3, <1>5 DEF Word
<1>7. Relative(e) = e + 2
  <2>1. op \in InstructionOps \ {"adrp"} /\ 2 \in -50 .. 49 /\ 2 >= 0
    BY <1>3 DEF Loads, InstructionOps
  <2>2. Signed(2, FieldSpan(op)) = 2
    BY <2>1, ShortWay
  <2> QED  BY <1>6, <2>2 DEF Relative
<1>8. ASSUME NEW k \in 1 .. Loads[op]  PROVE LoadedWord(Relative(e) + k - 1) = a + k - 1
  <2>1. k \in 1 .. Copied(op) /\ k \in Int
    BY <1>4
  <2>2. 1 + k \in Nat /\ 1 + k > 0 /\ 1 + k < Behind(j) - e
    BY <1>3, <1>4, <2>1
  <2>3. At(e + (1 + k)) = Word("lit", a + k - 1)
    BY <1>3, <2>1, <2>2, WordAt
  <2>4. At(e + (1 + k)).op = "lit" /\ At(e + (1 + k)).imm = a + k - 1
    <3> HIDE DEF a
    <3> QED  BY <2>3 DEF Word
  <2>5. InTrampoline(e + (1 + k))
    BY <2>2, <2>4, WordAt
  <2>6. Relative(e) + k - 1 = e + (1 + k)
    BY <1>1, <1>7, <2>1
  <2> QED  BY <2>4, <2>5, <2>6 DEF LoadedWord
<1>9. Continues(e + 1) = <<"at", SkipPrefetch(j + 1)>>
  <2>1. Behind(j) = e + 1 + (1 + Copied(op)) /\ 1 + Copied(op) \in 0 .. 49 /\ 1 < Behind(j) - e
    <3> HIDE DEF op
    <3> QED  BY <1>1, <1>3, <1>4
  <2> QED  BY <1>3, <1>5, <2>1, PassesOn
<1>10. Relocated(j) = Effect(op, <<"words", [k \in 1 .. Loads[op] |-> LoadedWord(Relative(e) + k - 1)]>>,
                             Continues(e + 1))
  BY <1>1, <1>3, <1>6, DoesLoad
<1>11. Original(j) = Effect(op, <<"words", [k \in 1 .. Loads[op] |-> a + k - 1]>>,
                            <<"at", SkipPrefetch(j + 1)>>)
  BY <1>3, DidLoad
<1>12. [k \in 1 .. Loads[op] |-> LoadedWord(Relative(e) + k - 1)] = [k \in 1 .. Loads[op] |-> a + k - 1]
  <2> HIDE DEF a, op
  <2> QED  BY <1>8
<1> QED  BY <1>9, <1>10, <1>11, <1>12

\* The loads of a literal that stayed find it where it was.
LEMMA LoadRight ==
  ASSUME NEW j, NEW e, Runs(j, e), ~ Deviates(j),
         LoadForm(code[j + 1], Target(j), e - start[j + 1], Behind(j) - e, e, WordsFrom(e, Behind(j) - e))
  PROVE  Relocated(j) = Original(j)
<1> DEFINE v == WordsFrom(e, Behind(j) - e)
           a == Target(j)
           op == code[j + 1].op
           s == start[j + 1]
<1>1. /\ Entry(j) = e /\ e \in Int /\ Behind(j) \in Int /\ s \in Int /\ s <= e
      /\ place.base \in Int /\ count \in 1 .. 5 /\ Compiled(code[j + 1], j)
  BY Running
<1>2. a \in Int /\ a = RefersTo(code[j + 1], place.base + j)
  BY ReadRight DEF Deviates, Target
<1>3. /\ op \in DOMAIN Loads /\ ~ CopiesLiteral(op, a, e - (e - s))
      /\ e - s \in 0 .. Copied(op) - 1 /\ Behind(j) - e = 1
      /\ v[0].op = Resized(op, a - e) /\ Signed(v[0].imm, LitSpan) = a - e
  BY DEF LoadForm
<1>4. Loads[op] \in {1, 2, 4} /\ (op # "ldrsw" => Copied(op) = Loads[op]) /\ Copied(op) \in {1, 2, 4}
  BY <1>3 DEF Copied, Loads
<1>5. v[0] = At(e)
  <2>1. v[0] = At(e + 0) /\ e + 0 = e
    BY <1>1, <1>3, WordAt
  <2> QED  BY <2>1
<1> HIDE DEF v, a, op, s
<1>6. ~ CopiesLiteral(op, a, s)
  <2>1. e - (e - s) = s
    BY <1>1
  <2> QED  BY <1>3, <2>1
<1>7. At(e).op = op
  <2>1. CASE op \in {"ldrx", "ldrsw"}
    BY <1>3, <1>5, <2>1 DEF Resized
  <2>2. CASE op \notin {"ldrx", "ldrsw"}
    <3>1. a >= s + Loads[op]
      <4>1. ~ (a < s + Loads[op])
        <5>1. ~ LiteralBehind(j)
          BY DEF Deviates
        <5> QED  BY <1>3, <1>6, <2>2, <5>1 DEF LiteralBehind, a, op, s
      <4> QED  BY <1>1, <1>2, <1>4, <4>1
    <3>2. a - e >= 0
      <4>1. e - s <= Loads[op] - 1
        BY <1>3, <1>4, <2>2
      <4> QED  BY <1>1, <1>2, <1>4, <3>1, <4>1
    <3> QED  BY <1>3, <1>5, <3>2 DEF Resized
  <2> QED  BY <2>1, <2>2
<1>8. Relative(e) = a
  <2>1. FieldSpan(op) = LitSpan
    BY <1>3 DEF FieldSpan, Branches, Loads
  <2>2. Relative(e) = e + (a - e)
    BY <1>3, <1>5, <1>7, <2>1 DEF Relative
  <2> QED  BY <1>1, <1>2, <2>2
<1>9. ASSUME NEW k \in 1 .. Loads[op]  PROVE LoadedWord(Relative(e) + k - 1) = a + k - 1
  <2>1. PICK i \in 0 .. 3 : i = k - 1 /\ i < Loads[op]
    BY <1>4
  <2>2. ~ InTrampoline(a + i)
    <3>1. ~ Backward(j) /\ code[j + 1].op \in Referrers \cup DOMAIN Loads \cup {"adrp"}
      BY <1>3 DEF Deviates, op
    <3> QED  BY <1>3, <3>1, TargetApart DEF a, op
  <2>3. ~ is_in_fixing_range(a + i)
    <3>1. a - place.base \notin 0 .. count - 1
      BY <1>6 DEF CopiesLiteral, is_in_fixing_range, Indices
    <3>2. a < place.base => a + Loads[op] <= place.base
      BY <1>1, <1>2, <1>3 DEF Compiled, op
    <3>3. \A x, b, c, l, y \in Int :
            /\ x - b \notin 0 .. c - 1 /\ (x < b => x + l <= b) /\ 0 <= y /\ y < l
            => (x + y) - b \notin 0 .. c - 1
      OBVIOUS
    <3>4. i \in Int /\ 0 <= i /\ Loads[op] \in Int /\ count \in Int
      BY <1>1, <1>4
    <3>5. (a + i) - place.base \notin 0 .. count - 1
      BY <1>1, <1>2, <2>1, <3>1, <3>2, <3>3, <3>4
    <3> QED  BY <3>5 DEF is_in_fixing_range, Indices
  <2>4. LoadedWord(a + i) = a + i
    BY <2>2, <2>3 DEF LoadedWord
  <2>5. Relative(e) + k - 1 = a + i /\ a + k - 1 = a + i
    BY <1>2, <1>4, <1>8, <2>1
  <2> QED  BY <2>4, <2>5
<1>10. Continues(e + 1) = <<"at", SkipPrefetch(j + 1)>>
  BY <1>3, NextBehind
<1>11. Relocated(j) = Effect(op, <<"words", [k \in 1 .. Loads[op] |-> LoadedWord(Relative(e) + k - 1)]>>,
                             Continues(e + 1))
  BY <1>1, <1>3, <1>7, DoesLoad
<1>12. Original(j) = Effect(op, <<"words", [k \in 1 .. Loads[op] |-> a + k - 1]>>,
                            <<"at", SkipPrefetch(j + 1)>>)
  BY <1>3, DidLoad DEF op, a
<1>13. [k \in 1 .. Loads[op] |-> LoadedWord(Relative(e) + k - 1)] = [k \in 1 .. Loads[op] |-> a + k - 1]
  BY <1>9
<1> QED  BY <1>10, <1>11, <1>12, <1>13

LEMMA InstructionKept ==
  ASSUME Finished, NEW j \in Indices, code[j + 1].op # "prfm", ~ Deviates(j)
  PROVE  Relocated(j) = Original(j)
<1>1. j \in 0 .. count - 1
  BY DEF Indices
<1>2. PICK e : Enters(j, e) /\ EnteredAt(j, e)
  BY <1>1, Entrance
<1>3. Runs(j, e)
  BY <1>1, <1>2 DEF Runs
<1>4. Formed(code[j + 1], j, e - start[j + 1], Behind(j) - e, e, WordsFrom(e, Behind(j) - e))
  BY <1>3, Running
<1>5. AsReadBy(code[j + 1], j) = Target(j)
  BY <1>3, ReadRight DEF Deviates
<1> DEFINE ins == code[j + 1]
           a == Target(j)
           pad == e - start[j + 1]
           n == Behind(j) - e
           v == WordsFrom(e, Behind(j) - e)
<1>6. \/ PlainForm(ins, j, n, v) \/ NearForm(ins, a, pad, n, e, v)
      \/ JumpForm(ins, a, n, v) \/ CallForm(ins, a, n, v) \/ SkipForm(ins, a, n, v)
      \/ AddressForm(ins, a, n, v) \/ PageForm(ins, a, n, v)
      \/ CopyForm(ins, a, pad, n, e, v) \/ LoadForm(ins, a, pad, n, e, v)
  <2> HIDE DEF n, v, pad, ins, a
  <2> QED  BY <1>4, <1>5 DEF Formed, n, v, pad, ins, a
<1>7. ~ PageForm(ins, a, n, v)
  BY DEF Deviates, PageInside, PageForm
<1> QED  BY <1>3, <1>6, <1>7, PlainRight, NearRight, JumpRight, CallRight, SkipRight, AddressRight,
            CopyRight, LoadRight

LEMMA GoesBackAtLast ==
  ASSUME Finished
  PROVE  GoesBack
<1>1. PICK e : Enters(count, e) /\ JumpsBackAt(e)
  BY LastEntrance
<1>2. count \in 0 .. count /\ count \in 1 .. 5 /\ ~ (count < count) /\ place.base \in Int
  <2>1. count \in 1 .. 5 /\ place.base \in Int
    BY Grounds
  <2> QED  BY <2>1
<1>3. Entry(count) = e
  <2>1. SkipPrefetch(count) = count
    BY <1>2, NotSkipped
  <2> QED  BY <1>1, <1>2, <2>1, EntryOf
<1>4. /\ e \in Int /\ Behind(count) \in Int /\ Behind(count) = place.tramp + Len(out)
      /\ e < Behind(count)
  <2>1. e \in start[count + 1] .. Behind(count) - 1 /\ start[count + 1] \in Int /\ Behind(count) \in Int
    BY <1>1, <1>2, Grounds DEF Enters
  <2> QED  BY <2>1, Grounds
<1>5. CASE At(e).op = "b" /\ Signed(At(e).imm, BranchSpan) = (place.base + count) - e
  <2>1. FieldSpan("b") = BranchSpan
    BY DEF FieldSpan, Branches, Loads
  <2>2. Relative(e) = e + ((place.base + count) - e)
    BY <1>5, <2>1 DEF Relative
  <2>3. Relative(e) = place.base + count
    BY <1>2, <1>4, <2>2
  <2> QED  BY <1>3, <1>5, <2>3 DEF GoesBack
<1>6. CASE /\ place.tramp + Len(out) - e = 4 /\ At(e) = Word("ldr17", 2) /\ At(e + 1) = Word("br17", 0)
           /\ At(e + 2) = Word("addr", place.base + count)
  <2>1. /\ At(e).op = "ldr17" /\ At(e).imm = 2 /\ At(e + 1).op = "br17"
        /\ At(e + 2).op = "addr" /\ At(e + 2).imm = place.base + count
    BY <1>6 DEF Word
  <2>2. InTrampoline(e + 2)
    <3>1. e + 2 \in Int /\ e < e + 2 /\ e + 2 < Behind(count)
      <4>1. Behind(count) - e = 4
        <5>1. Len(out) \in 0 .. TrampolineWords /\ place.tramp \in Int
          BY Grounds
        <5>2. Len(out) \in Int
          BY <5>1 DEF TrampolineWords
        <5> QED  BY <1>4, <1>6, <5>1, <5>2
      <4> QED  BY <1>4, <4>1
    <3> QED  BY <1>1, <1>2, <2>1, <3>1, Inside
  <2>3. Constant(e + 2) = place.base + count
    BY <2>1, <2>2 DEF Constant
  <2> QED  BY <1>3, <2>1, <2>3 DEF GoesBack
<1>7. \/ At(e).op = "b" /\ Signed(At(e).imm, BranchSpan) = (place.base + count) - e
      \/ /\ place.tramp + Len(out) - e = 4 /\ At(e) = Word("ldr17", 2) /\ At(e + 1) = Word("br17", 0)
         /\ At(e + 2) = Word("addr", place.base + count)
  BY <1>1, Zenon DEF JumpsBackAt
<1> QED  BY <1>5, <1>6, <1>7

LEMMA KeptIsKept == MovedInv /\ KeptInv => OriginalKept
<1> SUFFICES ASSUME MovedInv, KeptInv, done  PROVE OriginalKept
  BY DEF OriginalKept
<1>1. Finished
  BY DEF Finished
<1> QED  BY <1>1, GoesBackAtLast, InstructionKept DEF OriginalKept

(***************************************************************************)
(* Whatever the first instructions of a function are, as far as the        *)
(* compiler may have put them there, and wherever its trampoline is: an    *)
(* instruction that is none of those the code gets wrong does in the       *)
(* trampoline what it did in the function, on the places it worked on, and *)
(* control goes on to where it went on, back in the function at last.      *)
(***************************************************************************)
THEOREM OriginalStaysKept == MovingSpec => []OriginalKept
<1>1. MovingInit => MovedInv /\ KeptInv
  BY InitMoved, InitKept
<1>2. MovedInv /\ KeptInv /\ [MovingNext]_movingVars => (MovedInv /\ KeptInv)'
  BY StepMoved, StepKept
<1> QED  BY <1>1, <1>2, KeptIsKept, PTL DEF MovingSpec
=============================================================================
