----------------------------- MODULE MCStartUp -----------------------------
(* StartUp for TLC: four to fourteen modules with all that may lie between   *)
(* them, and files of which this module's asks for every kind of name.       *)
EXTENDS StartUp

R(kind, size) == [kind |-> kind, start |-> 0, size |-> size]
Placed(l) == FoldLeft(LAMBDA out, r :
               Append(out, [r EXCEPT !.start = IF out = <<>> THEN 0 ELSE RangeEnd(Last(out))]), <<>>, l)
Module == <<R("text", 12), R("rodata", 4), R("data", 14)>>
Gaps == << <<R("free", 3)>>, <<R("other", 5), R("free", 2)>>, <<R("text", 4), R("free", 1)>>,
          <<R("text", 4), R("rodata", 2), R("free", 1)>>, <<R("rodata", 2), R("data", 3)>>, <<>> >>

\* n modules, each behind the next of the gaps from the first-th on.
Space(n, first) ==
  Placed(<<R("free", 100)>>
         \o FlattenSeq([j \in 1 .. n |-> Gaps[((first + j) % 6) + 1] \o Module])
         \o <<R("free", 50)>>)

MCLayouts == { Space(6, 0), Space(12, 0), Space(13, 1), Space(14, 2) }

Rel(type, sym, at1, addend) == [type |-> type, sym |-> sym, offset |-> at1, addend |-> addend]
NoSymbol == [name |-> "", value |-> 0, defined |-> FALSE, bind |-> "local", hidden |-> FALSE]
Asks(name) == [NoSymbol EXCEPT !.name = name, !.bind = "global"]
Has(name, value) == [Asks(name) EXCEPT !.defined = TRUE, !.value = value]
Symbols(s) == [i \in 0 .. Len(s) |-> IF i = 0 THEN NoSymbol ELSE s[i]]
Empty == [dynamic |-> [HASH |-> 2], rel |-> <<>>, rela |-> <<>>, plt |-> <<>>,
          symbols |-> Symbols(<<>>), words |-> <<>>]

\* This module: relative words first, counted by one tag; the data starts at 16.
Own ==
  [Empty EXCEPT
     !.dynamic = [HASH |-> 2, RELASZ |-> 8, RELACOUNT |-> 2, PLTRELSZ |-> 2, PLTREL |-> "RELA", PLTGOT |-> 26],
     !.rela = <<Rel("RELATIVE", 0, 16, 5), Rel("RELATIVE", 0, 17, 9), Rel("GLOB_DAT", 1, 18, 0),
                Rel("ABS64", 1, 19, 4), Rel("GLOB_DAT", 2, 20, 0), Rel("ABS64", 3, 21, 2),
                Rel("GLOB_DAT", 4, 22, 0), Rel("GLOB_DAT", 5, 23, 0)>>,
     !.plt = <<Rel("JUMP_SLOT", 1, 24, 0), Rel("JUMP_SLOT", 4, 25, 0)>>,
     !.symbols = Symbols(<<Asks("f"), [Asks("w") EXCEPT !.hidden = TRUE, !.bind = "weak"],
                           Asks("internal"), Asks("nowhere"), [Has("own", 7) EXCEPT !.hidden = TRUE]>>),
     !.words = [o \in 16 .. 28 |-> IF o \in {24, 25} THEN 3 ELSE 0]]

\* The program, with relocations that keep their addend in the word.
Program ==
  [Empty EXCEPT
     !.dynamic = [HASH |-> 2, RELSZ |-> 3, RELCOUNT |-> 1, PLTRELSZ |-> 1, PLTREL |-> "RELA", PLTGOT |-> 21],
     !.rel = <<Rel("RELATIVE", 0, 16, 0), Rel("ABS64", 2, 17, 0), Rel("TLS", 2, 18, 0)>>,
     !.plt = <<Rel("JUMP_SLOT", 2, 20, 0)>>,
     !.symbols = Symbols(<<Has("f", 2), Asks("g"), [Has("g", 8) EXCEPT !.bind = "local"]>>),
     !.words = [o \in 16 .. 24 |-> CASE o = 16 -> 6 [] o = 17 -> 1 [] o = 20 -> 4 [] OTHER -> 0]]

\* The linker: no tag counts its relocations, and the first is not relative.
Linker ==
  [Empty EXCEPT
     !.dynamic = [HASH |-> 2, RELSZ |-> 2, RELASZ |-> 1],
     !.rel = <<Rel("TLS", 0, 16, 0), Rel("RELATIVE", 0, 17, 0)>>,
     !.rela = <<Rel("RELATIVE", 0, 18, 4)>>,
     !.words = [o \in 16 .. 18 |-> IF o = 17 THEN 6 ELSE 0]]

MCFile == [rtld |-> Linker, main |-> Program, this |-> Own,
           sdk |-> [Empty EXCEPT !.symbols = Symbols(<<Has("f", 3), Has("g", 5)>>)]]
MCPlace == [rtld |-> 0, main |-> 1, this |-> 2, sdk |-> 12]
MCList == <<"sdk", "main", "this">>
MCOrder == <<"rtld", "sdk", "main", "this">>
MCManual == [manual |-> 77]
MCHash == [n \in {"", "f", "w", "internal", "nowhere", "own", "g", "manual"} |->
             CASE n = "" -> 0 [] n = "f" -> 1 [] n = "g" -> 3 [] n = "w" -> 2 [] n = "internal" -> 4
               [] n = "nowhere" -> 5 [] n = "own" -> 6 [] n = "manual" -> 7]
MCTableSets ==
  {<<>>, << [version |-> "2", entries |-> <<[name |-> "f", index |-> 1, offset |-> 9]>>],
            [version |-> "1", entries |-> <<[name |-> "internal", index |-> 3, offset |-> 6],
                                            [name |-> "f", index |-> 12, offset |-> 1],
                                            [name |-> "g", index |-> 1, offset |-> 2]>>] >>}
=============================================================================
