----------------------------- MODULE MCLiveCode -----------------------------
(* LiveCode for TLC: a function next to the module's code and one out of     *)
(* reach of a branch, callbacks of each kind, pools that leave as much room  *)
(* behind the last trampoline as those of the program do, and instructions   *)
(* at the ends of what their fields hold.                                    *)
EXTENDS LiveCode

\* Pages of 48 words: 0 to 2 the main module, 3 to 5 this module, then free pages
\* between the heap and mapped ones, and far away.
FarPage == 1398102                          \* the first page beyond 2^26 words
Free == {7, 8, 9, 11, 12, 14, 16}
MCLayout ==
  [p \in 0 .. 16 \cup {FarPage} |-> IF p \in Free \cup {6, 15} THEN "unmapped" ELSE "code"]

MCKernel == [alias |-> Region(15, 16), heap |-> Region(6, 7), aslr |-> Region(5, 17),
             stack |-> Region(5, 17), unmap |-> "unused"]
MCHard == [aslr |-> Region(6, 17), stack |-> Region(6, 17)]

Far1 == FarPage * 48 + 3
MCFunctions == [near |-> [base |-> 9, len |-> 3], far |-> [base |-> Far1, len |-> 6]]
MCKinds == <<"trampoline", "trampoline", "inline", "inline_float", "replace">>
MCHookPool == [base |-> 144, size |-> 96]
MCInlinePool == [base |-> 240, size |-> 48]
MCCode == {0 .. 287, FarPage * 48 .. FarPage * 48 + 47}
MCSpots == {9, 10, Far1}

I1(op, rd, rn, rm, imm, shift, amount, extend) ==
  [op |-> op, rd |-> rd, rn |-> rn, rm |-> rm, imm |-> imm, shift |-> shift,
   amount |-> amount, extend |-> extend]
Plain(op, rd, rn, imm) == I1(op, rd, rn, X(9), imm, 0, 0, 0)

MCInstructions ==
  {Plain("nop", X(0), X(0), 0)}
  \cup { Plain(op, X(0), X(0), imm) :
           op \in {"b", "bl"}, imm \in {0, 4, 2^27 - 4, -4, - (2^27), 17472} }
  \cup { Plain(op, X(0), r, 0) : op \in {"br", "ret"}, r \in {X(0), X(17), LR} }
  \cup { Plain("adr", r, X(0), imm) : r \in {X(0), LR}, imm \in {0, 1, 2^20 - 1, -1, - (2^20)} }
  \cup { Plain("adrp", r, X(0), imm) : r \in {X(0), LR}, imm \in {0, 4096, 2^30} }
  \cup { Plain(op, r[1], r[2], imm) :
           op \in {"add", "adds", "sub", "subs", "cmp", "cmn"},
           r \in {<<X(1), LR>>, <<W(2), W(5)>>, <<SP, SP>>},
           imm \in {0, 1, 4095, 4096, 4095 * 4096} }
  \cup { I1(op, r, X(0), X(0), imm, s, 0, 0) :
           op \in {"movn", "movz", "movk"}, r \in {X(1), W(30)}, imm \in {0, 65535}, s \in 0 .. 3 }
  \cup { I1(op, r[1], r[2], r[3], 0, s, a, 0) :
           op \in {"orr", "mov"}, r \in {<<X(1), LR, SP>>, <<W(2), W(5), W(17)>>},
           s \in 0 .. 3, a \in {0, 31} }
  \cup { Plain("ldrl", r, X(0), imm) : r \in {X(0), W(30)}, imm \in {0, 4, 2^20 - 4, -4, - (2^20)} }
  \cup { I1(op, r[1], X(5), X(9), 0, 0, r[2], e) :
           op \in {"ldrr", "strr"}, r \in {<<X(0), 0>>, <<X(3), 3>>, <<W(30), 0>>, <<W(0), 2>>},
           e \in {2, 3, 6, 7} }
  \cup { Plain(op, r, SP, imm) :
           op \in {"ldur", "stur"}, r \in {X(0), W(30)}, imm \in {0, 255, -1, -256, -16} }
  \cup { Plain(op, r, SP, imm) :
           op \in {"ldri", "stri"}, r \in {X(0), W(30)}, imm \in {0, 1, 4095} }
=============================================================================
