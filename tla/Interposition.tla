--------------------------- MODULE Interposition ---------------------------
(***************************************************************************)
(* What source/lib/hook promises a program: once a callback is installed   *)
(* at an instruction, whoever gets there runs it first, the callback that  *)
(* was installed last before the others, and then what was always there,   *)
(* once and in order.  A callback that replaces the function never gets to *)
(* the rest, one with a trampoline chooses, an inline one never prevents   *)
(* it.                                                                     *)
(***************************************************************************)
EXTENDS Integers, Sequences, SequencesExt

CONSTANTS Functions, Kinds      \* function -> [base, len]; callback -> its kind

VARIABLES
  hooked,    \* instruction -> callbacks, in the order they were installed
  running,   \* the function that is called, if any
  log        \* the callbacks and instructions that ran in this call

NoFunction == "none"

At(a) == IF a \in DOMAIN hooked THEN hooked[a] ELSE <<>>

Original(a) == <<"instruction", a>>
Callback(c) == <<"callback", c>>

\* Everything between the call of f and its return, if no callback ends it before.
Script(f) ==
  FlattenSeq([k \in 1 .. Functions[f].len |->
    LET a == Functions[f].base + k - 1
        newest == Reverse(At(a))
    IN [j \in DOMAIN newest |-> Callback(newest[j])] \o <<Original(a)>>])

Init == hooked = [a \in {} |-> <<>>] /\ running = NoFunction /\ log = <<>>

Install(a, c) ==
  /\ running = NoFunction
  /\ hooked' = [x \in DOMAIN hooked \cup {a} |-> IF x = a THEN Append(At(a), c) ELSE hooked[x]]
  /\ UNCHANGED <<running, log>>

Call(f) ==
  /\ running = NoFunction
  /\ running' = f /\ log' = <<>>
  /\ UNCHANGED hooked

LastIs(kinds) == \E c \in DOMAIN Kinds : log # <<>> /\ Last(log) = Callback(c) /\ Kinds[c] \in kinds

Proceed ==
  /\ running # NoFunction
  /\ Len(log) < Len(Script(running)) /\ ~ LastIs({"replace"})
  /\ log' = Append(log, Script(running)[Len(log) + 1])
  /\ UNCHANGED <<hooked, running>>

Return ==
  /\ running # NoFunction
  /\ Len(log) = Len(Script(running)) \/ LastIs({"replace", "trampoline"})
  /\ running' = NoFunction /\ log' = <<>>
  /\ UNCHANGED hooked

Next ==
  \/ Proceed \/ Return
  \/ \E f \in DOMAIN Functions : Call(f)
  \/ \E c \in DOMAIN Kinds, f \in DOMAIN Functions :
       \E a \in Functions[f].base .. Functions[f].base + Functions[f].len - 1 : Install(a, c)

Spec == Init /\ [][Next]_<<hooked, running, log>>
=============================================================================
