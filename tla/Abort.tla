------------------------------- MODULE Abort -------------------------------
(***************************************************************************)
(* source/lib/diag/assert.cpp: what happens when a check fails.  AbortImpl *)
(* and its likes put together what there is to say and leave it to         *)
(* AbortWithCtx, all with the value 0.  Builds do not define               *)
(* EXL_SUPPORTS_REBOOTPAYLOAD (setting.hpp), so that it stores to an       *)
(* address that is not mapped and the kernel ends the process.  Any thread *)
(* may fail, one while another has already.                                *)
(***************************************************************************)
CONSTANT Aborters   \* threads

VARIABLES
  aborting,         \* thread -> "running", or "fault" in the loop of AbortWithCtx
  gone              \* how the process ended, if it has

abortVars == <<aborting, gone>>

AbortInit == aborting = [t \in Aborters |-> "running"] /\ gone = "no"

\* AbortImpl, OnAssertionFailure, exl_abort, UnexpectedDefaultImpl.  None returns.
AbortImpl(t) ==
  /\ gone = "no" /\ aborting[t] = "running"
  /\ aborting' = [aborting EXCEPT ![t] = "fault"]
  /\ UNCHANGED gone

\* The upper half of the address is 0x69696969, beyond what a process can map.
AbortWithCtx(t) ==
  /\ gone = "no" /\ aborting[t] = "fault"
  /\ gone' = "crashed"
  /\ UNCHANGED aborting
=============================================================================
