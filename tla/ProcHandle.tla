----------------------------- MODULE ProcHandle -----------------------------
(***************************************************************************)
(* source/lib/util/sys/cur_proc_handle.cpp: the handle of the own process, *)
(* which mapping memory needs.  Kernels that do not give it away are made  *)
(* to: a thread of the own process receives it in a message the process    *)
(* sends to itself.  Two threads share a session, s_Handle, and the stack  *)
(* of the second, which is a local array of the first.                     *)
(***************************************************************************)
EXTENDS Integers

INVALID_HANDLE == 0
OwnProcess == 1

VARIABLES
  s_Handle,
  client,     \* where GetViaIpcTrick is; "none" outside
  server,     \* where ReceiveProcessHandleThreadMain is; "none" before it starts and once it is freed
  message,    \* the request waits in the session
  handles     \* open handles of the session and of the thread

procVars == <<s_Handle, client, server, message, handles>>

ProcInit ==
  /\ s_Handle = INVALID_HANDLE
  /\ client = "none" /\ server = "none"
  /\ message = FALSE /\ handles = {}

\* svcGetInfo gives the handle, or the trick begins.  Get returns at once from then on.
GetViaMesosphere ==
  /\ s_Handle = INVALID_HANDLE /\ client = "none"
  /\ \/ s_Handle' = OwnProcess /\ client' = client
     \/ client' = "create" /\ s_Handle' = s_Handle
  /\ UNCHANGED <<server, message, handles>>

CreateSession ==
  /\ client = "create"
  /\ client' = "start"
  /\ handles' = handles \cup {"server", "client", "thread"}
  /\ UNCHANGED <<s_Handle, server, message>>

StartThread ==
  /\ client = "start"
  /\ client' = "send" /\ server' = "receive"
  /\ UNCHANGED <<s_Handle, message, handles>>

SendSyncRequest ==
  /\ client = "send"
  /\ client' = "sent" /\ message' = TRUE
  /\ UNCHANGED <<s_Handle, server, handles>>

ReplyAndReceive ==
  /\ server = "receive" /\ message
  /\ server' = "store" /\ message' = FALSE
  /\ UNCHANGED <<s_Handle, client, handles>>

StoreHandle ==
  /\ server = "store"
  /\ server' = "close" /\ s_Handle' = OwnProcess
  /\ UNCHANGED <<client, message, handles>>

CloseServer ==
  /\ server = "close"
  /\ server' = "exit" /\ handles' = handles \ {"server"}
  /\ UNCHANGED <<s_Handle, client, message>>

ExitThread ==
  /\ server = "exit"
  /\ server' = "gone"
  /\ UNCHANGED <<s_Handle, client, message, handles>>

\* The request fails once the session is closed; its result is not looked at.
CloseClient ==
  /\ client = "sent" /\ "server" \notin handles
  /\ client' = "wait" /\ handles' = handles \ {"client"}
  /\ UNCHANGED <<s_Handle, server, message>>

\* Not waiting for the thread.
ReturnEarly ==
  /\ client = "wait"
  /\ client' = "none" /\ handles' = {}
  /\ UNCHANGED <<s_Handle, server, message>>

WaitSynchronization ==
  /\ client = "wait" /\ server = "gone"
  /\ client' = "none" /\ server' = "none" /\ handles' = {}
  /\ UNCHANGED <<s_Handle, message>>

ClientNext ==
  GetViaMesosphere \/ CreateSession \/ StartThread \/ SendSyncRequest \/ CloseClient
  \/ WaitSynchronization

ServerNext == ReplyAndReceive \/ StoreHandle \/ CloseServer \/ ExitThread

(***************************************************************************)
(* The thread runs on a stack that is gone when GetViaIpcTrick returns,    *)
(* and whoever goes on after it finds the handle and leaks none.           *)
(***************************************************************************)
HandshakeDone ==
  /\ server \notin {"none", "gone"} => client \in {"send", "sent", "wait"}
  /\ client = "none" => handles = {} /\ ~ message
  /\ server = "gone" => s_Handle = OwnProcess
=============================================================================
