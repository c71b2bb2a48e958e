------------------------------- MODULE Thread -------------------------------
(***************************************************************************)
(* The life of an SDL_Thread (src/src/thread/SDL_thread.c, with the        *)
(* pthread calls of pthread/SDL_systhread.c): the new thread and the owner *)
(* of the SDL_Thread, who joins or detaches it, agree through an atomic    *)
(* state on which of them frees it.                                        *)
(*                                                                         *)
(* The owner uses the pointer as SDL_thread.h asks: one SDL_WaitThread or  *)
(* one SDL_DetachThread.                                                   *)
(***************************************************************************)
EXTENDS Naturals

CONSTANTS
  Threads,     \* SDL_Thread structures
  Values,      \* what thread functions return
  Unset,       \* status before the function returns: -1
  TLSIDs       \* ids SDL_CreateTLS has handed out

ASSUME ThreadAssumption == Unset \notin Values /\ 0 \notin TLSIDs

VARIABLES
  mem,         \* "none", "allocated" or "freed"
  state,       \* thread->state
  status,      \* thread->status
  threadid,    \* thread->threadid is set
  tls,         \* ids under which the thread stored a value with a destructor
  os,          \* the system's view: "none", "running", "exited", "joined"
  detached,    \* ... and whether it has been told to forget the thread
  tpc,         \* the new thread's program counter
  opc,         \* the owner's program counter
  got,         \* history: the status SDL_WaitThread stored
  returned     \* history: the value the thread function returned

threadVars == <<mem, state, status, threadid, tls, os, detached, tpc, opc, got, returned>>

States == {"ALIVE", "DETACHED", "ZOMBIE", "CLEANED"}

ThreadInit ==
  /\ mem = [t \in Threads |-> "none"]
  /\ state = [t \in Threads |-> "ALIVE"]
  /\ status = [t \in Threads |-> Unset]
  /\ threadid = [t \in Threads |-> FALSE]
  /\ tls = [t \in Threads |-> {}]
  /\ os = [t \in Threads |-> "none"]
  /\ detached = [t \in Threads |-> FALSE]
  /\ tpc = [t \in Threads |-> "none"]
  /\ opc = [t \in Threads |-> "none"]
  /\ got = [t \in Threads |-> Unset]
  /\ returned = [t \in Threads |-> Unset]

Run(t, l) == tpc' = [tpc EXCEPT ![t] = l]
Own(t, l) == opc' = [opc EXCEPT ![t] = l]

-----------------------------------------------------------------------------
(* SDL_CreateThreadWithStackSize.  When it fails it frees what it          *)
(* allocated and nobody ever sees the structure.                           *)
Create(t) ==
  /\ mem[t] = "none"
  /\ mem' = [mem EXCEPT ![t] = "allocated"]
  /\ os' = [os EXCEPT ![t] = "running"]
  /\ Run(t, "setup") /\ Own(t, "own")
  /\ UNCHANGED <<state, status, threadid, tls, detached, got, returned>>

-----------------------------------------------------------------------------
(* SDL_RunThread *)

Setup(t) ==
  /\ tpc[t] = "setup"
  /\ threadid' = [threadid EXCEPT ![t] = TRUE]
  /\ Run(t, "function")
  /\ UNCHANGED <<mem, state, status, tls, os, detached, opc, got, returned>>

(* The thread function stores under an id (SDL_SetTLS, which refuses 0,    *)
(* an id SDL_CreateTLS never returns) ...                                  *)
ValidID(id) == id # 0

SetTLS(t) ==
  /\ tpc[t] = "function"
  /\ \E id \in TLSIDs \cup {0} : ValidID(id) /\ tls' = [tls EXCEPT ![t] = @ \cup {id}]
  /\ UNCHANGED <<mem, state, status, threadid, os, detached, tpc, opc, got, returned>>

(* ... and returns.                                                        *)
Return(t) ==
  /\ tpc[t] = "function"
  /\ \E v \in Values : /\ status' = [status EXCEPT ![t] = v]
                       /\ returned' = [returned EXCEPT ![t] = v]
  /\ Run(t, "tls")
  /\ UNCHANGED <<mem, state, threadid, tls, os, detached, opc, got>>

(* SDL_CleanupTLS runs the destructors and drops the storage.              *)
CleanupTLS(t) ==
  /\ tpc[t] = "tls"
  /\ tls' = [tls EXCEPT ![t] = {}]
  /\ Run(t, "mark")
  /\ UNCHANGED <<mem, state, status, threadid, os, detached, opc, got, returned>>

(* SDL_AtomicCAS(&thread->state, old, new), then to yes or to no.          *)
CAS(t, old, new) ==
  state' = [state EXCEPT ![t] = IF state[t] = old THEN new ELSE @]

MarkZombie(t) ==
  /\ tpc[t] = "mark"
  /\ CAS(t, "ALIVE", "ZOMBIE")
  /\ Run(t, IF state[t] = "ALIVE" THEN "exit" ELSE "clean")
  /\ UNCHANGED <<mem, status, threadid, tls, os, detached, opc, got, returned>>

MarkCleaned(t) ==
  /\ tpc[t] = "clean"
  /\ CAS(t, "DETACHED", "CLEANED")
  /\ Run(t, IF state[t] = "DETACHED" THEN "free" ELSE "exit")
  /\ UNCHANGED <<mem, status, threadid, tls, os, detached, opc, got, returned>>

ThreadFrees_Not(t) == UNCHANGED mem
ThreadFrees(t) == mem' = [mem EXCEPT ![t] = "freed"]

FreeDetached(t) ==
  /\ tpc[t] = "free"
  /\ ThreadFrees(t)
  /\ Run(t, "exit")
  /\ UNCHANGED <<state, status, threadid, tls, os, detached, opc, got, returned>>

Exit(t) ==
  /\ tpc[t] = "exit"
  /\ os' = [os EXCEPT ![t] = "exited"]
  /\ Run(t, "gone")
  /\ UNCHANGED <<mem, state, status, threadid, tls, detached, opc, got, returned>>

-----------------------------------------------------------------------------
(* SDL_WaitThread, also called by SDL_DetachThread for a zombie *)

Wait(t) ==
  /\ opc[t] = "own"
  /\ Own(t, "join")
  /\ UNCHANGED <<mem, state, status, threadid, tls, os, detached, tpc, got, returned>>

Joinable_Any(t) == os[t] \in {"running", "exited"}
Joinable(t) == os[t] = "exited"

Join(t) ==
  /\ opc[t] = "join" /\ Joinable(t)
  /\ os' = [os EXCEPT ![t] = "joined"]
  /\ got' = [got EXCEPT ![t] = status[t]]
  /\ Own(t, "free")
  /\ UNCHANGED <<mem, state, status, threadid, tls, detached, tpc, returned>>

FreeJoined(t) ==
  /\ opc[t] = "free"
  /\ mem' = [mem EXCEPT ![t] = "freed"]
  /\ Own(t, "done")
  /\ UNCHANGED <<state, status, threadid, tls, os, detached, tpc, got, returned>>

-----------------------------------------------------------------------------
(* SDL_DetachThread *)

Detach_State(t) == CAS(t, "ALIVE", "DETACHED")

Detach(t) ==
  /\ opc[t] = "own"
  /\ Detach_State(t)
  /\ Own(t, IF state[t] = "ALIVE" THEN "detach" ELSE "look")
  /\ UNCHANGED <<mem, status, threadid, tls, os, detached, tpc, got, returned>>

(* SDL_SYS_DetachThread(thread) *)
SystemDetach(t) ==
  /\ opc[t] = "detach"
  /\ detached' = [detached EXCEPT ![t] = TRUE]
  /\ Own(t, "done")
  /\ UNCHANGED <<mem, state, status, threadid, tls, os, tpc, got, returned>>

LookAtState(t) ==
  /\ opc[t] = "look"
  /\ Own(t, IF state[t] = "ZOMBIE" THEN "join" ELSE "done")
  /\ UNCHANGED <<mem, state, status, threadid, tls, os, detached, tpc, got, returned>>

-----------------------------------------------------------------------------
ThreadStep(t) ==
  \/ Setup(t) \/ Return(t) \/ CleanupTLS(t) \/ MarkZombie(t) \/ MarkCleaned(t)
  \/ FreeDetached(t) \/ Exit(t)
OwnerStep(t) ==
  Join(t) \/ FreeJoined(t) \/ SystemDetach(t) \/ LookAtState(t)
Choice(t) == Create(t) \/ SetTLS(t) \/ Wait(t) \/ Detach(t)

ThreadNext == \E t \in Threads : ThreadStep(t) \/ OwnerStep(t) \/ Choice(t)

(* Threads run and their functions return; an owner inside SDL_WaitThread  *)
(* or SDL_DetachThread runs on.                                            *)
ThreadFairness == \A t \in Threads : WF_threadVars(ThreadStep(t)) /\ WF_threadVars(OwnerStep(t))

ThreadSpec == ThreadInit /\ [][ThreadNext]_threadVars /\ ThreadFairness

-----------------------------------------------------------------------------
ThreadTypeOK ==
  /\ mem \in [Threads -> {"none", "allocated", "freed"}]
  /\ state \in [Threads -> States]
  /\ status \in [Threads -> Values \cup {Unset}]
  /\ threadid \in [Threads -> BOOLEAN] /\ detached \in [Threads -> BOOLEAN]
  /\ tls \in [Threads -> SUBSET TLSIDs]
  /\ os \in [Threads -> {"none", "running", "exited", "joined"}]
  /\ tpc \in [Threads -> {"none", "setup", "function", "tls", "mark", "clean", "free", "exit",
                          "gone"}]
  /\ opc \in [Threads -> {"none", "own", "join", "free", "detach", "look", "done"}]
  /\ got \in [Threads -> Values \cup {Unset}] /\ returned \in [Threads -> Values \cup {Unset}]

(* The structure is freed at most once, by the thread or by the owner, and *)
(* whatever the thread itself still reads or writes is not freed memory.   *)
FreedByOne ==
  \A t \in Threads :
    /\ tpc[t] = "free" \/ opc[t] = "free" => mem[t] = "allocated"
    /\ ~(tpc[t] = "free" /\ opc[t] = "free")
    /\ tpc[t] \in {"setup", "function", "tls", "mark", "clean"} => mem[t] = "allocated"

(* Nothing is leaked: once the owner has let go and the thread is gone,    *)
(* the structure has been freed, whichever came first.                     *)
NoLeak ==
  \A t \in Threads : opc[t] = "done" /\ tpc[t] = "gone" => mem[t] = "freed"

(* SDL_WaitThread hands over the value the function returned, after all    *)
(* of the thread's local storage was destroyed.                            *)
JoinSeesResult ==
  \A t \in Threads : opc[t] = "free" => got[t] = returned[t] /\ got[t] # Unset /\ tls[t] = {}

(* SDL_WaitThread returns, and a detached thread's structure goes away.    *)
ReleaseCompletes ==
  \A t \in Threads :
    opc[t] \in {"join", "detach", "look"} ~> mem[t] = "freed" /\ opc[t] = "done"

-----------------------------------------------------------------------------
(* SDL_thread.h: a detached thread's SDL_Thread becomes invalid at once    *)
(* when the thread exits.  SDL_SYS_DetachThread reads thread->handle after *)
(* the state has been set to DETACHED.                                     *)
DetachReadsLiveThread ==
  \A t \in Threads : opc[t] = "detach" => mem[t] = "allocated"

=============================================================================
