---------------------------- MODULE SandboxManager ----------------------------
(***************************************************************************)
(* The registry of sandbox sessions of one process: threads open, use,     *)
(* close and reap sessions under one lock, and do the slow backend work    *)
(* outside it.  The backend is the Jupyter gateway: one kernel per session *)
(* id, and an open that finds a kernel returns it.                         *)
(*                                                                         *)
(* An action is one critical section, or one backend call.  The LRU order  *)
(* of eviction victims is left open.                                       *)
(***************************************************************************)
EXTENDS Integers, FiniteSets, Sequences

CONSTANTS
  Sessions,      \* session ids
  Threads,       \* request and worker threads of the process
  MaxSessions,   \* the cap of the registry
  MaxKernels     \* bound: kernels the gateway ever starts

ASSUME SandboxAssumption ==
  /\ IsFiniteSet(Sessions) /\ IsFiniteSet(Threads)
  /\ MaxSessions \in Nat \ {0}
  /\ MaxKernels \in Nat

VARIABLES
  registry,   \* _sessions
  kernels,    \* the gateway client's session -> kernel map, 0 if none
  alive,      \* kernels that run
  thread,     \* what each thread is doing
  starts,     \* the session of each kernel started so far
  crossed     \* history: kernels whose lifetime two owners came to share

sandboxVars == <<registry, kernels, alive, thread, starts, crossed>>

Kernels == 1..MaxKernels
\* Identities of _Session objects, enough for the bound ones and those in hands.
Objects == 1..(Cardinality(Sessions) + Cardinality(Threads))

Unbound   == [object |-> 0, handle |-> 0, ready |-> FALSE, inUse |-> 0,
              expired |-> FALSE, pendingClose |-> FALSE]
Resting   == [pc |-> "idle", sid |-> "none", object |-> 0, kernel |-> 0, todo |-> {}]

SandboxTypeOK ==
  /\ registry \in [Sessions ->
       [object : Objects \cup {0}, handle : Kernels \cup {0}, ready : BOOLEAN,
        inUse : 0..Cardinality(Threads), expired : BOOLEAN, pendingClose : BOOLEAN]]
  /\ kernels \in [Sessions -> Kernels \cup {0}]
  /\ alive \subseteq 1..Len(starts)
  /\ \A t \in Threads :
       /\ thread[t].pc \in {"idle", "close", "clear", "open", "bind", "failed",
                            "entered", "using", "drop"}
       /\ thread[t].sid \in Sessions \cup {"none"}
       /\ thread[t].kernel \in Kernels \cup {0}
       /\ thread[t].todo \subseteq Sessions \X (Kernels \cup {0})
  /\ starts \in Seq(Sessions) /\ Len(starts) <= MaxKernels
  /\ crossed \subseteq Kernels

-----------------------------------------------------------------------------
Bound(s) == registry[s].object # 0

FreshObject == CHOOSE o \in Objects :
  /\ \A s \in Sessions : registry[s].object # o
  /\ \A t \in Threads : thread[t].object # o

\* Mutant: the reaper forgets the sessions that are in use.
Evictable_busy(s) == Bound(s) /\ registry[s].ready

\* Ready and held by nobody: what eviction and reaping may take.
Evictable(s) == Bound(s) /\ registry[s].ready /\ registry[s].inUse = 0

\* _reap_locked
Reapable == {s \in Sessions : Evictable(s) /\ registry[s].expired}

Pop(S) == [s \in Sessions |-> IF s \in S THEN Unbound ELSE registry[s]]

Captured(S) == {<<s, registry[s].handle>> : s \in S}

At(t, pc) == thread[t].pc = pc

\* Close the pairs of todo one by one, then go on at the program point `next`.
Tears(t, s, todo, pc) ==
  thread' = [thread EXCEPT ![t] = [Resting EXCEPT !.pc = pc, !.sid = s, !.todo = todo]]

-----------------------------------------------------------------------------
\* open, first critical section, for a session that is not ready: reap, make
\* room, reserve a placeholder or join the one another thread opened.  At the cap
\* with nothing to evict it raises and changes nothing: a reap makes room.
OpenSession(t, s) ==
  LET left == {r \in Sessions : Bound(r)} \ Reapable
      full == ~Bound(s) /\ Cardinality(left) >= MaxSessions
  IN /\ At(t, "idle")
     /\ ~registry[s].ready
     /\ \E evicted \in SUBSET {r \in left : Evictable(r)} :
          /\ Cardinality(evicted) = (IF full THEN 1 ELSE 0)
          /\ registry' =
               [Pop(Reapable \cup evicted) EXCEPT ![s] =
                  IF Bound(s) THEN registry[s]
                  ELSE [Unbound EXCEPT !.object = FreshObject]]
          /\ Tears(t, s, Captured(Reapable \cup evicted), "clear")
     /\ UNCHANGED <<kernels, alive, starts, crossed>>

\* open of a session that is ready: its idle clock restarts.
Reuse(t, s) ==
  /\ At(t, "idle")
  /\ registry[s].ready
  /\ registry' = [registry EXCEPT ![s].expired = FALSE]
  /\ UNCHANGED <<kernels, alive, thread, starts, crossed>>

\* _close_backend: close_handle deletes the captured kernel and forgets it if it
\* is still the kernel of its session; without a handle, close goes by the id.
CloseBackend(t) ==
  /\ thread[t].pc \in {"close", "clear"}
  /\ \E c \in thread[t].todo :
       LET k == IF c[2] = 0 THEN kernels[c[1]] ELSE c[2]
       IN /\ alive' = alive \ {k}
          /\ kernels' = IF kernels[c[1]] = k THEN [kernels EXCEPT ![c[1]] = 0]
                                             ELSE kernels
          /\ crossed' = IF c[2] = 0 THEN crossed \cup ({k} \ {0}) ELSE crossed
          /\ thread' = [thread EXCEPT ![t].todo = @ \ {c}]
  /\ UNCHANGED <<registry, starts>>

\* The victims are closed.
VictimsClosed(t) ==
  /\ thread[t].pc \in {"close", "clear"}
  /\ thread[t].todo = {}
  /\ thread' = [thread EXCEPT ![t] =
                  IF At(t, "clear") THEN [@ EXCEPT !.pc = "open"] ELSE Resting]
  /\ UNCHANGED <<registry, kernels, alive, starts, crossed>>

\* backend.open: the kernel of the session if there is one, else a new one.
BackendOpen(t) ==
  LET s == thread[t].sid
      k == IF kernels[s] # 0 THEN kernels[s] ELSE Len(starts) + 1
  IN /\ At(t, "open")
     /\ k \in Kernels
     /\ thread' = [thread EXCEPT ![t].pc = "bind", ![t].kernel = k]
     /\ kernels' = [kernels EXCEPT ![s] = k]
     /\ IF kernels[s] = 0
          THEN alive' = alive \cup {k} /\ starts' = Append(starts, s) /\ UNCHANGED crossed
          ELSE crossed' = crossed \cup {k} /\ UNCHANGED <<alive, starts>>
     /\ UNCHANGED registry

\* backend.open raises: the gateway refused, or the new kernel could not be primed.
BackendFails(t) ==
  LET s == thread[t].sid
  IN /\ At(t, "open")
     /\ kernels[s] = 0
     /\ \/ UNCHANGED <<kernels, alive, starts>>
        \/ /\ Len(starts) < MaxKernels
           /\ starts' = Append(starts, s)
           /\ kernels' = [kernels EXCEPT ![s] = Len(starts')]
           /\ alive' = alive \cup {Len(starts')}
     /\ thread' = [thread EXCEPT ![t].pc = "failed"]
     /\ UNCHANGED <<registry, crossed>>

\* ... the placeholder is freed, and what the session has is closed by its id.
FreeSlot(t) ==
  LET s == thread[t].sid
  IN /\ At(t, "failed")
     /\ registry' = IF registry[s].ready THEN registry ELSE Pop({s})
     /\ Tears(t, s, {<<s, 0>>}, "close")
     /\ UNCHANGED <<kernels, alive, starts, crossed>>

\* open, last critical section: bind the kernel, or drop it if the slot is gone.
Bind(t) ==
  LET s == thread[t].sid
      k == thread[t].kernel
  IN /\ At(t, "bind")
     /\ IF Bound(s)
          THEN /\ registry' = [registry EXCEPT ![s].handle = k, ![s].ready = TRUE,
                                               ![s].expired = FALSE]
               /\ crossed' = IF registry[s].handle \in {0, k} THEN crossed
                             ELSE crossed \cup {registry[s].handle}
               /\ thread' = [thread EXCEPT ![t] = Resting]
          ELSE /\ Tears(t, s, {<<s, k>>}, "close")
               /\ UNCHANGED <<registry, crossed>>
     /\ UNCHANGED <<kernels, alive, starts>>

\* exec, put_file, get_file, list_files, remove_path: _enter counts the thread ...
Enter(t, s) ==
  /\ At(t, "idle")
  /\ registry[s].ready
  /\ registry' = [registry EXCEPT ![s].inUse = @ + 1, ![s].expired = FALSE]
  /\ thread' = [thread EXCEPT ![t] = [Resting EXCEPT !.pc = "entered", !.sid = s,
                                                    !.object = registry[s].object]]
  /\ UNCHANGED <<kernels, alive, starts, crossed>>

\* Mutant: the guard of _leave against a newer session under the same id is gone.
Held_anyObject(t) == Bound(thread[t].sid)

\* The session the thread entered is still the one bound under its id.
Held(t) == registry[thread[t].sid].object = thread[t].object

\* ... and _get_kernel looks up, without the registry's lock, the kernel that the session
\* id has by then (0: KeyError, the thread only leaves).  It is not the one the thread is
\* counted for when the session was invalidated in between and opened anew, or when
\* another thread's open has yet to bind it.
GetKernel(t) ==
  LET s == thread[t].sid
      k == kernels[s]
  IN /\ At(t, "entered")
     /\ thread' = [thread EXCEPT ![t].pc = "using", ![t].kernel = k]
     /\ crossed' = IF Held(t) /\ registry[s].handle = k THEN crossed
                   ELSE crossed \cup ({k} \ {0})
     /\ UNCHANGED <<registry, kernels, alive, starts>>

\* _leave: release the hold, and run a close that was deferred.
Leave(t) ==
  LET s == thread[t].sid
      last == registry[s].inUse = 1 /\ registry[s].pendingClose
  IN /\ At(t, "using")
     /\ IF Held(t) /\ registry[s].inUse > 0
          THEN IF last
                 THEN registry' = Pop({s}) /\ Tears(t, s, Captured({s}), "close")
                 ELSE /\ registry' = [registry EXCEPT ![s].inUse = @ - 1,
                                                      ![s].expired = FALSE]
                      /\ thread' = [thread EXCEPT ![t] = Resting]
          ELSE thread' = [thread EXCEPT ![t] = Resting] /\ UNCHANGED registry
     /\ UNCHANGED <<kernels, alive, starts, crossed>>

\* The runtime wedged or is gone: the backend deletes the kernel.  exec then says so; a
\* file operation that times out raises a plain IOError, and remove_path swallows it.
Invalidate(t) ==
  LET k == thread[t].kernel
  IN /\ At(t, "using")
     /\ k \in alive
     /\ alive' = alive \ {k}
     /\ kernels' = [s \in Sessions |-> IF kernels[s] = k THEN 0 ELSE kernels[s]]
     /\ crossed' = crossed \cup {k}
     /\ \E next \in {"drop", "using"} : thread' = [thread EXCEPT ![t].pc = next]
     /\ UNCHANGED <<registry, starts>>

\* After exec, _drop_invalidated_session drops the entry, which leaves no hold.
DropInvalidated(t) ==
  /\ At(t, "drop")
  /\ registry' = IF Held(t) THEN Pop({thread[t].sid}) ELSE registry
  /\ thread' = [thread EXCEPT ![t] = Resting]
  /\ UNCHANGED <<kernels, alive, starts, crossed>>

\* close: at once, or deferred to the last _leave.
CloseSession(t, s) ==
  /\ At(t, "idle")
  /\ Bound(s)
  /\ IF registry[s].inUse > 0
       THEN /\ registry' = [registry EXCEPT ![s].pendingClose = TRUE]
            /\ UNCHANGED thread
       ELSE registry' = Pop({s}) /\ Tears(t, s, Captured({s}), "close")
  /\ UNCHANGED <<kernels, alive, starts, crossed>>

\* reap_expired
ReapExpired(t) ==
  /\ At(t, "idle")
  /\ Reapable # {}
  /\ registry' = Pop(Reapable)
  /\ Tears(t, "none", Captured(Reapable), "close")
  /\ UNCHANGED <<kernels, alive, starts, crossed>>

\* A session passes its TTL without an access.
IdlesOut(s) ==
  /\ Evictable(s)
  /\ ~registry[s].expired
  /\ registry' = [registry EXCEPT ![s].expired = TRUE]
  /\ UNCHANGED <<kernels, alive, thread, starts, crossed>>

SandboxInit ==
  /\ registry = [s \in Sessions |-> Unbound]
  /\ kernels = [s \in Sessions |-> 0]
  /\ alive = {}
  /\ thread = [t \in Threads |-> Resting]
  /\ starts = <<>>
  /\ crossed = {}

ThreadStep(t) ==
  \/ \E s \in Sessions : OpenSession(t, s) \/ Reuse(t, s) \/ Enter(t, s) \/ CloseSession(t, s)
  \/ CloseBackend(t) \/ VictimsClosed(t)
  \/ BackendOpen(t) \/ BackendFails(t) \/ FreeSlot(t) \/ Bind(t)
  \/ GetKernel(t) \/ Leave(t) \/ Invalidate(t) \/ DropInvalidated(t)
  \/ ReapExpired(t)

SandboxNext == (\E t \in Threads : ThreadStep(t)) \/ (\E s \in Sessions : IdlesOut(s))

SandboxSpec == SandboxInit /\ [][SandboxNext]_sandboxVars

-----------------------------------------------------------------------------
(* Properties.                                                              *)

SlotsBounded == Cardinality({s \in Sessions : Bound(s)}) <= MaxSessions

\* A thread that runs code in a kernel, or is about to, loses it only if it crossed.
KernelKept ==
  /\ \A t \in Threads :
       At(t, "using") /\ thread[t].kernel # 0 => thread[t].kernel \in alive \cup crossed
  /\ \A s \in Sessions : registry[s].ready => registry[s].handle \in alive \cup crossed

\* Somebody will close k: it is bound, being opened, or on a list of victims.
Owned(k) == \E s \in Sessions :
  /\ kernels[s] = k
  /\ \/ Bound(s)
     \/ \E t \in Threads :
          \/ thread[t].sid = s /\ thread[t].pc \in {"open", "bind", "failed"}
          \/ thread[t].todo \cap {<<s, k>>, <<s, 0>>} # {}

\* A kernel that runs has an owner, unless an earlier one of its session crossed.
NoOrphan == \A k \in alive : Owned(k) \/ \E c \in crossed : starts[c] = starts[k]

\* Opens, closes, evictions and reaps that race never exceed the cap; no running
\* code loses its kernel and no kernel is left without an owner, unless the kernel was
\* handed out by an idempotent open, used before the open that made it has bound it, used
\* by a thread that entered a session since invalidated and opened anew, closed by id, or
\* declared dead by its user.
SandboxSafe == SlotsBounded /\ KernelKept /\ NoOrphan
=============================================================================
