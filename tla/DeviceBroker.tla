----------------------------- MODULE DeviceBroker -----------------------------
(***************************************************************************)
(* Commands to one remote device, through Redis: a tool call dispatches an *)
(* invocation and drains its output; the SSE handlers of the device's      *)
(* connections pop the command list; the device posts its output.  Each    *)
(* action is one Redis command, or several that nobody else can tell apart.*)
(* Tool calls, handlers and posts may be in different processes.  Any      *)
(* command may raise, before or after it took effect; the code logs the    *)
(* error and goes on, each method in its own way.                          *)
(***************************************************************************)
EXTENDS Integers, Sequences, FiniteSets

CONSTANTS
  Calls,       \* invocation ids, one per tool call
  Conns,       \* SSE connections of the device
  MaxOutput    \* bound: output chunks of one command

ASSUME DeviceAssumption == MaxOutput \in Nat

VARIABLES
  queue,     \* dev:cmd, the command list
  ticket,    \* dev:ticket exists
  hash,      \* dev:inv, the metadata of each invocation
  output,    \* dev:out, the output stream of each invocation
  call,      \* the tool calls
  conn,      \* the SSE handlers
  device,    \* what the device does with each command
  loose      \* history: commands that were not taken back when their call gave them up

deviceVars == <<queue, ticket, hash, output, call, conn, device, loose>>

NewCall == [pc |-> "idle", got |-> 0, late |-> FALSE, cut |-> FALSE,
            result |-> "none"]
Down    == [pc |-> "down", call |-> "none", closed |-> FALSE]
Unseen  == [pc |-> "none", runs |-> 0, afterwards |-> FALSE, added |-> 0, chunk |-> "none"]

DeviceTypeOK ==
  /\ queue \in Seq(Calls)
  /\ ticket \in BOOLEAN
  /\ hash \in [Calls -> {"none", "open", "completed", "zombie"}]
  /\ output \in [Calls -> Seq({"data", "control"})]
  /\ call \in [Calls -> [pc : {"idle", "undo", "drain", "ask", "flush", "consult",
                               "delete", "unqueue", "returned", "dead"},
                         got : 0..(MaxOutput + 1), late : BOOLEAN,
                         cut : BOOLEAN,
                         result : {"none", "done", "timeout", "failed"}]]
  /\ conn \in [Conns -> [pc : {"down", "loop", "block", "popped", "checked"},
                         call : Calls \cup {"none"}, closed : BOOLEAN]]
  /\ device \in [Calls -> [pc : {"none", "run", "add", "mark", "ended"},
                           runs : 0..Cardinality(Calls), afterwards : BOOLEAN,
                           added : 0..(MaxOutput + 1),
                           chunk : {"none", "data", "control"}]]
  /\ loose \subseteq Calls

Known(i) == hash[i] \in {"open", "completed"}

CallAt(i, pc) == call[i].pc = pc

CallGoes(i, pc) == call' = [call EXCEPT ![i].pc = pc]

ConnGoes(c, pc) == conn' = [conn EXCEPT ![c].pc = pc]

HeldByConn(i) == \E c \in Conns : conn[c].pc = "checked" /\ conn[c].call = i

\* The call gives its command up; a handler has it in its hands, or its hash stays.
LetsGo(i) ==
  loose' = IF hash'[i] = "none" /\ ~HeldByConn(i) THEN loose ELSE loose \cup {i}

-----------------------------------------------------------------------------
(* The tool call: dispatch_invocation, drain_output, cleanup_invocation.    *)

\* HSET, then RPUSH: done, and whatever was done when one of them raised.
Send(i) ==
  /\ CallAt(i, "idle")
  /\ \E done \in {{}, {"HSET"}, {"HSET", "RPUSH"}} :
       /\ hash' = [hash EXCEPT ![i] = IF "HSET" \in done THEN "open" ELSE @]
       /\ queue' = IF "RPUSH" \in done THEN Append(queue, i) ELSE queue
       /\ \E pc \in IF "RPUSH" \in done THEN {"drain", "undo"} ELSE {"undo"} : CallGoes(i, pc)
  /\ UNCHANGED <<ticket, output, conn, device, loose>>

\* After the error the hash is deleted, if Redis lets it; an envelope stays queued.
UndoSend(i) ==
  /\ CallAt(i, "undo")
  /\ hash' = [hash EXCEPT ![i] = "none"] \/ UNCHANGED hash
  /\ LetsGo(i)
  /\ call' = [call EXCEPT ![i].pc = "returned", ![i].result = "failed"]
  /\ UNCHANGED <<queue, ticket, output, conn, device>>

\* The deadline of the call, timeout_ms + 5 s, passes.
DeadlinePasses(i) ==
  /\ call[i].pc \in {"drain", "ask", "flush"}
  /\ ~call[i].late
  /\ call' = [call EXCEPT ![i].late = TRUE]
  /\ UNCHANGED <<queue, ticket, hash, output, conn, device, loose>>

\* One chunk is read and yielded; past the deadline the caller stops after it.
ReadChunk(i) ==
  /\ call[i].pc \in {"drain", "flush"}
  /\ call[i].got < Len(output[i])
  /\ call' = [call EXCEPT
       ![i].got = @ + 1,
       ![i].pc = IF output[i][call[i].got + 1] = "control" THEN "delete"
                 ELSE IF call[i].late THEN "consult" ELSE @,
       ![i].result = IF output[i][call[i].got + 1] = "control" THEN "done" ELSE @]
  /\ UNCHANGED <<queue, ticket, hash, output, conn, device, loose>>

\* XREAD returns nothing: look at the hash and the clock, or, on the last sweep, end.
ReadNothing(i) ==
  /\ call[i].pc \in {"drain", "flush"}
  /\ call[i].got = Len(output[i])
  /\ CallGoes(i, IF CallAt(i, "flush") THEN "consult" ELSE "ask")
  /\ UNCHANGED <<queue, ticket, hash, output, conn, device, loose>>

\* XREAD raises: drain_output returns, and the caller takes that for the end.
DrainFails(i) ==
  /\ call[i].pc \in {"drain", "flush"}
  /\ call' = [call EXCEPT ![i].pc = "consult", ![i].cut = TRUE]
  /\ UNCHANGED <<queue, ticket, hash, output, conn, device, loose>>

\* _is_completed, which is false on an error, and the clock.
AskCompleted(i) ==
  /\ CallAt(i, "ask")
  /\ \E completed \in {hash[i] = "completed", FALSE} :
       CallGoes(i, IF completed \/ call[i].late THEN "flush" ELSE "drain")
  /\ UNCHANGED <<queue, ticket, hash, output, conn, device, loose>>

\* _collect_result without a control chunk: the completion state decides, which reads
\* as absent when Redis raises.
Consult(i) ==
  /\ CallAt(i, "consult")
  /\ \E completed \in {hash[i] = "completed", FALSE} :
       call' = [call EXCEPT ![i].pc = "delete",
                            ![i].result = IF completed THEN "done" ELSE "timeout"]
  /\ UNCHANGED <<queue, ticket, hash, output, conn, device, loose>>

\* cleanup_invocation deletes the hash, then the output; an error on the way ends it and
\* keeps what is left, the queued envelope with it.
DeleteState(i) ==
  /\ CallAt(i, "delete")
  /\ \E kept \in {{}, {"output"}, {"hash", "output"}} :
       /\ hash' = [hash EXCEPT ![i] = IF "hash" \in kept THEN @ ELSE "none"]
       /\ output' = [output EXCEPT ![i] = IF "output" \in kept THEN @ ELSE <<>>]
       /\ CallGoes(i, IF kept = {} THEN "unqueue" ELSE "returned")
  /\ LetsGo(i)
  /\ UNCHANGED <<queue, ticket, conn, device>>

\* LREM, if it does not raise: the envelope was pushed once, and is there or was popped.
Unqueue(i) ==
  /\ CallAt(i, "unqueue")
  /\ \/ \E p \in DOMAIN queue :
          queue[p] = i /\ queue' = SubSeq(queue, 1, p - 1) \o SubSeq(queue, p + 1, Len(queue))
     \/ UNCHANGED queue
  /\ CallGoes(i, "returned")
  /\ UNCHANGED <<ticket, hash, output, conn, device, loose>>

\* The process of the tool call dies: nothing is cleaned up until the TTLs.
CallerDies(i) ==
  /\ call[i].pc \notin {"idle", "returned", "dead"}
  /\ CallGoes(i, "dead")
  /\ UNCHANGED <<queue, ticket, hash, output, conn, device, loose>>

\* The TTL of the keys: what a late post left behind, or a dead caller.
KeysExpire(i) ==
  /\ call[i].pc \in {"returned", "dead"}
  /\ hash[i] # "none" \/ output[i] # <<>>
  /\ hash' = [hash EXCEPT ![i] = "none"]
  /\ output' = [output EXCEPT ![i] = <<>>]
  /\ UNCHANGED <<queue, ticket, call, conn, device, loose>>

-----------------------------------------------------------------------------
(* The device's connections: poll, session_events.                          *)

\* claim_ticket, if there is queued work.
Poll ==
  /\ queue # <<>>
  /\ ~ticket
  /\ ticket' = TRUE
  /\ UNCHANGED <<queue, hash, output, call, conn, device, loose>>

\* register_session adopts the ticket and closes the sessions of its own process;
\* those of other web processes (`others`) stay.
Connect(c, others) ==
  /\ conn[c].pc = "down"
  /\ ticket
  /\ ticket' = FALSE
  /\ conn' = [d \in Conns |-> IF d = c THEN [Down EXCEPT !.pc = "loop"]
                ELSE [conn[d] EXCEPT !.closed = @ \/ d \notin others]]
  /\ UNCHANGED <<queue, hash, output, call, device, loose>>

\* The handler looks at its closed flag and the idle clock, then blocks on the list.
Loop(c) ==
  /\ conn[c].pc = "loop"
  /\ \/ ~conn[c].closed /\ ConnGoes(c, "block")
     \/ conn' = [conn EXCEPT ![c] = Down]
  /\ UNCHANGED <<queue, ticket, hash, output, call, device, loose>>

\* BLPOP.  It ends with nothing after its timeout, or an error, which may also lose the
\* envelope that was popped.
PopCommand(c) ==
  /\ conn[c].pc = "block"
  /\ \/ /\ queue # <<>>
        /\ queue' = Tail(queue)
        /\ \/ conn' = [conn EXCEPT ![c].pc = "popped", ![c].call = Head(queue)]
           \/ ConnGoes(c, "loop")
     \/ ConnGoes(c, "loop") /\ UNCHANGED queue
  /\ UNCHANGED <<ticket, hash, output, call, device, loose>>

\* Mutant: the handler delivers what it popped.
Reaped_never(i) == FALSE

\* get_invocation finds nothing.
Reaped(i) == hash[i] = "none"

\* next_command drops an envelope whose invocation was cleaned up, or cannot be read.
CheckReaped(c) ==
  /\ conn[c].pc = "popped"
  /\ \/ ~Reaped(conn[c].call) /\ ConnGoes(c, "checked")
     \/ conn' = [conn EXCEPT ![c].pc = "loop", ![c].call = "none"]
  /\ UNCHANGED <<queue, ticket, hash, output, call, device, loose>>

\* The envelope goes to the wire; a socket that is dead swallows it.
Deliver(c) ==
  LET i == conn[c].call
  IN /\ conn[c].pc = "checked"
     /\ conn' = [conn EXCEPT ![c].pc = "loop", ![c].call = "none"]
     /\ \/ device' = [device EXCEPT ![i].pc = "run", ![i].runs = @ + 1,
                                    ![i].afterwards = CallAt(i, "returned")]
        \/ UNCHANGED device
     /\ UNCHANGED <<queue, ticket, hash, output, call, loose>>

\* The socket breaks and the generator exits, whatever it holds.
Disconnected(c) ==
  /\ conn[c].pc # "down"
  /\ conn' = [conn EXCEPT ![c] = Down]
  /\ UNCHANGED <<queue, ticket, hash, output, call, device, loose>>

-----------------------------------------------------------------------------
(* The device's posts: submit_output, and ack with a denial.                *)

\* A post is accepted if the invocation is found.  A denial is a control chunk
\* that ends a command that never ran.
Post(i, chunk) ==
  /\ device[i].pc = "run"
  /\ chunk = "data" => device[i].added < MaxOutput
  /\ \E found \in {Known(i), FALSE} :
       device' = [device EXCEPT
         ![i].pc = IF found THEN "add" ELSE IF chunk = "data" THEN @ ELSE "ended",
         ![i].chunk = chunk]
  /\ UNCHANGED <<queue, ticket, hash, output, call, conn, loose>>

AddChunk(i, before, after) ==
  /\ device[i].pc = before
  /\ output' = [output EXCEPT ![i] = Append(@, device[i].chunk)]
  /\ device' = [device EXCEPT ![i].pc = after, ![i].added = @ + 1]
  /\ UNCHANGED <<queue, ticket, hash, call, conn, loose>>

\* The counters, or with the control chunk the completion, written to the hash: a hash
\* that was deleted meanwhile comes back as a fragment without its device.
MarkHash(i, before, after) ==
  /\ device[i].pc = before
  /\ hash' = [hash EXCEPT ![i] =
                IF ~Known(i) THEN "zombie"
                ELSE IF device[i].chunk = "control" THEN "completed" ELSE @]
  /\ device' = [device EXCEPT ![i].pc = after]
  /\ UNCHANGED <<queue, ticket, output, call, conn, loose>>

AfterPost(i) == IF device[i].chunk = "control" THEN "ended" ELSE "run"

\* Mutant: the completion is flipped before the chunk is on the stream.
SubmitChunk_markFirst(i) ==
  MarkHash(i, "add", "mark") \/ AddChunk(i, "mark", AfterPost(i))

\* submit_output_chunk, submit_ack: XADD before the hash.
SubmitChunk(i) ==
  AddChunk(i, "add", "mark") \/ MarkHash(i, "mark", AfterPost(i))

\* XADD or the update of the hash raises: the chunk or the mark is lost, which
\* submit_output does not tell the device.
PostFails(i) ==
  /\ device[i].pc \in {"add", "mark"}
  /\ device' = [device EXCEPT ![i].pc = AfterPost(i)]
  /\ UNCHANGED <<queue, ticket, hash, output, call, conn, loose>>

\* The device is switched off, or its command never ends.
DeviceDies(i) ==
  /\ device[i].pc \in {"run", "add", "mark"}
  /\ device' = [device EXCEPT ![i].pc = "ended"]
  /\ UNCHANGED <<queue, ticket, hash, output, call, conn, loose>>

DeviceInit ==
  /\ queue = <<>>
  /\ ticket = FALSE
  /\ hash = [i \in Calls |-> "none"]
  /\ output = [i \in Calls |-> <<>>]
  /\ call = [i \in Calls |-> NewCall]
  /\ conn = [c \in Conns |-> Down]
  /\ device = [i \in Calls |-> Unseen]
  /\ loose = {}

CallStep(i) ==
  \/ Send(i) \/ UndoSend(i) \/ DeadlinePasses(i)
  \/ ReadChunk(i) \/ ReadNothing(i) \/ DrainFails(i) \/ AskCompleted(i) \/ Consult(i)
  \/ DeleteState(i) \/ Unqueue(i) \/ CallerDies(i) \/ KeysExpire(i)

ConnStep(c) ==
  \/ \E others \in SUBSET Conns : Connect(c, others)
  \/ Loop(c) \/ PopCommand(c) \/ CheckReaped(c) \/ Deliver(c) \/ Disconnected(c)

PostStep(i) ==
  \/ \E chunk \in {"data", "control"} : Post(i, chunk)
  \/ SubmitChunk(i) \/ PostFails(i) \/ DeviceDies(i)

DeviceNext ==
  \/ \E i \in Calls : CallStep(i) \/ PostStep(i)
  \/ \E c \in Conns : ConnStep(c)
  \/ Poll

DeviceSpec == DeviceInit /\ [][DeviceNext]_deviceVars

-----------------------------------------------------------------------------
(* Properties.                                                              *)

\* "A reader that observes completed=1 is guaranteed the chunk": a call that ended
\* before its deadline, and whose reads did not fail, returned every chunk that was put on
\* the stream.
OutputComplete ==
  \A i \in Calls :
    call[i].result = "done" /\ ~call[i].late /\ ~call[i].cut =>
      call[i].got = device[i].added

\* A command runs at most once, and never after its caller saw the call end, unless a
\* handler had it in its hands when the call was cleaned up, or Redis failed the
\* clean-up and its hash stayed.
RunsOnceInTime ==
  \A i \in Calls : device[i].runs <= 1 /\ (device[i].afterwards => i \in loose)

DeviceSafe == OutputComplete /\ RunsOnceInTime
=============================================================================
