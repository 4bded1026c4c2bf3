--------------------------- MODULE ProcessRuntime ---------------------------
(***************************************************************************)
(* One terminal process: src/src/runtime/local.rs with the session that    *)
(* owns it (terminal/session.rs) and the task that awaits its events.      *)
(*                                                                         *)
(* A reader thread moves the output of the PTY into a bounded queue; a     *)
(* waiter thread reaps the child, closes the PTY, waits for the reader and *)
(* sends the termination.  The user interface writes, stops and handles    *)
(* events on one thread; the last owner to let go of the process drops it, *)
(* on whichever thread that is.  A PID is the child's only until the       *)
(* waiter reaps it.                                                        *)
(***************************************************************************)
EXTENDS Integers

CONSTANTS
  Capacity,    \* ProcessSpec.output_capacity
  PtyOutput, PtyInput,   \* chunks the kernel buffers in each direction
  MaxOutput, MaxWrites   \* bounds: chunks the child writes, and is sent

ASSUME RuntimeAssumption == {Capacity, PtyOutput, PtyInput} \subseteq Nat \ {0} /\ {MaxOutput, MaxWrites} \subseteq Nat

Ui == "ui"  Worker == "worker"
Threads == {Ui, Worker}   \* those that may cancel

VARIABLES
  child,      \* "running", "zombie" or "reaped"
  escaped,    \* a descendant outside the group holds the terminal
  input, output,   \* chunks in the kernel
  produced, delivered, written,   \* chunks written, handled, sent
  state,      \* ProcessControl.state
  lifecycle,  \* who holds the lifecycle lock
  writer,     \* ProcessControl.writer: "open", "locked" or "closed"
  master,     \* ProcessControl.master is open
  cancel,     \* how far each thread is in ProcessControl::cancel
  reader, queue, closed,   \* the reader thread, the output channel, its receiver
  waiter, killed,   \* the waiter thread, and what it saw of a cancellation
  ui,         \* what the user interface thread is doing
  session,    \* whether the session has the stream
  task, event,   \* the task that awaits an event, and the event
  ended       \* the termination that was handled

kernel == <<child, escaped, input, output, produced>>
control == <<state, lifecycle, writer, master>>
threads == <<reader, queue, waiter, killed>>
owner == <<ui, session, task, event, ended, delivered, written>>
vars == <<kernel, control, cancel, closed, threads, owner>>

Init ==
  /\ child = "running" /\ escaped = FALSE /\ input = 0 /\ output = 0 /\ produced = 0
  /\ state = "running" /\ lifecycle = "free" /\ writer = "open" /\ master = TRUE
  /\ cancel = [t \in Threads |-> "out"]
  /\ reader = "read" /\ queue = 0 /\ closed = FALSE /\ waiter = "poll" /\ killed = FALSE
  /\ ui = "idle" /\ session = "attached" /\ task = "waiting" /\ event = "none" /\ ended = "none"
  /\ delivered = 0 /\ written = 0

-----------------------------------------------------------------------------
(* The child and the kernel *)

ChildWrites ==
  /\ child = "running" /\ output < PtyOutput /\ produced < MaxOutput
  /\ output' = output + 1 /\ produced' = produced + 1
  /\ UNCHANGED <<child, escaped, input, control, cancel, closed, threads, owner>>
ChildReads ==
  /\ child = "running" /\ input > 0 /\ input' = input - 1
  /\ UNCHANGED <<child, escaped, output, produced, control, cancel, closed, threads, owner>>
ChildForks ==
  /\ child = "running" /\ escaped' = TRUE
  /\ UNCHANGED <<child, input, output, produced, control, cancel, closed, threads, owner>>
ChildExits ==
  /\ child = "running" /\ child' = "zombie"
  /\ UNCHANGED <<escaped, input, output, produced, control, cancel, closed, threads, owner>>
DescendantExits ==
  /\ escaped /\ escaped' = FALSE
  /\ UNCHANGED <<child, input, output, produced, control, cancel, closed, threads, owner>>

\* Nobody has the terminal open any more.
HungUp == child # "running" /\ ~escaped

-----------------------------------------------------------------------------
(* read_output on the reader thread *)

ReadChunk ==
  /\ reader = "read" /\ output > 0
  /\ output' = output - 1 /\ reader' = "send"
  /\ UNCHANGED <<child, escaped, input, produced, control, cancel, closed, queue, waiter, killed, owner>>
ReadEnd ==
  /\ reader = "read" /\ output = 0 /\ HungUp /\ reader' = "done"
  /\ UNCHANGED <<kernel, control, cancel, closed, queue, waiter, killed, owner>>
\* blocking_send: waits for room, and fails when the receiver is closed.
SendChunk ==
  /\ reader = "send"
  /\ \/ closed /\ reader' = "done" /\ queue' = queue
     \/ ~closed /\ queue < Capacity /\ queue' = queue + 1 /\ reader' = "read"
  /\ UNCHANGED <<kernel, control, cancel, closed, waiter, killed, owner>>

-----------------------------------------------------------------------------
(* The waiter thread *)

\* Lock ProcessControl.lifecycle.
Lock(t) == lifecycle = "free" /\ lifecycle' = t
Unlock(t) == lifecycle' = IF lifecycle = t THEN "free" ELSE lifecycle

\* try_wait_child: under the lock, waitpid and then the state.
WaitLock ==
  /\ waiter = "poll" /\ child = "zombie" /\ Lock("waiter") /\ waiter' = "reap"
  /\ UNCHANGED <<kernel, state, writer, master, cancel, closed, reader, queue, killed, owner>>
Reap ==
  /\ waiter = "reap" /\ child' = "reaped" /\ waiter' = "finish"
  /\ UNCHANGED <<escaped, input, output, produced, control, cancel, closed, reader, queue, killed, owner>>
Finish ==
  /\ waiter = "finish" /\ waiter' = "close"
  /\ killed' = (state = "cancelled") /\ state' = "finished" /\ Unlock("waiter")
  /\ UNCHANGED <<kernel, writer, master, cancel, closed, reader, queue, owner>>
WaiterCloses ==
  /\ waiter = "close" /\ writer # "locked" /\ writer' = "closed" /\ master' = FALSE /\ waiter' = "reader"
  /\ UNCHANGED <<kernel, state, lifecycle, cancel, closed, reader, queue, killed, owner>>

\* reader_done.recv, and then the termination is sent.
SendTermination ==
  /\ waiter = "reader" /\ reader = "done" /\ waiter' = "done"
  /\ UNCHANGED <<kernel, control, cancel, closed, reader, queue, killed, owner>>

-----------------------------------------------------------------------------
(* ProcessControl::cancel, on either thread *)

At(t, here, there) == cancel[t] = here /\ cancel' = [cancel EXCEPT ![t] = there]

Mark(t) ==
  /\ IF state = "finished" THEN At(t, "mark", "out") ELSE At(t, "mark", "lock")
  /\ state' = IF state = "running" THEN "cancelled" ELSE state
  /\ UNCHANGED <<kernel, lifecycle, writer, master, closed, threads, owner>>
LockLifecycle(t) ==
  /\ At(t, "lock", "check") /\ lifecycle = "free" /\ lifecycle' = t
  /\ UNCHANGED <<kernel, state, writer, master, closed, threads, owner>>

\* Faulty variant: whether the process is finished is not asked again.
NotAsked == FALSE
\* The state is read again under the lock.
FinishedNow == state = "finished"
Check(t) ==
  /\ IF FinishedNow THEN At(t, "check", "out") /\ lifecycle' = "free"
                    ELSE At(t, "check", "kill") /\ lifecycle' = lifecycle
  /\ UNCHANGED <<kernel, state, writer, master, closed, threads, owner>>
\* kill_process: the child's group and the child.
Kill(t) ==
  /\ At(t, "kill", "close") /\ Unlock(t)
  /\ child' = IF child = "running" THEN "zombie" ELSE child
  /\ UNCHANGED <<escaped, input, output, produced, state, writer, master, closed, threads, owner>>
CancelCloses(t) ==
  /\ At(t, "close", "out") /\ writer # "locked" /\ writer' = "closed" /\ master' = FALSE
  /\ UNCHANGED <<kernel, state, lifecycle, closed, threads, owner>>
Cancels(t) == Mark(t) \/ LockLifecycle(t) \/ Check(t) \/ Kill(t) \/ CancelCloses(t)

-----------------------------------------------------------------------------
(* The session and the task *)

\* Faulty variant: a dropped process leaves its output channel open.
DropKeepsOutput(t) == closed' = closed /\ cancel' = [cancel EXCEPT ![t] = "mark"]
\* Drop of RunningProcess: the receiver is closed, then cancel.
Drop(t) == closed' = TRUE /\ cancel' = [cancel EXCEPT ![t] = "mark"]

\* Faulty variant: the termination is taken as soon as it was sent.
Sent == TRUE
\* The output channel is empty and its sender is gone.
OutputOver == queue = 0 /\ reader = "done"

\* next_event: output while there is some, then the termination.  The task
\* lets go of the process when it has the event.
NextEvent ==
  /\ task = "waiting" /\ task' = "done"
  /\ \/ queue > 0 /\ queue' = queue - 1 /\ event' = "output"
     \/ /\ OutputOver /\ waiter = "done" /\ queue' = queue
        /\ event' = IF killed THEN "cancelled" ELSE "exited"
  /\ IF session = "detached" THEN Drop(Worker) ELSE UNCHANGED <<closed, cancel>>
  /\ UNCHANGED <<kernel, control, reader, waiter, killed, ui, session, ended, delivered, written>>

\* wait_for_terminal_event, while the session has the stream.
Again == IF session = "attached" THEN "waiting" ELSE task

\* handle_terminal_event: after output another event is awaited while the
\* session has the stream; a termination lets go of it.
HandleEvent ==
  /\ ui = "idle" /\ cancel[Ui] = "out" /\ event # "none" /\ event' = "none"
  /\ IF event = "output"
     THEN /\ delivered' = delivered + 1 /\ UNCHANGED <<ended, session, closed, cancel>>
          /\ task' = Again
     ELSE /\ ended' = event /\ session' = "detached" /\ UNCHANGED <<task, delivered>>
          /\ IF session = "attached" THEN Drop(Ui) ELSE UNCHANGED <<closed, cancel>>
  /\ UNCHANGED <<kernel, control, threads, ui, written>>

\* Session::write: the writer is kept while the kernel takes the input.
StartWrite ==
  /\ ui = "idle" /\ cancel[Ui] = "out" /\ session = "attached" /\ written < MaxWrites
  /\ state = "running" /\ writer = "open"
  /\ writer' = "locked" /\ ui' = "write" /\ written' = written + 1
  /\ UNCHANGED <<kernel, state, lifecycle, master, cancel, closed, threads, session, task, event, ended, delivered>>
EndWrite ==
  /\ ui = "write" /\ ui' = "idle" /\ writer' = "open"
  /\ \/ HungUp /\ input' = input
     \/ ~HungUp /\ input < PtyInput /\ input' = input + 1
  /\ UNCHANGED <<child, escaped, output, produced, state, lifecycle, master, cancel, closed, threads,
                 session, task, event, ended, delivered, written>>

\* Session::stop: cancel, then let go of the stream.
Stop ==
  /\ ui = "idle" /\ cancel[Ui] = "out" /\ session = "attached"
  /\ ui' = "stop" /\ cancel' = [cancel EXCEPT ![Ui] = "mark"]
  /\ UNCHANGED <<kernel, control, closed, threads, session, task, event, ended, delivered, written>>
Detach ==
  /\ ui = "stop" /\ cancel[Ui] = "out" /\ ui' = "idle" /\ session' = "detached"
  /\ IF task = "done" THEN Drop(Ui) ELSE UNCHANGED <<closed, cancel>>
  /\ UNCHANGED <<kernel, control, threads, task, event, ended, delivered, written>>

Reader == ReadChunk \/ ReadEnd \/ SendChunk
Waiter == WaitLock \/ Reap \/ Finish \/ WaiterCloses \/ SendTermination
UserInterface == HandleEvent \/ EndWrite \/ Detach \/ Cancels(Ui)
Next ==
  \/ ChildWrites \/ ChildReads \/ ChildForks \/ ChildExits \/ DescendantExits
  \/ Reader \/ Waiter \/ NextEvent \/ Cancels(Worker) \/ UserInterface \/ StartWrite \/ Stop

\* The threads run; the child, the user and descendants need not do anything.
Spec == Init /\ [][Next]_vars
  /\ WF_vars(Reader) /\ WF_vars(Waiter) /\ WF_vars(NextEvent)
  /\ WF_vars(Cancels(Worker)) /\ WF_vars(UserInterface)

-----------------------------------------------------------------------------
(* Properties *)

\* A signal is sent only while the PID is the child's: reaping and killing
\* exclude each other (docs/runtime.md:38-39).
KillsOwn == \A t \in Threads : cancel[t] = "kill" => child # "reaped"

\* The termination is the last event: it is handled after every chunk the
\* child wrote (docs/runtime.md:43-48).
EndComesLast == ended # "none" => delivered = produced

\* A terminal that was stopped, or whose card was removed, leaves nothing
\* behind: the child is reaped and both threads end, unless a descendant
\* outside the child's group keeps the terminal open.
StopEnds == session = "detached" ~> (child = "reaped" /\ reader = "done" /\ waiter = "done") \/ escaped

\* A process that ends is seen to end, whatever was being written or queued.
EndIsSeen == child = "zombie" ~> session = "detached" \/ escaped
=============================================================================
