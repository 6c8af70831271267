------------------------------ MODULE ClientRun ------------------------------
(***************************************************************************)
(* One run of a MySQL client in a container, as the executors do it        *)
(* (dump_executor.rs, compression.rs, restore_executor.rs,                 *)
(* remote_import_executor.rs, process.rs, ephemeral_run.rs): the task of   *)
(* reprodb that moves the stream and can be cancelled, the blocking thread *)
(* that encodes or decodes it, the bounded channel between them, the       *)
(* client behind its pipes, and the task that drains its stderr.           *)
(* A dump flows client, pipe, task, channel, thread; an import flows back. *)
(***************************************************************************)
EXTENDS Naturals

CONSTANTS
  Chunks,    \* chunks of the SQL stream
  Channel,   \* BUFFERED_CHUNKS
  Pipe,      \* chunks that fit into the pipe of stdin or stdout
  ErrPipe,   \* messages that fit into the pipe of stderr
  Messages   \* bound on the messages a client writes to stderr

ASSUME SizesAssumption == {Chunks, Channel, Pipe, ErrPipe} \subseteq Nat \ {0}
ASSUME MessagesAssumption == Messages \in Nat

VARIABLES
  call,       \* what is run, and what it will meet
  task,       \* the executor: where it is, and what it has found so far
  thread,     \* the encoder or the decoder
  client,     \* the attached docker run
  channel,    \* chunks in the channel
  pipe,       \* chunks in the pipe between client and task
  writer,     \* the writing end of that pipe
  stderr,     \* messages in the pipe of stderr
  cancelled,  \* the token
  stuck       \* server or Docker do not answer any more

streams == <<channel, pipe, writer, stderr>>
vars == <<call, task, thread, client, streams, cancelled, stuck>>

Imports == {"restore", "push"}

Call == [op: Imports \cup {"dump", "statement"},
         intact: BOOLEAN,   \* the artifact is still the validated one
         swapped: BOOLEAN]  \* another server answers than the attested one

(* Steps at which the task moves the stream, at which it has not closed    *)
(* its end of the channel.                                                 *)
Moving == {"guarding", "streaming", "handing over", "closing"}

Task == [pc: Moving \cup {"called", "joining encoder", "waiting", "killing",
                          "removing", "draining", "joining decoder",
                          "returned"},
         copied: {"open", "done", "interrupted", "stopped", "failed"},
         late: BOOLEAN,     \* interrupted_while_waiting
         result: {"none", "ok", "not started", "interrupted", "encode",
                  "stopped", "read", "write", "decode", "refused",
                  "changed"}]

Thread == [state: {"none", "working", "ok", "failed", "stopped"},
           moved: 0..Chunks]  \* chunks it has encoded or decoded

Client == [state: {"none", "running", "ok", "failed", "killed"},
           done: 0..Chunks + 1,      \* chunks written, or statements executed
           cause: {"none", "identity", "other"},
           talking: BOOLEAN,         \* it is in a write to stderr
           messages: 0..Messages]    \* what it may still write there

TypeOK ==
  /\ call \in Call
  /\ task \in Task
  /\ thread \in Thread
  /\ client \in Client
  /\ channel \in 0..Channel
  /\ pipe \in 0..Pipe
  /\ writer \in {"open", "closed"}
  /\ stderr \in 0..ErrPipe
  /\ cancelled \in BOOLEAN
  /\ stuck \in BOOLEAN

Init ==
  /\ call \in {c \in Call : /\ ~c.intact => c.op \in Imports
                            /\ c.swapped => c.op = "push"}
  /\ task = [pc |-> "called", copied |-> "open", late |-> FALSE,
             result |-> "none"]
  /\ thread = [state |-> "none", moved |-> 0]
  /\ client = [state |-> "none", done |-> 0, cause |-> "none",
               talking |-> FALSE, messages |-> Messages]
  /\ channel = 0
  /\ pipe = 0
  /\ writer = "open"
  /\ stderr = 0
  /\ cancelled = FALSE
  /\ stuck = FALSE

-----------------------------------------------------------------------------
(* Starting, cancelling and ending a run.                                  *)

At(label) == task.pc = label

Goto(label) == task' = [task EXCEPT !.pc = label]

Dumps == call.op = "dump"

Loads == call.op \in Imports

(* The sessions of a push begin with the statement that checks @@server_uuid. *)
Statements == IF call.op = "push" THEN Chunks + 1 ELSE Chunks

Running == client.state = "running"

Ended == client.state \in {"ok", "failed", "killed"}

Return(result) ==
  task' = [task EXCEPT !.pc = "returned", !.result = result]

(* is_cancelled, the option file, and the spawn of docker run.             *)
Start ==
  /\ At("called")
  /\ \/ /\ cancelled
        /\ Return("interrupted")
        /\ UNCHANGED <<thread, client>>
     \/ /\ ~cancelled
        /\ Return("not started")
        /\ UNCHANGED <<thread, client>>
     \/ /\ ~cancelled
        /\ Goto(CASE call.op = "push"      -> "guarding"
                  [] call.op = "statement" -> "waiting"
                  [] OTHER                 -> "streaming")
        /\ client' = [client EXCEPT !.state = "running"]
        /\ thread' = IF call.op = "statement" THEN thread
                     ELSE [thread EXCEPT !.state = "working"]
  /\ UNCHANGED <<call, streams, cancelled, stuck>>

(* Ctrl+C: the token stays set.                                            *)
Cancel ==
  /\ ~cancelled
  /\ ~At("returned")
  /\ cancelled' = TRUE
  /\ UNCHANGED <<call, task, thread, client, streams, stuck>>

(* The task stops moving the stream. An import drops its receiver and      *)
(* stdin; the sender of a dump is dropped and its encoder awaited.         *)
EndCopy(copied) ==
  /\ task' = [task EXCEPT !.copied = copied,
                          !.pc = IF Dumps THEN "joining encoder"
                                 ELSE IF copied = "done" THEN "waiting"
                                 ELSE "killing"]
  /\ writer' = IF Loads THEN "closed" ELSE writer

(* Every select is biased: a set token is seen before anything else.       *)
Interrupted ==
  /\ cancelled
  /\ \/ At("streaming")
     \/ Loads /\ task.pc \in Moving
  /\ EndCopy("interrupted")
  /\ UNCHANGED <<call, thread, client, channel, pipe, stderr, cancelled, stuck>>

(* Mutant: the exit of the client is awaited come what may.                *)
Await_NotCancelled ==
  /\ At("waiting")
  /\ Ended
  /\ Goto("draining")
  /\ UNCHANGED <<call, thread, client, streams, cancelled, stuck>>

Await ==
  /\ At("waiting")
  /\ \/ cancelled /\ task' = [task EXCEPT !.pc = "killing", !.late = TRUE]
     \/ ~cancelled /\ Ended /\ Goto("draining")
  /\ UNCHANGED <<call, thread, client, streams, cancelled, stuck>>

(* terminate_and_wait: the attached docker run is killed and reaped.       *)
Kill ==
  /\ At("killing")
  /\ client' = IF Running THEN [client EXCEPT !.state = "killed"] ELSE client
  /\ Goto("removing")
  /\ UNCHANGED <<call, thread, streams, cancelled, stuck>>

(* docker rm --force: it may fail, and it is given ten seconds.            *)
Remove ==
  /\ At("removing")
  /\ Goto("draining")
  /\ UNCHANGED <<call, thread, client, streams, cancelled, stuck>>

-----------------------------------------------------------------------------
(* The task moves the stream: out of a dump client, into its encoder.      *)

ReadChunk ==
  /\ Dumps /\ At("streaming") /\ ~cancelled
  /\ pipe > 0
  /\ pipe' = pipe - 1
  /\ Goto("handing over")
  /\ UNCHANGED <<call, thread, client, channel, writer, stderr, cancelled, stuck>>

(* The end of stdout, or an error of reading it.                           *)
ReadEnds ==
  /\ Dumps /\ At("streaming") /\ ~cancelled
  /\ \/ pipe = 0 /\ writer = "closed" /\ EndCopy("done")
     \/ EndCopy("failed")
  /\ UNCHANGED <<call, thread, client, channel, pipe, stderr, cancelled, stuck>>

(* The one wait of a dump that the token does not end: for room, or for    *)
(* the encoder to stop.                                                    *)
SendChunk ==
  /\ Dumps /\ At("handing over")
  /\ \/ /\ thread.state = "working"
        /\ channel < Channel
        /\ channel' = channel + 1
        /\ Goto("streaming")
        /\ UNCHANGED writer
     \/ /\ thread.state # "working"
        /\ EndCopy("stopped")
        /\ UNCHANGED channel
  /\ UNCHANGED <<call, thread, client, pipe, stderr, cancelled, stuck>>

(* Mutant: an interrupted dump does not wait for its encoder.              *)
JoinEncoder_Detached ==
  /\ At("joining encoder")
  /\ thread.state # "working" \/ task.copied = "interrupted"
  /\ Goto(IF thread.state = "ok" /\ task.copied = "done"
          THEN "waiting" ELSE "killing")
  /\ UNCHANGED <<call, thread, client, streams, cancelled, stuck>>

JoinEncoder ==
  /\ At("joining encoder")
  /\ thread.state # "working"
  /\ Goto(IF thread.state = "ok" /\ task.copied = "done"
          THEN "waiting" ELSE "killing")
  /\ UNCHANGED <<call, thread, client, streams, cancelled, stuck>>

(* Out of the decoder, into the stdin of an import.                        *)
ReceiveChunk ==
  /\ Loads /\ At("streaming") /\ ~cancelled
  /\ \/ /\ channel > 0
        /\ channel' = channel - 1
        /\ Goto("handing over")
     \/ /\ channel = 0 /\ thread.state # "working"
        /\ Goto("closing")
        /\ UNCHANGED channel
  /\ UNCHANGED <<call, thread, client, pipe, writer, stderr, cancelled, stuck>>

(* The guard of a push, or a chunk; nobody reads the stdin of a client     *)
(* that has ended.                                                         *)
WriteChunk ==
  /\ Loads /\ task.pc \in {"guarding", "handing over"} /\ ~cancelled
  /\ \/ /\ Running
        /\ pipe < Pipe
        /\ pipe' = pipe + 1
        /\ Goto("streaming")
        /\ UNCHANGED writer
     \/ Ended /\ EndCopy("failed") /\ UNCHANGED pipe
  /\ UNCHANGED <<call, thread, client, channel, stderr, cancelled, stuck>>

CloseInput ==
  /\ At("closing") /\ ~cancelled
  /\ EndCopy("done")
  /\ UNCHANGED <<call, thread, client, channel, pipe, stderr, cancelled, stuck>>

-----------------------------------------------------------------------------
(* The blocking thread.                                                    *)

Stop(state) == thread' = [thread EXCEPT !.state = state]

SenderDropped == task.pc \notin {"streaming", "handing over"}

Encode ==
  /\ Dumps /\ thread.state = "working"
  /\ \/ /\ channel > 0
        /\ channel' = channel - 1
        /\ thread' = [thread EXCEPT !.moved = @ + 1]
     \/ /\ channel = 0 /\ SenderDropped
        /\ Stop("ok")
        /\ UNCHANGED channel
  /\ UNCHANGED <<call, task, client, pipe, writer, stderr, cancelled, stuck>>

(* A full disk, say.  What is left in the channel is dropped with it.      *)
EncodeFails ==
  /\ Dumps /\ thread.state = "working"
  /\ Stop("failed")
  /\ channel' = 0
  /\ UNCHANGED <<call, task, client, pipe, writer, stderr, cancelled, stuck>>

(* blocking_send waits for room, and fails once the receiver is gone.      *)
Decode ==
  /\ Loads /\ thread.state = "working"
  /\ \/ /\ thread.moved < Chunks /\ channel < Channel
        /\ task.pc \in Moving
        /\ channel' = channel + 1
        /\ thread' = [thread EXCEPT !.moved = @ + 1]
     \/ /\ thread.moved < Chunks
        /\ task.pc \notin Moving
        /\ Stop("stopped")
        /\ UNCHANGED channel
     \/ /\ thread.moved = Chunks
        /\ Stop("ok")
        /\ UNCHANGED channel
  /\ UNCHANGED <<call, task, client, pipe, writer, stderr, cancelled, stuck>>

DecodeFails ==
  /\ Loads /\ thread.state = "working"
  /\ Stop("failed")
  /\ UNCHANGED <<call, task, client, streams, cancelled, stuck>>

-----------------------------------------------------------------------------
(* The client, its diagnostics, and who drains them.                       *)

Active == Running /\ ~client.talking /\ ~stuck

(* mysqldump writes a chunk, or is done and closes its stdout.             *)
Produce ==
  /\ Dumps /\ Active /\ writer = "open"
  /\ \/ /\ client.done < Chunks /\ pipe < Pipe
        /\ pipe' = pipe + 1
        /\ client' = [client EXCEPT !.done = @ + 1]
        /\ UNCHANGED writer
     \/ /\ client.done = Chunks
        /\ writer' = "closed"
        /\ UNCHANGED <<pipe, client>>
  /\ UNCHANGED <<call, task, thread, channel, stderr, cancelled, stuck>>

(* mysql executes what it reads; the guard fails on another server.        *)
Execute ==
  /\ Loads /\ Active
  /\ pipe > 0
  /\ pipe' = pipe - 1
  /\ client' = IF call.swapped /\ client.done = 0
               THEN [client EXCEPT !.state = "failed", !.cause = "identity"]
               ELSE [client EXCEPT !.done = @ + 1]
  /\ UNCHANGED <<call, task, thread, channel, writer, stderr, cancelled, stuck>>

Exit ==
  /\ Active
  /\ Dumps => writer = "closed"
  /\ Loads => writer = "closed" /\ pipe = 0
  /\ client' = [client EXCEPT !.state = "ok"]
  /\ UNCHANGED <<call, task, thread, streams, cancelled, stuck>>

(* An error of the connection, the server, a statement or Docker; it ends  *)
(* stdout, wherever the dump was.                                          *)
ClientFails ==
  /\ Running
  /\ client' = [client EXCEPT !.state = "failed", !.cause = "other"]
  /\ writer' = IF Dumps THEN "closed" ELSE writer
  /\ UNCHANGED <<call, task, thread, channel, pipe, stderr, cancelled, stuck>>

Complain ==
  /\ Active
  /\ client.messages > 0
  /\ client' = [client EXCEPT !.talking = TRUE, !.messages = @ - 1]
  /\ UNCHANGED <<call, task, thread, streams, cancelled, stuck>>

WriteMessage ==
  /\ Running /\ client.talking
  /\ stderr < ErrPipe
  /\ stderr' = stderr + 1
  /\ client' = [client EXCEPT !.talking = FALSE]
  /\ UNCHANGED <<call, task, thread, channel, pipe, writer, cancelled, stuck>>

Hang ==
  /\ Running /\ ~stuck
  /\ stuck' = TRUE
  /\ UNCHANGED <<call, task, thread, client, streams, cancelled>>

(* Mutant: stderr is read when the client has ended.                       *)
DrainStderr_Late ==
  /\ Ended
  /\ stderr > 0
  /\ stderr' = stderr - 1
  /\ UNCHANGED <<call, task, thread, client, channel, pipe, writer, cancelled, stuck>>

(* read_bounded goes on reading past its limit.                            *)
DrainStderr ==
  /\ stderr > 0
  /\ stderr' = stderr - 1
  /\ UNCHANGED <<call, task, thread, client, channel, pipe, writer, cancelled, stuck>>

-----------------------------------------------------------------------------
(* What is returned, in the order in which the errors are looked at.       *)

(* Mutant: a stream that was read to its end is a dump.                    *)
DumpResult_NoStatus ==
  IF thread.state = "failed" THEN "encode"
  ELSE IF task.copied = "interrupted" \/ task.late THEN "interrupted"
  ELSE IF task.copied = "stopped" THEN "stopped"
  ELSE IF task.copied = "failed" THEN "read"
  ELSE "ok"

(* Mutant: the error of the task comes first.                              *)
DumpResult_TaskFirst ==
  IF task.copied = "stopped" THEN "stopped"
  ELSE IF thread.state = "failed" THEN "encode"
  ELSE IF task.copied = "interrupted" \/ task.late THEN "interrupted"
  ELSE IF task.copied = "failed" THEN "read"
  ELSE IF client.state # "ok" THEN "refused"
  ELSE "ok"

DumpResult ==
  IF thread.state = "failed" THEN "encode"
  ELSE IF task.copied = "interrupted" \/ task.late THEN "interrupted"
  ELSE IF task.copied = "stopped" THEN "stopped"
  ELSE IF task.copied = "failed" THEN "read"
  ELSE IF client.state # "ok" THEN "refused"
  ELSE "ok"

(* Mutant: a client that was done is a success, cancelled or not.          *)
ImportResult_LateIgnored ==
  IF task.copied = "interrupted" THEN "interrupted"
  ELSE IF task.copied = "failed" THEN "write"
  ELSE IF thread.state = "failed" THEN "decode"
  ELSE IF thread.state = "stopped" THEN "stopped"
  ELSE IF client.state # "ok" THEN "refused"
  ELSE IF ~call.intact THEN "changed"
  ELSE "ok"

(* Mutant: the error of the decoder comes first. *)
ImportResult_DecoderFirst ==
  IF task.copied = "interrupted" \/ task.late THEN "interrupted"
  ELSE IF thread.state = "failed" THEN "decode"
  ELSE IF thread.state = "stopped" THEN "stopped"
  ELSE IF task.copied = "failed" THEN "write"
  ELSE IF client.state # "ok" THEN "refused"
  ELSE IF ~call.intact THEN "changed"
  ELSE "ok"

ImportResult ==
  IF task.copied = "interrupted" \/ task.late THEN "interrupted"
  ELSE IF task.copied = "failed" THEN "write"
  ELSE IF thread.state = "failed" THEN "decode"
  ELSE IF thread.state = "stopped" THEN "stopped"
  ELSE IF client.state # "ok" THEN "refused"
  ELSE IF ~call.intact THEN "changed"
  ELSE "ok"

StatementResult ==
  IF task.late THEN "interrupted"
  ELSE IF client.state # "ok" THEN "refused"
  ELSE "ok"

(* The task that drains stderr ends when the client has closed it.         *)
JoinDrain ==
  /\ At("draining")
  /\ Ended /\ stderr = 0
  /\ CASE Dumps -> Return(DumpResult)
       [] Loads -> Goto("joining decoder")
       [] OTHER -> Return(StatementResult)
  /\ UNCHANGED <<call, thread, client, streams, cancelled, stuck>>

JoinDecoder ==
  /\ At("joining decoder")
  /\ thread.state # "working"
  /\ Return(ImportResult)
  /\ UNCHANGED <<call, thread, client, streams, cancelled, stuck>>

-----------------------------------------------------------------------------
TaskStep ==
  \/ Start \/ Interrupted
  \/ ReadChunk \/ ReadEnds \/ SendChunk \/ JoinEncoder
  \/ ReceiveChunk \/ WriteChunk \/ CloseInput
  \/ Await \/ Kill \/ Remove \/ JoinDrain \/ JoinDecoder

ThreadStep == Encode \/ Decode

ClientStep == Produce \/ Execute \/ Exit \/ WriteMessage

Finished == At("returned") /\ UNCHANGED vars

Next ==
  \/ TaskStep \/ ThreadStep \/ ClientStep \/ DrainStderr
  \/ Cancel \/ EncodeFails \/ DecodeFails
  \/ ClientFails \/ Complain \/ Hang
  \/ Finished

Spec == Init /\ [][Next]_vars

(* Tasks and threads are scheduled, the disk answers, and a client that is *)
(* not stuck goes on.                                                      *)
Fairness ==
  /\ WF_vars(TaskStep) /\ WF_vars(ThreadStep)
  /\ WF_vars(ClientStep) /\ WF_vars(DrainStderr)

FairSpec == Spec /\ Fairness

-----------------------------------------------------------------------------
(* Properties.                                                             *)

(* Success means the whole stream: the client wrote it all, or executed    *)
(* all of it in a session with the attested server, and exited well, and   *)
(* the thread has encoded or decoded every chunk of the validated SQL.  A  *)
(* client that dies also ends its stream, which looks like the end of a    *)
(* dump (dump_executor.rs), and one that is gone may have read everything  *)
(* it was sent (StreamedImport).                                           *)
SuccessIsWhole ==
  task.result = "ok" /\ call.op # "statement" =>
    /\ client.state = "ok" /\ thread.state = "ok" /\ thread.moved = Chunks
    /\ client.done = Statements
    /\ call.intact /\ ~call.swapped

(* When the executor returns, its caller removes or publishes the staging, *)
(* deletes the option file and drops the locks: no thread still writes the *)
(* dump or reads the artifact, and the attached client is gone.            *)
NothingRunsOn ==
  At("returned") => thread.state # "working" /\ ~Running

(* A full disk is reported as such (docs/compression.md), although the     *)
(* task finds the channel closed first, or has been interrupted.           *)
EncoderErrorSurvives ==
  Dumps /\ At("returned") /\ thread.state = "failed" =>
    task.result = "encode"

(* The chunk that the task holds, and the guard of a push once it is past. *)
Held == IF At("handing over") THEN 1 ELSE 0

Guard == IF call.op = "push" /\ task.pc \notin {"called", "guarding"} THEN 1 ELSE 0

(* A run whose client was never started has moved nothing.                 *)
Unstarted ==
  client.state = "none" =>
    /\ task.pc \in {"called", "returned"} /\ task.copied = "open"
    /\ task.result \in {"none", "not started", "interrupted"}
    /\ thread = [state |-> "none", moved |-> 0]
    /\ client.done = 0 /\ channel = 0 /\ pipe = 0 /\ writer = "open"

(* Where the task of a run can be, and what it has seen the end of.        *)
Started ==
  client.state # "none" =>
    /\ task.pc # "called"
    /\ thread.state = "none" <=> call.op = "statement"
    /\ task.copied = "open" <=> task.pc \in Moving \/ call.op = "statement"
    /\ task.pc = "guarding" => call.op = "push"
    /\ task.pc \in {"closing", "joining decoder"} => Loads
    /\ task.pc \in Moving => Dumps \/ Loads
    /\ task.pc = "joining encoder" => Dumps
    /\ task.pc \in {"joining decoder", "returned"} => Ended
    /\ task.pc = "returned" => thread.state # "working"

(* No chunk of a dump is lost between client and encoder, unless the       *)
(* encoder fails.                                                          *)
DumpStream ==
  Dumps /\ client.state # "none" =>
    /\ thread.state # "stopped"
    /\ task.pc \in {"waiting", "killing", "removing", "draining", "returned"} =>
         thread.state # "working"
    /\ pipe + Held + channel + thread.moved <= client.done /\ client.done <= Chunks
    /\ thread.state # "failed" =>
         pipe + Held + channel + thread.moved = client.done
    /\ thread.state = "ok" => channel = 0 /\ SenderDropped
    /\ task.copied = "stopped" => thread.state = "failed"

(* The end of stdout is the end of a dump, or of its client.               *)
DumpEnds ==
  Dumps =>
    /\ task.copied = "done" => pipe = 0 /\ writer = "closed"
    /\ client.state = "ok" => writer = "closed"
    /\ writer = "closed" /\ client.state \in {"running", "ok"} => client.done = Chunks

(* Nor is one between decoder and client, while both are well; and no      *)
(* other server than the attested one executes anything.                   *)
ImportStream ==
  Loads /\ client.state # "none" =>
    /\ task.copied # "stopped"
    /\ client.done + pipe + Held + channel <= thread.moved + Guard
    /\ client.state \in {"running", "ok"} /\ task.copied \in {"open", "done"} =>
         client.done + pipe + Held + channel = thread.moved + Guard
    /\ thread.state = "ok" => thread.moved = Chunks
    /\ thread.state = "stopped" => task.pc \notin Moving
    /\ task.pc = "closing" \/ task.copied = "done" =>
         channel = 0 /\ thread.state # "working"
    /\ client.state = "ok" => pipe = 0
    /\ call.swapped => client.done = 0

(* The invariant the theorems of ClientRunProofs rest on.                  *)
InductiveInvariant ==
  /\ TypeOK
  /\ ~call.intact => Loads
  /\ call.swapped => call.op = "push"
  /\ task.result = "none" <=> ~At("returned")
  /\ Unstarted /\ Started
  /\ DumpStream /\ DumpEnds /\ ImportStream
  /\ SuccessIsWhole /\ NothingRunsOn /\ EncoderErrorSurvives

(* A token that is set before the exit of the client has been seen keeps   *)
(* the run from being a success, also when client and stream are done.     *)
CancelledIsNoSuccess ==
  [](cancelled /\ task.pc \in {"called", "waiting"} \cup Moving
       => [](task.result # "ok"))

(* Ctrl+C ends a run although server, client and Docker have stopped       *)
(* answering: what is left to wait for is the disk.                        *)
CancellationEnds == cancelled ~> At("returned")

(* Without anything stuck a run ends by itself: no pipe, channel or thread *)
(* waits for another for ever, whoever fails first.                        *)
RunEnds == <>(At("returned") \/ stuck)

(* A session that mysql has refused because the server is another one than *)
(* the attested one, while neither the user nor the decoder has stopped    *)
(* it, is returned as refused, or as a chunk that could not be written.    *)
(* The decoder, which finds its channel closed then, and a file that has   *)
(* changed do not hide it (stream_import, which joins all three first).    *)
RefusedBySwap ==
  /\ At("returned") /\ client.cause = "identity"
  /\ ~cancelled /\ thread.state # "failed"

RefusalSurvives ==
  RefusedBySwap =>
    task.result = IF task.copied = "failed" THEN "write" ELSE "refused"

(* docs/exit-codes.md: a push whose destination is another server than the *)
(* attested one by the time it writes ends with the code of a connection.  *)
(* Only the error that carries the classified stderr of mysql does so.  It *)
(* does not hold: the other one of RefusalSurvives has another code.       *)
SwappedServerReported == RefusedBySwap => task.result = "refused"
=============================================================================
