-------------------------- MODULE ClientRunProofs --------------------------
(***************************************************************************)
(* Theorems about ClientRun for streams, channels and pipes of any size:   *)
(* where each chunk is at any moment, that success means the whole stream, *)
(* that nothing runs on after a return, that the error of the encoder and  *)
(* a refusal are reported, and that a cancelled run is no success.         *)
(***************************************************************************)
EXTENDS ClientRun, TLAPS

LEMMA Sizes ==
  /\ Chunks \in Nat /\ Chunks > 0 /\ Channel \in Nat /\ Channel > 0
  /\ Pipe \in Nat /\ Pipe > 0 /\ ErrPipe \in Nat /\ ErrPipe > 0 /\ Messages \in Nat
  BY SizesAssumption, MessagesAssumption

(* The fields of the records, for what leaves them alone or changes one.   *)
LEMMA FieldTypes ==
  ASSUME TypeOK
  PROVE  /\ task.pc \in Moving \cup {"called", "joining encoder", "waiting", "killing",
                          "removing", "draining", "joining decoder", "returned"}
         /\ task.copied \in {"open", "done", "interrupted", "stopped", "failed"}
         /\ task.late \in BOOLEAN
         /\ task.result \in {"none", "ok", "not started", "interrupted", "encode",
                  "stopped", "read", "write", "decode", "refused", "changed"}
         /\ thread.state \in {"none", "working", "ok", "failed", "stopped"}
         /\ thread.moved \in Nat /\ thread.moved <= Chunks
         /\ client.state \in {"none", "running", "ok", "failed", "killed"}
         /\ client.done \in Nat /\ client.done <= Chunks + 1
         /\ client.cause \in {"none", "identity", "other"}
         /\ client.talking \in BOOLEAN 
         /\ client.messages \in Nat /\ client.messages <= Messages
         /\ channel \in Nat /\ channel <= Channel /\ pipe \in Nat /\ pipe <= Pipe
         /\ stderr \in Nat /\ stderr <= ErrPipe
         /\ writer \in {"open", "closed"} /\ cancelled \in BOOLEAN /\ stuck \in BOOLEAN
         /\ call.op \in {"restore", "push", "dump", "statement"}
         /\ call.intact \in BOOLEAN /\ call.swapped \in BOOLEAN
<1>1. /\ thread.moved \in 0..Chunks /\ client.done \in 0..Chunks + 1
      /\ client.messages \in 0..Messages
      /\ thread.state \in {"none", "working", "ok", "failed", "stopped"}
      /\ client.state \in {"none", "running", "ok", "failed", "killed"}
      /\ client.cause \in {"none", "identity", "other"}
      /\ client.talking \in BOOLEAN
  BY DEF TypeOK, Thread, Client
<1>2. /\ thread.moved \in Nat /\ thread.moved <= Chunks
      /\ client.done \in Nat /\ client.done <= Chunks + 1
      /\ client.messages \in Nat /\ client.messages <= Messages
  BY <1>1, Sizes
<1>3. /\ channel \in Nat /\ channel <= Channel /\ pipe \in Nat /\ pipe <= Pipe
      /\ stderr \in Nat /\ stderr <= ErrPipe
  BY Sizes DEF TypeOK
<1> QED
  BY <1>1, <1>2, <1>3 DEF TypeOK, Task, Call, Imports

LEMMA Counts ==
  ASSUME TypeOK
  PROVE  /\ channel \in Nat /\ channel <= Channel /\ pipe \in Nat /\ pipe <= Pipe
         /\ thread.moved \in Nat /\ thread.moved <= Chunks
         /\ client.done \in Nat /\ client.done <= Chunks + 1
  BY FieldTypes

LEMMA KeptTypes ==
  ASSUME TypeOK
  PROVE  /\ task \in Task /\ thread \in Thread /\ client \in Client
         /\ channel \in Nat /\ channel <= Channel /\ pipe \in Nat /\ pipe <= Pipe
         /\ writer \in {"open", "closed"} /\ stderr \in Nat /\ stderr <= ErrPipe
         /\ cancelled \in BOOLEAN /\ stuck \in BOOLEAN
  BY FieldTypes DEF TypeOK

LEMMA GotoFields ==
  ASSUME TypeOK, NEW label \in Moving \cup {"joining encoder", "waiting", "killing",
                          "removing", "draining", "joining decoder"}, Goto(label)
  PROVE  /\ task' \in Task /\ task'.pc = label /\ task'.copied = task.copied
         /\ task'.late = task.late /\ task'.result = task.result
  BY DEF TypeOK, Task, Goto

LEMMA ReturnFields ==
  ASSUME TypeOK, NEW result \in {"ok", "not started", "interrupted", "encode",
                  "stopped", "read", "write", "decode", "refused", "changed"},
         Return(result)
  PROVE  /\ task' \in Task /\ task'.pc = "returned" /\ task'.copied = task.copied
         /\ task'.late = task.late /\ task'.result = result
  BY DEF TypeOK, Task, Return

LEMMA EndCopyFields ==
  ASSUME TypeOK, NEW copied \in {"done", "interrupted", "stopped", "failed"}, EndCopy(copied)
  PROVE  /\ task' \in Task /\ task'.copied = copied
         /\ task'.pc = (IF Dumps THEN "joining encoder"
                        ELSE IF copied = "done" THEN "waiting" ELSE "killing")
         /\ task'.late = task.late /\ task'.result = task.result
         /\ writer' \in {"open", "closed"} /\ (~Loads => writer' = writer)
  BY DEF TypeOK, Task, EndCopy

(* The parts of the invariant, apart.                                      *)
LEMMA Parts ==
  ASSUME InductiveInvariant
  PROVE  /\ TypeOK /\ Unstarted /\ Started /\ DumpStream /\ DumpEnds /\ ImportStream
         /\ SuccessIsWhole /\ NothingRunsOn /\ EncoderErrorSurvives
         /\ ~call.intact => Loads
         /\ call.swapped => call.op = "push"
         /\ task.result = "none" <=> ~At("returned")
  BY DEF InductiveInvariant

(* What is known of a run that is under way, and of where its task is.     *)
LEMMA StartedFacts ==
  ASSUME Unstarted, Started, task.pc \notin {"called", "returned"}
  PROVE  /\ client.state # "none"
         /\ thread.state = "none" <=> call.op = "statement"
         /\ task.copied = "open" <=> task.pc \in Moving \/ call.op = "statement"
         /\ task.pc = "guarding" => call.op = "push"
         /\ task.pc \in {"closing", "joining decoder"} => Loads
         /\ task.pc \in Moving => Dumps \/ Loads
         /\ task.pc = "joining encoder" => Dumps
         /\ task.pc = "joining decoder" => Ended
  BY DEF Unstarted, Started

LEMMA DumpFacts ==
  ASSUME DumpStream, Dumps, client.state # "none"
  PROVE  /\ thread.state # "stopped"
         /\ task.pc \in {"waiting", "killing", "removing", "draining", "returned"} =>
              thread.state # "working"
         /\ pipe + Held + channel + thread.moved <= client.done /\ client.done <= Chunks
         /\ thread.state # "failed" =>
              pipe + Held + channel + thread.moved = client.done
         /\ thread.state = "ok" => channel = 0 /\ task.pc \notin {"streaming", "handing over"}
         /\ task.copied = "stopped" => thread.state = "failed"
  BY DEF DumpStream, SenderDropped

LEMMA ImportFacts ==
  ASSUME ImportStream, Loads, client.state # "none"
  PROVE  /\ task.copied # "stopped"
         /\ client.done + pipe + Held + channel <= thread.moved + Guard
         /\ client.state \in {"running", "ok"} /\ task.copied \in {"open", "done"} =>
              client.done + pipe + Held + channel = thread.moved + Guard
         /\ thread.state = "ok" => thread.moved = Chunks
         /\ thread.state = "stopped" => task.pc \notin Moving
         /\ task.pc = "closing" \/ task.copied = "done" =>
              channel = 0 /\ thread.state # "working"
         /\ client.state = "ok" => pipe = 0
         /\ call.swapped => client.done = 0
  BY DEF ImportStream

(* Putting the parts together: types, what an operation of the other kind  *)
(* says nothing of, and a run that has not returned.                       *)
LEMMA Typed ==
  ASSUME TypeOK, call' = call, task' \in Task, thread' \in Thread, client' \in Client,
         channel' \in Nat, channel' <= Channel, pipe' \in Nat, pipe' <= Pipe,
         writer' \in {"open", "closed"}, stderr' \in Nat, stderr' <= ErrPipe,
         cancelled' \in BOOLEAN, stuck' \in BOOLEAN
  PROVE  TypeOK'
<1>1. channel' \in 0..Channel /\ pipe' \in 0..Pipe /\ stderr' \in 0..ErrPipe
  BY Sizes
<1> QED
  BY <1>1 DEF TypeOK

LEMMA DumpOnly ==
  ASSUME Dumps, call' = call
  PROVE  ImportStream'
  BY DEF ImportStream, Dumps, Loads, Imports

LEMMA ImportOnly ==
  ASSUME Loads, call' = call
  PROVE  DumpStream' /\ DumpEnds'
  BY DEF DumpStream, DumpEnds, Dumps, Loads, Imports

LEMMA StatementOnly ==
  ASSUME call.op = "statement", call' = call
  PROVE  DumpStream' /\ DumpEnds' /\ ImportStream'
  BY DEF DumpStream, DumpEnds, ImportStream, Dumps, Loads, Imports

LEMMA Gathers ==
  ASSUME InductiveInvariant, call' = call, task.pc # "returned", task'.pc # "returned",
         task'.result = task.result,
         TypeOK', Unstarted', Started', DumpStream', DumpEnds', ImportStream'
  PROVE  InductiveInvariant'
<1>1. task'.result = "none"
  BY Parts DEF At
<1>2. (SuccessIsWhole /\ NothingRunsOn /\ EncoderErrorSurvives)'
  BY <1>1 DEF SuccessIsWhole, NothingRunsOn, EncoderErrorSurvives, At
<1>3. (~call.intact => Loads)' /\ (call.swapped => call.op = "push")'
  BY Parts DEF Loads
<1> QED
  BY <1>1, <1>2, <1>3 DEF InductiveInvariant, At

-----------------------------------------------------------------------------
(* Steps that move no chunk.                                               *)

(* The messages on stderr, the token, and a server that hangs.             *)
LEMMA AsideStep ==
  ASSUME InductiveInvariant, UNCHANGED <<call, task, thread, channel, pipe, writer>>,
         client' \in Client, client'.state = client.state, client'.done = client.done,
         stderr' \in Nat, stderr' <= ErrPipe, cancelled' \in BOOLEAN, stuck' \in BOOLEAN
  PROVE  InductiveInvariant'
<1>1. /\ call' = call /\ task' = task /\ thread' = thread /\ channel' = channel
      /\ pipe' = pipe /\ writer' = writer
  OBVIOUS
<1>2. TypeOK /\ Unstarted /\ Started /\ DumpStream /\ DumpEnds /\ ImportStream
  BY Parts
<1>3. TypeOK'
  BY <1>1, <1>2, Counts, Typed DEF TypeOK
<1>4. Held' = Held /\ Guard' = Guard /\ Dumps' = Dumps /\ Loads' = Loads
  BY <1>1 DEF Held, Guard, At, Dumps, Loads
<1>5. Unstarted' /\ Started'
  <2>1. client.state = "none" => writer' = "open"
    BY <1>1, <1>2 DEF Unstarted
  <2>2. Unstarted'
    BY <1>1, <1>2, <2>1 DEF Unstarted
  <2> QED
    BY <1>1, <1>2, <2>2 DEF Started, Dumps, Loads, Ended
<1>6. DumpStream'
  BY <1>1, <1>2, <1>4 DEF DumpStream, Dumps, SenderDropped
<1>7. DumpEnds'
  BY <1>1, <1>2 DEF DumpEnds, Dumps
<1>8. ImportStream'
  BY <1>1, <1>2, <1>4 DEF ImportStream, Loads
<1>9. SuccessIsWhole'
  BY <1>1, Parts DEF SuccessIsWhole, Statements
<1>10. NothingRunsOn' /\ EncoderErrorSurvives'
  BY <1>1, Parts DEF NothingRunsOn, EncoderErrorSurvives, At, Dumps, Running
<1> QED
  BY <1>1, <1>3, <1>5, <1>6, <1>7, <1>8, <1>9, <1>10, Parts
  DEF InductiveInvariant, At, Loads

(* The task goes on to wait for others when its stream has ended.          *)
LEMMA GoesOn ==
  ASSUME InductiveInvariant, UNCHANGED <<call, thread, channel, pipe, writer, stderr, stuck>>,
         cancelled' \in BOOLEAN,
         task.pc \in {"joining encoder", "waiting", "killing", "removing", "draining"},
         task' \in Task, task'.copied = task.copied, task'.result = task.result,
         task'.pc \in {"waiting", "killing", "removing", "draining", "joining decoder"},
         task.pc = "joining encoder" => thread.state # "working",
         task'.pc = "joining decoder" => Loads /\ Ended,
         client' \in Client, client'.done = client.done,
         client'.state = client.state \/ (client.state = "running" /\ client'.state = "killed")
  PROVE  InductiveInvariant'
<1>1. /\ call' = call /\ thread' = thread /\ channel' = channel /\ pipe' = pipe
      /\ writer' = writer /\ stderr' = stderr /\ stuck' = stuck
  OBVIOUS
<1>2. TypeOK /\ Unstarted /\ Started /\ DumpStream /\ DumpEnds /\ ImportStream
  BY Parts
<1>3. TypeOK'
  BY <1>1, <1>2, Counts, Typed DEF TypeOK
<1>4. Held = 0 /\ Held' = 0 /\ Guard' = Guard
  BY <1>1 DEF Held, Guard, At
<1>5. client.state # "none" /\ client'.state # "none"
  BY <1>2, StartedFacts
<1>6. Unstarted' /\ Started'
  BY <1>1, <1>2, <1>5 DEF Unstarted, Started, Moving, Dumps, Loads, Ended
<1>7. DumpStream'
  BY <1>1, <1>2, <1>4, <1>5, DumpFacts DEF DumpStream, Dumps, SenderDropped
<1>8. DumpEnds'
  <2>1. client'.state \in {"running", "ok"} => client.state = client'.state
    OBVIOUS
  <2> QED
    BY <1>1, <1>2, <2>1 DEF DumpEnds, Dumps
<1>9. ImportStream'
  BY <1>1, <1>2, <1>4, <1>5, ImportFacts DEF ImportStream, Loads, Moving
<1> QED
  BY <1>1, <1>3, <1>6, <1>7, <1>8, <1>9, Gathers

(* The task stops moving the stream, at its end or because of an error.    *)
MayEnd(copied) ==
  /\ Dumps /\ copied = "done" => pipe = 0 /\ writer = "closed"
  /\ Dumps /\ copied = "stopped" => thread.state = "failed"
  /\ Dumps /\ task.pc = "handing over" =>
       thread.state = "failed"
  /\ Loads => copied # "stopped"
  /\ Loads /\ copied = "done" =>
       task.pc = "closing" /\ channel = 0 /\ thread.state # "working"

LEMMA EndsCopy ==
  ASSUME InductiveInvariant, UNCHANGED <<call, thread, client, channel, pipe, stderr,
                                         cancelled, stuck>>,
         NEW copied \in {"done", "interrupted", "stopped", "failed"}, EndCopy(copied),
         task.pc \in Moving, MayEnd(copied)
  PROVE  InductiveInvariant'
<1>1. /\ call' = call /\ thread' = thread /\ client' = client /\ channel' = channel
      /\ pipe' = pipe /\ stderr' = stderr /\ cancelled' = cancelled /\ stuck' = stuck
  OBVIOUS
<1>2. TypeOK /\ Unstarted /\ Started /\ DumpStream /\ DumpEnds /\ ImportStream
  BY Parts
<1>3. /\ task' \in Task /\ task'.copied = copied /\ task'.result = task.result
      /\ task'.pc = (IF Dumps THEN "joining encoder"
                     ELSE IF copied = "done" THEN "waiting" ELSE "killing")
      /\ writer' \in {"open", "closed"} /\ (~Loads => writer' = writer)
  BY <1>2, EndCopyFields
<1>4. TypeOK'
  BY <1>1, <1>2, <1>3, Counts, Typed DEF TypeOK
<1>5. task'.pc \in {"joining encoder", "waiting", "killing"} /\ task.pc \notin {"called", "returned"}
  BY <1>3 DEF Moving
<1>6. client.state # "none" /\ call.op # "statement" /\ (Dumps \/ Loads)
  BY <1>2, <1>5, StartedFacts DEF Dumps, Loads, Imports
<1>7. Unstarted' /\ Started'
  <2>1. Unstarted'
    BY <1>1, <1>6 DEF Unstarted
  <2>2. task'.copied # "open" /\ task'.pc \notin Moving
    BY <1>3, <1>5 DEF Moving
  <2>3. task'.pc = "joining encoder" => Dumps
    BY <1>3
  <2> QED
    BY <1>1, <1>2, <1>5, <1>6, <2>1, <2>2, <2>3 DEF Started, Dumps
<1>8. /\ Held' = 0 /\ Held \in Nat /\ Guard \in Nat /\ Guard' \in Nat
      /\ Guard' = Guard \/ Guard' = Guard + 1
  <2>1. Held' = 0
    BY <1>5 DEF Held, At
  <2>2. Held \in Nat /\ Guard \in Nat /\ Guard' \in Nat
    BY DEF Held, Guard
  <2>3. task.pc # "guarding" => Guard' = Guard
    BY <1>1, <1>5 DEF Guard
  <2>4. task.pc = "guarding" => Guard' = Guard + 1 \/ Guard' = Guard
    BY DEF Guard
  <2> QED
    BY <2>1, <2>2, <2>3, <2>4
<1>9. /\ channel \in Nat /\ pipe \in Nat /\ thread.moved \in Nat /\ client.done \in Nat
  BY <1>2, Counts
<1>10. CASE Dumps
  <2>1. task.pc = "handing over" => thread.state = "failed"
    BY <1>10 DEF MayEnd
  <2>2. copied = "stopped" => thread.state = "failed"
    BY <1>10 DEF MayEnd
  <2>3. copied = "done" => pipe = 0
    BY <1>10 DEF MayEnd
  <2>4. copied = "done" => writer = "closed"
    BY <1>10 DEF MayEnd
  <2>5. /\ task'.pc = "joining encoder" /\ writer' = writer
    BY <1>3, <1>10 DEF Dumps, Loads, Imports
  <2>6. client'.done <= Chunks
    BY <1>1, <1>2, <1>6, <1>10, DumpFacts
  <2>7. pipe' + Held' + channel' + thread'.moved <= client'.done
    <3>1. pipe + Held + channel + thread.moved <= client.done
      BY <1>2, <1>6, <1>10, DumpFacts
    <3>2. Held' = 0 /\ Held \in Nat
      BY <1>8
    <3> QED
      BY <1>1, <1>9, <3>1, <3>2
  <2>8. thread'.state # "failed" => pipe' + Held' + channel' + thread'.moved = client'.done
    <3> SUFFICES ASSUME thread.state # "failed"
                 PROVE  pipe' + Held' + channel' + thread'.moved = client'.done
      BY <1>1
    <3>1. pipe + Held + channel + thread.moved = client.done
      BY <1>2, <1>6, <1>10, DumpFacts
    <3>2. Held = 0
      BY <2>1 DEF Held, At
    <3> QED
      BY <1>1, <1>8, <1>9, <3>1, <3>2
  <2>9. /\ thread'.state # "stopped" /\ (thread'.state = "ok" => channel' = 0)
        /\ copied = "stopped" => thread'.state = "failed"
    BY <1>1, <1>2, <1>6, <1>10, <2>2, DumpFacts
  <2>10. DumpStream'
    BY <1>3, <2>6, <2>5, <2>7, <2>8, <2>9 DEF DumpStream, SenderDropped
  <2>11. DumpEnds'
    <3>1. (task.copied = "done" => pipe = 0 /\ writer = "closed")'
      BY <1>1, <1>3, <2>5, <2>3, <2>4
    <3>2. /\ client'.state = "ok" => writer' = "closed"
          /\ writer' = "closed" /\ client'.state \in {"running", "ok"} =>
               client'.done = Chunks
      BY <1>1, <1>2, <1>10, <2>5 DEF DumpEnds
    <3> QED
      BY <3>1, <3>2 DEF DumpEnds
  <2> QED
    BY <1>1, <1>3, <1>4, <1>5, <1>7, <1>10, <2>10, <2>11, DumpOnly, Gathers
<1>11. CASE Loads
  <2>1. copied # "stopped"
    BY <1>11 DEF MayEnd
  <2>2. copied = "done" => task.pc = "closing"
    BY <1>11 DEF MayEnd
  <2>3. copied = "done" => channel = 0
    BY <1>11 DEF MayEnd
  <2>4. copied = "done" => thread.state # "working"
    BY <1>11 DEF MayEnd
  <2>5. client'.done + pipe' + Held' + channel' <= thread'.moved + Guard'
    <3>1. client.done + pipe + Held + channel <= thread.moved + Guard
      BY <1>2, <1>6, <1>11, ImportFacts
    <3>2. Held' = 0 /\ Held \in Nat /\ Guard \in Nat /\ Guard' \in Nat
      BY <1>8
    <3>3. Guard <= Guard'
      BY <1>8
    <3> QED
      BY <1>1, <1>9, <3>1, <3>2, <3>3
  <2>6. client'.state \in {"running", "ok"} /\ copied = "done" =>
          client'.done + pipe' + Held' + channel' = thread'.moved + Guard'
    <3> SUFFICES ASSUME client.state \in {"running", "ok"}, copied = "done"
                 PROVE  client'.done + pipe' + Held' + channel' = thread'.moved + Guard'
      BY <1>1
    <3>1. task.pc = "closing" /\ task.copied = "open"
      BY <1>2, <1>5, <2>2, StartedFacts DEF Moving
    <3>2. client.done + pipe + Held + channel = thread.moved + Guard
      BY <1>2, <1>6, <1>11, <3>1, ImportFacts
    <3>3. Held = 0
      BY <3>1 DEF Held, At
    <3>4. Guard' = Guard
      BY <1>1, <1>5, <3>1 DEF Guard
    <3> QED
      BY <1>1, <1>8, <1>9, <3>2, <3>3, <3>4
  <2>7. /\ thread'.state = "ok" => thread'.moved = Chunks
        /\ client'.state = "ok" => pipe' = 0
        /\ call'.swapped => client'.done = 0
    BY <1>1, <1>2, <1>6, <1>11, ImportFacts
  <2>8. (task.pc = "closing" \/ task.copied = "done" =>
           channel = 0 /\ thread.state # "working")'
    BY <1>1, <1>3, <1>5, <2>3, <2>4
  <2>9. task'.pc \notin Moving
    BY <1>5 DEF Moving
  <2>10. ImportStream'
    BY <1>3, <2>1, <2>5, <2>6, <2>7, <2>8, <2>9 DEF ImportStream
  <2> QED
    BY <1>1, <1>3, <1>4, <1>5, <1>7, <1>11, <2>10, ImportOnly, Gathers
<1> QED
  BY <1>6, <1>10, <1>11

LEMMA InterruptedStep ==
  ASSUME InductiveInvariant, Interrupted
  PROVE  InductiveInvariant'
<1>1. /\ UNCHANGED <<call, thread, client, channel, pipe, stderr, cancelled, stuck>>
      /\ EndCopy("interrupted")
      /\ task.pc = "streaming" \/ (Loads /\ task.pc \in Moving)
  BY DEF Interrupted, At
<1>2. task.pc \in Moving
  BY <1>1 DEF Moving
<1>3. MayEnd("interrupted")
  BY <1>1 DEF MayEnd, Dumps, Loads, Imports
<1> QED
  BY <1>1, <1>2, <1>3, EndsCopy

LEMMA ReadEndsStep ==
  ASSUME InductiveInvariant, ReadEnds
  PROVE  InductiveInvariant'
<1>1. /\ UNCHANGED <<call, thread, client, channel, pipe, stderr, cancelled, stuck>>
      /\ Dumps /\ task.pc = "streaming" /\ ~Loads
  BY DEF ReadEnds, At, Dumps, Loads, Imports
<1>2. task.pc \in Moving
  BY <1>1 DEF Moving
<1>3. CASE pipe = 0 /\ writer = "closed" /\ EndCopy("done")
  <2>1. MayEnd("done")
    BY <1>1, <1>3 DEF MayEnd
  <2> QED
    BY <1>1, <1>2, <1>3, <2>1, EndsCopy
<1>4. CASE EndCopy("failed")
  <2>1. MayEnd("failed")
    BY <1>1 DEF MayEnd
  <2> QED
    BY <1>1, <1>2, <1>4, <2>1, EndsCopy
<1> QED
  BY <1>3, <1>4 DEF ReadEnds

LEMMA CloseInputStep ==
  ASSUME InductiveInvariant, CloseInput
  PROVE  InductiveInvariant'
<1>1. /\ UNCHANGED <<call, thread, client, channel, pipe, stderr, cancelled, stuck>>
      /\ task.pc = "closing" /\ EndCopy("done")
  BY DEF CloseInput, At
<1>2. Unstarted /\ Started /\ ImportStream
  BY Parts
<1>3. Loads /\ ~Dumps /\ client.state # "none"
  BY <1>1, <1>2, StartedFacts DEF Dumps, Loads, Imports
<1>4. channel = 0 /\ thread.state # "working"
  BY <1>1, <1>2, <1>3, ImportFacts
<1>5. MayEnd("done")
  BY <1>1, <1>3, <1>4 DEF MayEnd
<1>6. task.pc \in Moving
  BY <1>1 DEF Moving
<1> QED
  BY <1>1, <1>5, <1>6, EndsCopy

LEMMA StartStep ==
  ASSUME InductiveInvariant, Start
  PROVE  InductiveInvariant'
<1>1. /\ TypeOK /\ Unstarted /\ Started
      /\ ~call.intact => Loads
      /\ call.swapped => call.op = "push"
  BY Parts
<1>2. /\ task.pc = "called" /\ call' = call /\ channel' = channel /\ pipe' = pipe
      /\ writer' = writer /\ stderr' = stderr /\ cancelled' = cancelled /\ stuck' = stuck
  BY DEF Start, At, streams
<1>3. client.state = "none"
  BY <1>1, <1>2 DEF Started
<1>4. /\ task.copied = "open"
      /\ thread.state = "none" /\ thread.moved = 0
      /\ client.done = 0 /\ channel = 0 /\ pipe = 0 /\ writer = "open"
  <2>1. thread = [state |-> "none", moved |-> 0] /\ task.copied = "open"
    BY <1>1, <1>3 DEF Unstarted
  <2>2. client.done = 0 /\ channel = 0 /\ pipe = 0
    BY <1>1, <1>3 DEF Unstarted
  <2>3. writer = "open"
    BY <1>1, <1>3 DEF Unstarted
  <2> QED
    BY <2>1, <2>2, <2>3
<1>5. (~call.intact => Loads)' /\ (call.swapped => call.op = "push")'
  BY <1>1, <1>2 DEF Loads
<1>6. CASE /\ \E result \in {"interrupted", "not started"} : Return(result)
           /\ UNCHANGED <<thread, client>>
  <2>1. PICK result \in {"interrupted", "not started"} : Return(result)
    BY <1>6
  <2>2. /\ task' \in Task /\ task'.pc = "returned" /\ task'.copied = "open"
        /\ task'.result = result
    BY <1>1, <1>4, <2>1, ReturnFields
  <2>3. thread' = thread /\ client' = client
    BY <1>6
  <2>4. TypeOK'
    BY <1>1, <1>2, <2>2, <2>3, Counts, Typed DEF TypeOK
  <2>5. Unstarted' /\ Started'
    BY <1>1, <1>2, <1>3, <2>2, <2>3 DEF Unstarted, Started
  <2>6. DumpStream' /\ ImportStream'
    BY <1>3, <2>3 DEF DumpStream, ImportStream
  <2>7. DumpEnds'
    BY <1>2, <1>3, <1>4, <2>2, <2>3 DEF DumpEnds
  <2>8. (SuccessIsWhole /\ NothingRunsOn /\ EncoderErrorSurvives)'
    BY <1>3, <1>4, <2>2, <2>3 DEF SuccessIsWhole, NothingRunsOn, EncoderErrorSurvives, Running
  <2> QED
    BY <1>5, <2>2, <2>4, <2>5, <2>6, <2>7, <2>8 DEF InductiveInvariant, At
<1>7. CASE /\ Goto(CASE call.op = "push"      -> "guarding"
                     [] call.op = "statement" -> "waiting"
                     [] OTHER                 -> "streaming")
           /\ client' = [client EXCEPT !.state = "running"]
           /\ thread' = IF call.op = "statement" THEN thread
                        ELSE [thread EXCEPT !.state = "working"]
  <2>1. /\ task' \in Task /\ task'.copied = "open" /\ task'.result = task.result
        /\ task'.pc = (CASE call.op = "push"      -> "guarding"
                         [] call.op = "statement" -> "waiting"
                         [] OTHER                 -> "streaming")
    BY <1>1, <1>4, <1>7, GotoFields DEF Moving
  <2>2. client' \in Client /\ client'.state = "running" /\ client'.done = 0
    BY <1>1, <1>4, <1>7 DEF TypeOK, Client
  <2>3. /\ thread' \in Thread /\ thread'.moved = 0
        /\ thread'.state = (IF call.op = "statement" THEN "none" ELSE "working")
    BY <1>1, <1>4, <1>7 DEF TypeOK, Thread
  <2>4. TypeOK'
    BY <1>1, <1>2, <2>1, <2>2, <2>3, Counts, Typed DEF TypeOK
  <2>5. task'.pc \in {"guarding", "waiting", "streaming"}
    BY <2>1
  <2>6. call.op \in {"restore", "push", "dump", "statement"}
    BY <1>1, FieldTypes
  <2>7. Unstarted' /\ Started'
    BY <1>2, <2>1, <2>2, <2>3, <2>5, <2>6
    DEF Unstarted, Started, Moving, Dumps, Loads, Imports
  <2>8. Held' = 0 /\ Guard' = 0
    BY <1>2, <2>1, <2>5 DEF Held, Guard, At
  <2>9. DumpEnds'
    BY <1>2, <1>4, <2>1, <2>2 DEF DumpEnds
  <2>10. DumpStream'
    <3>1. /\ pipe' + Held' + channel' + thread'.moved <= client'.done
          /\ client'.done <= Chunks
          /\ pipe' + Held' + channel' + thread'.moved = client'.done
      BY <1>2, <1>4, <2>2, <2>3, <2>8, Sizes
    <3>2. /\ thread'.state \in {"none", "working"} /\ task'.copied = "open"
          /\ task'.pc \notin {"killing", "removing", "draining", "returned"}
      BY <2>1, <2>3, <2>5
    <3>3. Dumps' => task'.pc # "waiting"
      BY <1>2, <2>1 DEF Dumps
    <3> QED
      BY <3>1, <3>2, <3>3 DEF DumpStream
  <2>11. ImportStream'
    <3>1. /\ client'.done + pipe' + Held' + channel' <= thread'.moved + Guard'
          /\ client'.done + pipe' + Held' + channel' = thread'.moved + Guard'
      BY <1>2, <1>4, <2>2, <2>3, <2>8
    <3>2. /\ thread'.state \in {"none", "working"} /\ task'.copied = "open"
          /\ task'.pc # "closing" /\ client'.done = 0 /\ client'.state = "running"
      BY <2>1, <2>2, <2>3, <2>5
    <3> QED
      BY <3>1, <3>2 DEF ImportStream
  <2> QED
    BY <1>2, <2>1, <2>4, <2>5, <2>7, <2>9, <2>10, <2>11, Gathers
<1> QED
  BY <1>6, <1>7 DEF Start

LEMMA JoinEncoderStep ==
  ASSUME InductiveInvariant, JoinEncoder
  PROVE  InductiveInvariant'
<1>1. /\ task.pc = "joining encoder" /\ thread.state # "working"
      /\ call' = call /\ thread' = thread /\ client' = client /\ channel' = channel
      /\ pipe' = pipe /\ writer' = writer /\ stderr' = stderr
      /\ cancelled' = cancelled /\ stuck' = stuck
  BY DEF JoinEncoder, At, streams
<1>2. PICK label \in {"waiting", "killing"} : Goto(label)
  BY DEF JoinEncoder
<1>3. TypeOK
  BY Parts
<1>4. /\ task' \in Task /\ task'.pc \in {"waiting", "killing"}
      /\ task'.copied = task.copied /\ task'.result = task.result
  BY <1>2, <1>3, GotoFields
<1>5. client \in Client /\ cancelled \in BOOLEAN
  BY <1>3 DEF TypeOK
<1> QED
  BY <1>1, <1>4, <1>5, GoesOn

LEMMA AwaitStep ==
  ASSUME InductiveInvariant, Await
  PROVE  InductiveInvariant'
<1>1. /\ task.pc = "waiting"
      /\ call' = call /\ thread' = thread /\ client' = client /\ channel' = channel
      /\ pipe' = pipe /\ writer' = writer /\ stderr' = stderr
      /\ cancelled' = cancelled /\ stuck' = stuck
  BY DEF Await, At, streams
<1>2. TypeOK
  BY Parts
<1>3. /\ task' \in Task /\ task'.pc \in {"killing", "draining"}
      /\ task'.copied = task.copied /\ task'.result = task.result
  <2>1. CASE task' = [task EXCEPT !.pc = "killing", !.late = TRUE]
    BY <1>2, <2>1 DEF TypeOK, Task
  <2>2. CASE Goto("draining")
    BY <1>2, <2>2, GotoFields
  <2> QED
    BY <2>1, <2>2 DEF Await
<1>4. client \in Client /\ cancelled \in BOOLEAN
  BY <1>2 DEF TypeOK
<1> QED
  BY <1>1, <1>3, <1>4, GoesOn

LEMMA KillStep ==
  ASSUME InductiveInvariant, Kill
  PROVE  InductiveInvariant'
<1>1. /\ task.pc = "killing"
      /\ call' = call /\ thread' = thread /\ channel' = channel
      /\ pipe' = pipe /\ writer' = writer /\ stderr' = stderr
      /\ cancelled' = cancelled /\ stuck' = stuck
      /\ client' = (IF Running THEN [client EXCEPT !.state = "killed"] ELSE client)
  BY DEF Kill, At, streams
<1>2. TypeOK
  BY Parts
<1>3. /\ task' \in Task /\ task'.pc = "removing"
      /\ task'.copied = task.copied /\ task'.result = task.result
  BY <1>2, GotoFields DEF Kill
<1>4. /\ client' \in Client /\ client'.done = client.done
      /\ client'.state = client.state \/ (client.state = "running" /\ client'.state = "killed")
  BY <1>1, <1>2 DEF TypeOK, Client, Running
<1>5. cancelled \in BOOLEAN
  BY <1>2 DEF TypeOK
<1> QED
  BY <1>1, <1>3, <1>4, <1>5, GoesOn

LEMMA RemoveStep ==
  ASSUME InductiveInvariant, Remove
  PROVE  InductiveInvariant'
<1>1. /\ task.pc = "removing"
      /\ call' = call /\ thread' = thread /\ client' = client /\ channel' = channel
      /\ pipe' = pipe /\ writer' = writer /\ stderr' = stderr
      /\ cancelled' = cancelled /\ stuck' = stuck
  BY DEF Remove, At, streams
<1>2. TypeOK
  BY Parts
<1>3. /\ task' \in Task /\ task'.pc = "draining"
      /\ task'.copied = task.copied /\ task'.result = task.result
  BY <1>2, GotoFields DEF Remove
<1>4. client \in Client /\ cancelled \in BOOLEAN
  BY <1>2 DEF TypeOK
<1> QED
  BY <1>1, <1>3, <1>4, GoesOn

-----------------------------------------------------------------------------
(* Steps that return.                                                      *)

(* Once client and thread have ended, only the result is left to check.    *)
LEMMA Returns ==
  ASSUME InductiveInvariant, UNCHANGED <<call, thread, client, channel, pipe, writer, stderr,
                                         cancelled, stuck>>,
         task.pc \in {"draining", "joining decoder"}, Ended, thread.state # "working",
         task' \in Task, task'.pc = "returned", task'.copied = task.copied,
         task'.result # "none", SuccessIsWhole', EncoderErrorSurvives'
  PROVE  InductiveInvariant'
<1>1. /\ call' = call /\ thread' = thread /\ client' = client /\ channel' = channel
      /\ pipe' = pipe /\ writer' = writer /\ stderr' = stderr
      /\ cancelled' = cancelled /\ stuck' = stuck
  OBVIOUS
<1>2. /\ TypeOK /\ Unstarted /\ Started /\ DumpStream /\ DumpEnds /\ ImportStream
      /\ ~call.intact => Loads
      /\ call.swapped => call.op = "push"
  BY Parts
<1>3. TypeOK'
  BY <1>1, <1>2, Counts, Typed DEF TypeOK
<1>4. Held = 0 /\ Held' = 0 /\ Guard' = Guard
  BY <1>1 DEF Held, Guard, At
<1>5. client.state # "none"
  BY <1>2, StartedFacts
<1>6. Unstarted' /\ Started'
  BY <1>1, <1>2, <1>5 DEF Unstarted, Started, Moving, Dumps, Loads, Ended
<1>7. DumpStream'
  BY <1>1, <1>2, <1>4, <1>5, DumpFacts DEF DumpStream, Dumps, SenderDropped
<1>8. DumpEnds'
  BY <1>1, <1>2 DEF DumpEnds, Dumps
<1>9. ImportStream'
  BY <1>1, <1>2, <1>4, <1>5, ImportFacts DEF ImportStream, Loads, Moving
<1>10. NothingRunsOn'
  BY <1>1 DEF NothingRunsOn, Running, Ended
<1> QED
  BY <1>1, <1>2, <1>3, <1>6, <1>7, <1>8, <1>9, <1>10 DEF InductiveInvariant, At, Loads

(* A dump whose client and encoder are well has encoded all of it.         *)
LEMMA DumpReturns ==
  ASSUME InductiveInvariant, Dumps, At("draining"), Ended, Return(DumpResult),
         UNCHANGED <<call, thread, client, streams, cancelled, stuck>>
  PROVE  InductiveInvariant'
<1>1. /\ call' = call /\ thread' = thread /\ client' = client /\ channel' = channel
      /\ pipe' = pipe /\ writer' = writer /\ stderr' = stderr
      /\ cancelled' = cancelled /\ stuck' = stuck /\ task.pc = "draining"
  BY DEF streams, At
<1>2. /\ TypeOK /\ Unstarted /\ Started /\ DumpStream /\ DumpEnds
      /\ ~call.intact => Loads
      /\ call.swapped => call.op = "push"
  BY Parts
<1>3. DumpResult \in {"encode", "interrupted", "stopped", "read", "refused", "ok"}
  BY DEF DumpResult
<1>4. /\ task' \in Task /\ task'.pc = "returned" /\ task'.copied = task.copied
      /\ task'.result = DumpResult
  BY <1>2, <1>3, ReturnFields
<1>5. client.state # "none" /\ ~Loads
  BY <1>1, <1>2, StartedFacts DEF Dumps, Loads, Imports
<1>6. thread.state # "working"
  BY <1>1, <1>2, <1>5, DumpFacts
<1>7. SuccessIsWhole'
  <2> SUFFICES ASSUME DumpResult = "ok"
               PROVE  /\ client.state = "ok" /\ thread.state = "ok" /\ thread.moved = Chunks
                      /\ client.done = Chunks
                      /\ call.intact /\ ~call.swapped
    BY <1>1, <1>4 DEF SuccessIsWhole, Dumps, Statements
  <2>1. /\ thread.state # "failed" /\ task.copied \notin {"interrupted", "stopped", "failed"}
        /\ client.state = "ok"
    BY DEF DumpResult
  <2>2. task.copied = "done"
    <3>1. task.copied # "open"
      BY <1>1, <1>2, StartedFacts DEF Moving, Dumps
    <3> QED
      BY <1>2, <2>1, <3>1, FieldTypes
  <2>3. thread.state = "ok"
    <3>1. thread.state # "none" /\ thread.state # "stopped"
      BY <1>1, <1>2, <1>5, StartedFacts, DumpFacts DEF Dumps
    <3> QED
      BY <1>2, <1>6, <2>1, <3>1, FieldTypes
  <2>4. client.done = Chunks
    BY <1>2, <2>1 DEF DumpEnds
  <2>5. pipe = 0
    BY <1>2, <2>2 DEF DumpEnds
  <2>6. channel = 0
    BY <1>2, <1>5, <2>3, DumpFacts
  <2>7. Held = 0
    BY <1>1 DEF Held, At
  <2>8. pipe + Held + channel + thread.moved = client.done
    BY <1>2, <1>5, <2>1, DumpFacts
  <2>9. thread.moved = Chunks
    BY <1>2, <2>4, <2>5, <2>6, <2>7, <2>8, Counts
  <2> QED
    BY <1>2, <1>5, <2>1, <2>3, <2>4, <2>9 DEF Dumps
<1>8. EncoderErrorSurvives'
  BY <1>1, <1>4 DEF EncoderErrorSurvives, DumpResult
<1> QED
  BY <1>1, <1>3, <1>4, <1>6, <1>7, <1>8, Returns

(* A statement moves nothing.                                              *)
LEMMA StatementReturns ==
  ASSUME InductiveInvariant, ~Dumps, ~Loads, At("draining"), Ended, Return(StatementResult),
         UNCHANGED <<call, thread, client, streams, cancelled, stuck>>
  PROVE  InductiveInvariant'
<1>1. /\ call' = call /\ thread' = thread /\ client' = client /\ channel' = channel
      /\ pipe' = pipe /\ writer' = writer /\ stderr' = stderr
      /\ cancelled' = cancelled /\ stuck' = stuck /\ task.pc = "draining"
  BY DEF streams, At
<1>2. TypeOK /\ Unstarted /\ Started
  BY Parts
<1>3. StatementResult \in {"interrupted", "refused", "ok"}
  BY DEF StatementResult
<1>4. /\ task' \in Task /\ task'.pc = "returned" /\ task'.copied = task.copied
      /\ task'.result = StatementResult
  BY <1>2, <1>3, ReturnFields
<1>5. call.op = "statement"
  BY <1>2, FieldTypes DEF Dumps, Loads, Imports
<1>6. thread.state = "none"
  BY <1>1, <1>2, <1>5, StartedFacts
<1>7. SuccessIsWhole' /\ EncoderErrorSurvives'
  BY <1>1, <1>5 DEF SuccessIsWhole, EncoderErrorSurvives, Dumps
<1> QED
  BY <1>1, <1>3, <1>4, <1>6, <1>7, Returns

LEMMA JoinDrainStep ==
  ASSUME InductiveInvariant, JoinDrain
  PROVE  InductiveInvariant'
<1>1. /\ UNCHANGED <<call, thread, client, streams, cancelled, stuck>>
      /\ At("draining") /\ Ended
  BY DEF JoinDrain
<1>2. CASE Dumps
  <2>1. Return(DumpResult)
    BY <1>2 DEF JoinDrain, Dumps, Loads, Imports
  <2> QED
    BY <1>1, <1>2, <2>1, DumpReturns
<1>3. CASE Loads
  <2>1. Goto("joining decoder")
    BY <1>3 DEF JoinDrain, Dumps, Loads, Imports
  <2>2. TypeOK
    BY Parts
  <2>3. /\ task' \in Task /\ task'.pc = "joining decoder"
        /\ task'.copied = task.copied /\ task'.result = task.result
    BY <2>1, <2>2, GotoFields
  <2>4. client \in Client /\ cancelled \in BOOLEAN
    BY <2>2 DEF TypeOK
  <2>5. /\ call' = call /\ thread' = thread /\ client' = client /\ channel' = channel
        /\ pipe' = pipe /\ writer' = writer /\ stderr' = stderr
        /\ cancelled' = cancelled /\ stuck' = stuck /\ task.pc = "draining"
    BY <1>1 DEF streams, At
  <2> QED
    BY <1>1, <1>3, <2>3, <2>4, <2>5, GoesOn
<1>4. CASE ~Dumps /\ ~Loads
  <2>1. Return(StatementResult)
    BY <1>4 DEF JoinDrain
  <2> QED
    BY <1>1, <1>4, <2>1, StatementReturns
<1> QED
  BY <1>2, <1>3, <1>4

(* An import whose client and decoder are well has executed all of it.     *)
LEMMA JoinDecoderStep ==
  ASSUME InductiveInvariant, JoinDecoder
  PROVE  InductiveInvariant'
<1>1. /\ call' = call /\ thread' = thread /\ client' = client /\ channel' = channel
      /\ pipe' = pipe /\ writer' = writer /\ stderr' = stderr
      /\ cancelled' = cancelled /\ stuck' = stuck
      /\ task.pc = "joining decoder" /\ thread.state # "working" /\ Return(ImportResult)
  BY DEF JoinDecoder, At, streams
<1>2. /\ TypeOK /\ Unstarted /\ Started /\ ImportStream
      /\ call.swapped => call.op = "push"
  BY Parts
<1>3. ImportResult \in {"interrupted", "write", "decode", "stopped", "refused", "changed", "ok"}
  BY DEF ImportResult
<1>4. /\ task' \in Task /\ task'.pc = "returned" /\ task'.copied = task.copied
      /\ task'.result = ImportResult
  BY <1>1, <1>2, <1>3, ReturnFields
<1>5. client.state # "none" /\ Loads /\ ~Dumps /\ Ended
  BY <1>1, <1>2, StartedFacts DEF Dumps, Loads, Imports
<1>6. SuccessIsWhole'
  <2> SUFFICES ASSUME ImportResult = "ok"
               PROVE  /\ client.state = "ok" /\ thread.state = "ok" /\ thread.moved = Chunks
                      /\ client.done = Statements
                      /\ call.intact /\ ~call.swapped
    BY <1>1, <1>4 DEF SuccessIsWhole, Statements
  <2>1. /\ thread.state \notin {"failed", "stopped"}
        /\ task.copied \notin {"interrupted", "failed"}
        /\ client.state = "ok" /\ call.intact
    BY DEF ImportResult
  <2>2. task.copied = "done"
    <3>1. task.copied # "open" /\ task.copied # "stopped"
      BY <1>1, <1>2, <1>5, StartedFacts, ImportFacts DEF Moving, Loads, Imports
    <3> QED
      BY <1>2, <2>1, <3>1, FieldTypes
  <2>3. thread.state = "ok"
    <3>1. thread.state # "none"
      BY <1>1, <1>2, <1>5, StartedFacts DEF Loads, Imports
    <3> QED
      BY <1>1, <1>2, <2>1, <3>1, FieldTypes
  <2>4. thread.moved = Chunks
    BY <1>2, <1>5, <2>3, ImportFacts
  <2>5. pipe = 0
    BY <1>2, <1>5, <2>1, ImportFacts
  <2>6. channel = 0
    BY <1>2, <1>5, <2>2, ImportFacts
  <2>7. Held = 0
    BY <1>1 DEF Held, At
  <2>8. client.done + pipe + Held + channel = thread.moved + Guard
    BY <1>2, <1>5, <2>1, <2>2, ImportFacts
  <2>9. Guard = IF call.op = "push" THEN 1 ELSE 0
    BY <1>1 DEF Guard
  <2>10. client.done = Statements
    <3>1. CASE call.op = "push"
      <4>1. Guard = 1 /\ Statements = Chunks + 1
        BY <2>9, <3>1 DEF Statements
      <4> QED
        BY <1>2, <2>4, <2>5, <2>6, <2>7, <2>8, <4>1, Counts, Sizes
    <3>2. CASE call.op # "push"
      <4>1. Guard = 0 /\ Statements = Chunks
        BY <2>9, <3>2 DEF Statements
      <4> QED
        BY <1>2, <2>4, <2>5, <2>6, <2>7, <2>8, <4>1, Counts, Sizes
    <3> QED
      BY <3>1, <3>2
  <2>11. ~call.swapped
    <3>1. Chunks # 0 /\ Chunks + 1 # 0
      BY Sizes
    <3>2. client.done # 0
      BY <2>10, <3>1 DEF Statements
    <3> QED
      BY <1>2, <1>5, <3>2, ImportFacts
  <2> QED
    BY <2>1, <2>3, <2>4, <2>10, <2>11
<1>7. EncoderErrorSurvives'
  BY <1>1, <1>5 DEF EncoderErrorSurvives, Dumps
<1> QED
  BY <1>1, <1>3, <1>4, <1>5, <1>6, <1>7, Returns

-----------------------------------------------------------------------------
(* Steps that move a chunk, and the ends of thread and client.             *)

LEMMA MovesOn ==
  ASSUME Unstarted, Started, call' = call, thread' = thread, client' = client,
         Dumps \/ Loads, task.pc \in Moving, task'.pc \in {"streaming", "handing over", "closing"},
         task'.copied = task.copied, task'.pc = "closing" => Loads
  PROVE  Unstarted' /\ Started' /\ client.state # "none" /\ task.copied = "open"
<1>1. task.pc \notin {"called", "returned"}
  BY DEF Moving
<1>2. /\ client.state # "none"
      /\ thread.state = "none" <=> call.op = "statement"
      /\ task.copied = "open" <=> task.pc \in Moving \/ call.op = "statement"
  BY <1>1, StartedFacts
<1>3. Unstarted'
  BY <1>2 DEF Unstarted
<1>4. task'.pc \in Moving /\ task'.pc \notin {"called", "guarding", "joining decoder",
                                              "joining encoder", "returned"}
  BY DEF Moving
<1> QED
  BY <1>2, <1>3, <1>4 DEF Started, Dumps, Loads

LEMMA StillStarted ==
  ASSUME Unstarted, Started, call' = call, task' = task, client.state # "none",
         client'.state # "none", Ended => Ended',
         thread'.state = "none" <=> thread.state = "none", task.pc # "returned"
  PROVE  Unstarted' /\ Started'
<1>1. Unstarted'
  BY DEF Unstarted
<1> QED
  BY <1>1 DEF Started, Dumps, Loads

(* What the steps of thread and client leave to the task.                  *)
LEMMA Busy ==
  ASSUME InductiveInvariant, thread.state = "working" \/ Running
  PROVE  client.state # "none" /\ task.pc \notin {"called", "returned"}
<1>1. Unstarted /\ Started /\ NothingRunsOn
  BY Parts
<1>2. client.state = "none" => thread = [state |-> "none", moved |-> 0]
  BY <1>1 DEF Unstarted
<1>3. client.state # "none"
  BY <1>2 DEF Running
<1> QED
  BY <1>1, <1>3 DEF Started, NothingRunsOn, At

LEMMA ReadChunkStep ==
  ASSUME InductiveInvariant, ReadChunk
  PROVE  InductiveInvariant'
<1>1. TypeOK /\ Unstarted /\ Started /\ DumpStream /\ DumpEnds
  BY Parts
<1>2. /\ task' \in Task /\ task'.pc = "handing over" /\ task'.copied = task.copied
      /\ task'.late = task.late /\ task'.result = task.result
  BY <1>1, GotoFields DEF ReadChunk, Moving
<1>3. /\ Dumps /\ task.pc = "streaming"
      /\ call' = call /\ thread' = thread /\ client' = client /\ channel' = channel
      /\ writer' = writer /\ stderr' = stderr /\ cancelled' = cancelled /\ stuck' = stuck
  BY DEF ReadChunk, At
<1>4. pipe > 0 /\ pipe' = pipe - 1
  BY DEF ReadChunk
<1>5. /\ channel \in Nat /\ pipe \in Nat /\ thread.moved \in Nat /\ client.done \in Nat
      /\ pipe <= Pipe
  BY <1>1, Counts
<1>6. pipe' \in Nat /\ pipe' <= Pipe
  BY <1>4, <1>5, Sizes
<1>7. TypeOK'
  BY <1>1, <1>2, <1>3, <1>6, KeptTypes, Typed
<1>8. Unstarted' /\ Started' /\ client.state # "none" /\ task.copied = "open"
  BY <1>1, <1>2, <1>3, MovesOn DEF Moving
<1>9. Held = 0 /\ Held' = 1
  BY <1>2, <1>3 DEF Held, At
<1>10. DumpStream'
  <2>1. thread.state # "ok" /\ thread.state # "stopped" /\ client.done <= Chunks
    BY <1>1, <1>3, <1>8, DumpFacts
  <2>2. /\ pipe + Held + channel + thread.moved <= client.done
        /\ thread.state # "failed" => pipe + Held + channel + thread.moved = client.done
    BY <1>1, <1>3, <1>8, DumpFacts
  <2>3. pipe' + Held' + channel + thread.moved = pipe + Held + channel + thread.moved
    BY <1>4, <1>5, <1>9
  <2> QED
    BY <1>2, <1>3, <1>8, <2>1, <2>2, <2>3 DEF DumpStream
<1>11. DumpEnds'
  BY <1>1, <1>2, <1>3, <1>8 DEF DumpEnds, Dumps
<1> QED
  BY <1>2, <1>3, <1>7, <1>8, <1>10, <1>11, DumpOnly, Gathers

LEMMA SendChunkStep ==
  ASSUME InductiveInvariant, SendChunk
  PROVE  InductiveInvariant'
<1>1. TypeOK /\ Unstarted /\ Started /\ DumpStream /\ DumpEnds
  BY Parts
<1>2. /\ Dumps /\ ~Loads /\ task.pc = "handing over"
      /\ call' = call /\ thread' = thread /\ client' = client /\ pipe' = pipe
      /\ stderr' = stderr /\ cancelled' = cancelled /\ stuck' = stuck
  BY DEF SendChunk, At, Dumps, Loads, Imports
<1>3. task.pc \in Moving
  BY <1>2 DEF Moving
<1>4. ASSUME thread.state = "working", channel < Channel, channel' = channel + 1,
             Goto("streaming"), writer' = writer
      PROVE  InductiveInvariant'
  <2>1. /\ task' \in Task /\ task'.pc = "streaming" /\ task'.copied = task.copied
        /\ task'.late = task.late /\ task'.result = task.result
    BY <1>1, <1>4, GotoFields DEF Moving
  <2>2. /\ channel \in Nat /\ pipe \in Nat /\ thread.moved \in Nat /\ client.done \in Nat
    BY <1>1, Counts
  <2>3. channel' \in Nat /\ channel' <= Channel
    BY <1>4, <2>2, Sizes
  <2>4. writer' \in {"open", "closed"}
    BY <1>1, <1>4 DEF TypeOK
  <2>5. TypeOK'
    BY <1>1, <1>2, <2>1, <2>3, <2>4, KeptTypes, Typed
  <2>6. Unstarted' /\ Started' /\ client.state # "none" /\ task.copied = "open"
    BY <1>1, <1>2, <1>3, <2>1, MovesOn
  <2>7. Held = 1 /\ Held' = 0
    BY <1>2, <2>1 DEF Held, At
  <2>8. pipe + Held + channel + thread.moved = client.done /\ client.done <= Chunks
    BY <1>1, <1>2, <1>4, <2>6, DumpFacts
  <2>9. pipe + Held' + channel' + thread.moved = client.done
    BY <1>4, <2>2, <2>7, <2>8
  <2>10. pipe + Held' + channel' + thread.moved <= client.done
    BY <2>2, <2>9
  <2>11. DumpStream'
    BY <1>2, <1>4, <2>1, <2>6, <2>8, <2>9, <2>10 DEF DumpStream
  <2>12. DumpEnds'
    BY <1>1, <1>2, <1>4, <2>1, <2>6 DEF DumpEnds, Dumps
  <2> QED
    BY <1>2, <2>1, <2>5, <2>6, <2>11, <2>12, DumpOnly, Gathers
<1>5. ASSUME thread.state # "working", EndCopy("stopped"), channel' = channel
      PROVE  InductiveInvariant'
  <2>1. client.state # "none" /\ thread.state # "none"
    BY <1>1, <1>2, StartedFacts DEF Dumps
  <2>2. thread.state = "failed"
    BY <1>1, <1>2, <1>5, <2>1, DumpFacts, FieldTypes
  <2>3. MayEnd("stopped")
    BY <1>2, <2>2 DEF MayEnd
  <2> QED
    BY <1>2, <1>3, <1>5, <2>3, EndsCopy
<1> QED
  BY <1>4, <1>5 DEF SendChunk

LEMMA ReceiveChunkStep ==
  ASSUME InductiveInvariant, ReceiveChunk
  PROVE  InductiveInvariant'
<1>1. TypeOK /\ Unstarted /\ Started /\ ImportStream
  BY Parts
<1>2. /\ Loads /\ task.pc = "streaming"
      /\ call' = call /\ thread' = thread /\ client' = client /\ pipe' = pipe
      /\ writer' = writer /\ stderr' = stderr /\ cancelled' = cancelled /\ stuck' = stuck
  BY DEF ReceiveChunk, At
<1>3. channel \in Nat /\ channel <= Channel
  BY <1>1, Counts
<1>4. channel > 0 /\ channel' = channel - 1 =>
        /\ channel' \in Nat /\ channel' <= Channel
        /\ 1 + channel' = channel
  BY <1>3, Sizes
<1>5. 0 + channel = channel
  BY <1>3
<1>6. \A held, left \in Nat : held + left = channel =>
        client.done + pipe + held + left = client.done + pipe + 0 + channel
  BY <1>1, <1>3, Counts
<1>7. PICK label \in {"handing over", "closing"} :
        /\ Goto(label)
        /\ \/ label = "handing over" /\ channel > 0 /\ channel' = channel - 1
           \/ label = "closing" /\ channel = 0 /\ thread.state # "working" /\ channel' = channel
  BY DEF ReceiveChunk
<1>8. /\ task' \in Task /\ task'.pc = label /\ task'.copied = task.copied
      /\ task'.late = task.late /\ task'.result = task.result
  BY <1>1, <1>7, GotoFields DEF Moving
<1>9. Unstarted' /\ Started' /\ client.state # "none" /\ task.copied = "open"
  BY <1>1, <1>2, <1>7, <1>8, MovesOn DEF Moving
<1>10. channel' \in Nat /\ channel' <= Channel /\ Held' \in Nat /\ Held' + channel' = channel
  <2>1. ASSUME label = "handing over", channel > 0, channel' = channel - 1
        PROVE  channel' \in Nat /\ channel' <= Channel /\ Held' \in Nat /\ Held' + channel' = channel
    <3>1. Held' = 1
      BY <1>8, <2>1 DEF Held, At
    <3> QED
      BY <1>4, <2>1, <3>1
  <2>2. ASSUME label = "closing", channel' = channel
        PROVE  channel' \in Nat /\ channel' <= Channel /\ Held' \in Nat /\ Held' + channel' = channel
    <3>1. Held' = 0
      BY <1>8, <2>2 DEF Held, At
    <3> QED
      BY <1>3, <1>5, <2>2, <3>1
  <2> QED
    BY <1>7, <2>1, <2>2
<1>11. TypeOK'
  BY <1>1, <1>2, <1>8, <1>10, KeptTypes, Typed
<1>12. Guard' = Guard /\ Held = 0
  BY <1>2, <1>7, <1>8 DEF Guard, Held, At
<1>13. client.done + pipe + Held' + channel' = client.done + pipe + Held + channel
  BY <1>10, <1>12, <1>6
<1>14. ImportStream'
  <2>1. client.done + pipe + Held' + channel' <= thread.moved + Guard
    BY <1>1, <1>2, <1>9, <1>13, ImportFacts
  <2>2. client.state \in {"running", "ok"} =>
          client.done + pipe + Held' + channel' = thread.moved + Guard
    BY <1>1, <1>2, <1>9, <1>13, ImportFacts
  <2>3. /\ thread.state = "ok" => thread.moved = Chunks
        /\ client.state = "ok" => pipe = 0
        /\ call.swapped => client.done = 0
    BY <1>1, <1>2, <1>9, ImportFacts
  <2>4. thread.state # "stopped"
    BY <1>1, <1>2, <1>9, ImportFacts DEF Moving
  <2>5. (task.pc = "closing" \/ task.copied = "done" =>
           channel = 0 /\ thread.state # "working")'
    BY <1>2, <1>7, <1>8, <1>9
  <2>6. task'.copied = "open"
    BY <1>8, <1>9
  <2> QED
    BY <1>2, <1>12, <2>1, <2>2, <2>3, <2>4, <2>5, <2>6 DEF ImportStream
<1> QED
  BY <1>2, <1>7, <1>8, <1>9, <1>11, <1>14, ImportOnly, Gathers

LEMMA WriteChunkStep ==
  ASSUME InductiveInvariant, WriteChunk
  PROVE  InductiveInvariant'
<1>1. TypeOK /\ Unstarted /\ Started /\ ImportStream
  BY Parts
<1>2. /\ Loads /\ ~Dumps /\ task.pc \in {"guarding", "handing over"}
      /\ call' = call /\ thread' = thread /\ client' = client /\ channel' = channel
      /\ stderr' = stderr /\ cancelled' = cancelled /\ stuck' = stuck
  BY DEF WriteChunk, Dumps, Loads, Imports
<1>3. task.pc \in Moving
  BY <1>2 DEF Moving
<1>4. ASSUME Running, pipe < Pipe, pipe' = pipe + 1, Goto("streaming"), writer' = writer
      PROVE  InductiveInvariant'
  <2>1. /\ task' \in Task /\ task'.pc = "streaming" /\ task'.copied = task.copied
        /\ task'.late = task.late /\ task'.result = task.result
    BY <1>1, <1>4, GotoFields DEF Moving
  <2>2. /\ channel \in Nat /\ pipe \in Nat /\ thread.moved \in Nat /\ client.done \in Nat
    BY <1>1, Counts
  <2>3. pipe' \in Nat /\ pipe' <= Pipe
    BY <1>4, <2>2, Sizes
  <2>4. writer' \in {"open", "closed"}
    BY <1>1, <1>4 DEF TypeOK
  <2>5. TypeOK'
    BY <1>1, <1>2, <2>1, <2>3, <2>4, KeptTypes, Typed
  <2>6. Unstarted' /\ Started' /\ client.state # "none" /\ task.copied = "open"
    BY <1>1, <1>2, <1>3, <2>1, MovesOn
  <2>7. client.done + pipe + Held + channel = thread.moved + Guard
    BY <1>1, <1>2, <1>4, <2>6, ImportFacts DEF Running
  <2>8. client.done + pipe' + Held' + channel = thread.moved + Guard'
    <3>1. Held' = 0
      BY <2>1 DEF Held, At
    <3>2. ASSUME task.pc = "handing over"
          PROVE  Held = 1 /\ Guard' = Guard /\ Guard \in Nat
      BY <1>2, <2>1, <3>2 DEF Held, Guard, At
    <3>3. ASSUME task.pc = "guarding"
          PROVE  Held = 0 /\ Guard = 0 /\ Guard' = 1
      <4>1. call.op = "push"
        BY <1>1, <1>3, <3>3, StartedFacts DEF Moving
      <4> QED
        BY <1>2, <2>1, <3>3, <4>1 DEF Held, Guard, At
    <3>4. \/ Held = 1 /\ Guard' = Guard /\ Guard \in Nat
          \/ Held = 0 /\ Guard = 0 /\ Guard' = 1
      BY <1>2, <3>2, <3>3
    <3> QED
      BY <1>4, <2>2, <2>7, <3>1, <3>4
  <2>9. client.done + pipe' + Held' + channel <= thread.moved + Guard'
    <3>1. Guard' \in Nat
      BY DEF Guard
    <3> QED
      BY <2>2, <2>8, <3>1
  <2>10. /\ thread.state # "stopped"
         /\ thread.state = "ok" => thread.moved = Chunks
         /\ call.swapped => client.done = 0
    BY <1>1, <1>2, <1>3, <2>6, ImportFacts
  <2>11. ImportStream'
    BY <1>2, <1>4, <2>1, <2>6, <2>8, <2>9, <2>10 DEF ImportStream, Running
  <2> QED
    BY <1>2, <2>1, <2>5, <2>6, <2>11, ImportOnly, Gathers
<1>5. ASSUME Ended, EndCopy("failed"), pipe' = pipe
      PROVE  InductiveInvariant'
  <2>1. MayEnd("failed")
    BY <1>2 DEF MayEnd
  <2> QED
    BY <1>2, <1>3, <1>5, <2>1, EndsCopy
<1> QED
  BY <1>4, <1>5 DEF WriteChunk

(* The thread moves a chunk or ends, and nobody else does anything.        *)
LEMMA ThreadMoves ==
  ASSUME InductiveInvariant, thread.state = "working", thread' \in Thread,
         thread'.state # "none",
         UNCHANGED <<call, task, client, pipe, writer, stderr, cancelled, stuck>>,
         channel' \in Nat, channel' <= Channel,
         Dumps => DumpStream', Loads => ImportStream', Dumps \/ Loads
  PROVE  InductiveInvariant'
<1>1. /\ call' = call /\ task' = task /\ client' = client /\ pipe' = pipe
      /\ writer' = writer /\ stderr' = stderr /\ cancelled' = cancelled /\ stuck' = stuck
  OBVIOUS
<1>2. TypeOK /\ Unstarted /\ Started /\ DumpEnds
  BY Parts
<1>3. TypeOK'
  BY <1>1, <1>2, KeptTypes, Typed
<1>4. client.state # "none" /\ task.pc \notin {"called", "returned"}
  BY Busy
<1>5. Unstarted' /\ Started'
  BY <1>1, <1>2, <1>4, StillStarted DEF Ended
<1>6. CASE Dumps
  <2>1. DumpEnds'
    BY <1>1, <1>2 DEF DumpEnds, Dumps
  <2> QED
    BY <1>1, <1>3, <1>4, <1>5, <1>6, <2>1, DumpOnly, Gathers
<1>7. CASE Loads
  BY <1>1, <1>3, <1>4, <1>5, <1>7, ImportOnly, Gathers
<1> QED
  BY <1>6, <1>7

LEMMA EncodeStep ==
  ASSUME InductiveInvariant, Encode
  PROVE  InductiveInvariant'
<1>1. /\ UNCHANGED <<call, task, client, pipe, writer, stderr, cancelled, stuck>>
      /\ Dumps /\ ~Loads /\ thread.state = "working"
  BY DEF Encode, Dumps, Loads, Imports
<1>2. TypeOK /\ DumpStream
  BY Parts
<1>3. client.state # "none"
  BY <1>1, Busy
<1>4. Held' = Held
  BY <1>1 DEF Held, At
<1>5. /\ channel \in Nat /\ channel <= Channel /\ pipe \in Nat /\ thread.moved \in Nat
      /\ client.done \in Nat
  BY <1>2, Counts
<1>6. pipe + Held + channel + thread.moved = client.done /\ client.done <= Chunks
  BY <1>1, <1>2, <1>3, DumpFacts
<1>7. task.copied # "stopped"
  BY <1>1, <1>2, <1>3, DumpFacts
<1>8. ASSUME channel > 0, channel' = channel - 1, thread' = [thread EXCEPT !.moved = @ + 1]
      PROVE  InductiveInvariant'
  <2>1. Held \in Nat
    BY DEF Held
  <2>2. thread.moved + 1 \in 0..Chunks
    BY <1>5, <1>6, <1>8, <2>1, Sizes
  <2>3. thread' \in Thread /\ thread'.state = "working" /\ thread'.moved = thread.moved + 1
    BY <1>1, <1>2, <1>8, <2>2 DEF TypeOK, Thread
  <2>4. channel' \in Nat /\ channel' <= Channel
    BY <1>5, <1>8, Sizes
  <2>5. pipe + Held + channel' + (thread.moved + 1) = client.done
    BY <1>5, <1>6, <1>8, <2>1
  <2>6. pipe + Held + channel' + (thread.moved + 1) <= client.done
    BY <1>5, <2>5
  <2>7. (task.pc \in {"waiting", "killing", "removing", "draining", "returned"} =>
           thread.state # "working")'
    BY <1>1, <1>2, <1>3, DumpFacts
  <2>8. DumpStream'
    BY <1>1, <1>4, <1>6, <1>7, <2>3, <2>5, <2>6, <2>7 DEF DumpStream
  <2> QED
    BY <1>1, <2>3, <2>4, <2>8, ThreadMoves
<1>9. ASSUME channel = 0, SenderDropped, Stop("ok"), channel' = channel
      PROVE  InductiveInvariant'
  <2>1. thread' \in Thread /\ thread'.state = "ok" /\ thread'.moved = thread.moved
    BY <1>2, <1>9 DEF Stop, TypeOK, Thread
  <2>2. pipe + Held + channel + thread.moved <= client.done
    BY <1>5, <1>6
  <2>3. channel' = 0 /\ SenderDropped'
    BY <1>1, <1>9 DEF SenderDropped
  <2>4. DumpStream'
    BY <1>1, <1>4, <1>6, <1>7, <1>9, <2>1, <2>2, <2>3 DEF DumpStream
  <2> QED
    BY <1>1, <1>5, <1>9, <2>1, <2>4, ThreadMoves
<1> QED
  BY <1>8, <1>9 DEF Encode

LEMMA EncodeFailsStep ==
  ASSUME InductiveInvariant, EncodeFails
  PROVE  InductiveInvariant'
<1>1. /\ UNCHANGED <<call, task, client, pipe, writer, stderr, cancelled, stuck>>
      /\ Dumps /\ ~Loads /\ thread.state = "working" /\ Stop("failed") /\ channel' = 0
  BY DEF EncodeFails, Dumps, Loads, Imports
<1>2. TypeOK /\ DumpStream
  BY Parts
<1>3. client.state # "none"
  BY <1>1, Busy
<1>4. Held' = Held /\ Held \in Nat
  BY <1>1 DEF Held, At
<1>5. /\ channel \in Nat /\ pipe \in Nat /\ thread.moved \in Nat /\ client.done \in Nat
  BY <1>2, Counts
<1>6. thread' \in Thread /\ thread'.state = "failed" /\ thread'.moved = thread.moved
  BY <1>1, <1>2 DEF Stop, TypeOK, Thread
<1>7. pipe + Held + channel + thread.moved <= client.done /\ client.done <= Chunks
  BY <1>1, <1>2, <1>3, DumpFacts
<1>8. pipe + Held + 0 + thread.moved <= client.done
  BY <1>4, <1>5, <1>7
<1>9. DumpStream'
  BY <1>1, <1>4, <1>6, <1>7, <1>8 DEF DumpStream
<1>10. channel' \in Nat /\ channel' <= Channel
  BY <1>1, Sizes
<1> QED
  BY <1>1, <1>6, <1>9, <1>10, ThreadMoves

LEMMA DecodeStep ==
  ASSUME InductiveInvariant, Decode
  PROVE  InductiveInvariant'
<1>1. /\ UNCHANGED <<call, task, client, pipe, writer, stderr, cancelled, stuck>>
      /\ Loads /\ ~Dumps /\ thread.state = "working"
  BY DEF Decode, Dumps, Loads, Imports
<1>2. TypeOK /\ ImportStream
  BY Parts
<1>3. client.state # "none"
  BY <1>1, Busy
<1>4. Held' = Held /\ Guard' = Guard
  BY <1>1 DEF Held, Guard, At
<1>5. Held \in Nat /\ Guard \in Nat
  BY DEF Held, Guard
<1>6. /\ channel \in Nat /\ pipe \in Nat /\ thread.moved \in Nat /\ client.done \in Nat
      /\ channel <= Channel /\ thread.moved <= Chunks
  BY <1>2, Counts
<1>7. client.done + pipe + Held + channel <= thread.moved + Guard
  BY <1>1, <1>2, <1>3, ImportFacts
<1>8. client.state \in {"running", "ok"} /\ task.copied \in {"open", "done"} =>
        client.done + pipe + Held + channel = thread.moved + Guard
  BY <1>1, <1>2, <1>3, ImportFacts
<1>9. /\ task.copied # "stopped" /\ task.pc # "closing" /\ task.copied # "done"
      /\ call.swapped => client.done = 0
  BY <1>1, <1>2, <1>3, ImportFacts
<1>10. client.state = "ok" => pipe = 0
  BY <1>1, <1>2, <1>3, ImportFacts
<1>11. ASSUME thread.moved < Chunks, channel < Channel, channel' = channel + 1,
              task.pc \in Moving, thread' = [thread EXCEPT !.moved = @ + 1]
       PROVE  InductiveInvariant'
  <2>1. /\ thread.moved + 1 \in 0..Chunks
        /\ channel + 1 \in Nat /\ channel + 1 <= Channel
    BY <1>6, <1>11, Sizes
  <2>2. thread' \in Thread /\ thread'.state = "working" /\ thread'.moved = thread.moved + 1
    BY <1>1, <1>2, <1>11, <2>1 DEF TypeOK, Thread
  <2>3. channel' = channel + 1 /\ channel' \in Nat /\ channel' <= Channel
    BY <1>11, <2>1
  <2>4. client.done + pipe + Held + (channel + 1) <= (thread.moved + 1) + Guard
    BY <1>5, <1>6, <1>7
  <2>5. client.state \in {"running", "ok"} /\ task.copied \in {"open", "done"} =>
          client.done + pipe + Held + (channel + 1) = (thread.moved + 1) + Guard
    <3> SUFFICES ASSUME client.state \in {"running", "ok"}, task.copied \in {"open", "done"}
                 PROVE  client.done + pipe + Held + (channel + 1) = (thread.moved + 1) + Guard
      OBVIOUS
    <3>1. client.done + pipe + Held + channel = thread.moved + Guard
      BY <1>8
    <3> QED
      BY <1>5, <1>6, <3>1
  <2>6. ImportStream'
    BY <1>1, <1>4, <1>9, <1>10, <2>2, <2>3, <2>4, <2>5 DEF ImportStream
  <2> QED
    BY <1>1, <2>2, <2>3, <2>6, ThreadMoves
<1>12. ASSUME task.pc \notin Moving, Stop("stopped"), channel' = channel
       PROVE  InductiveInvariant'
  <2>1. thread' \in Thread /\ thread'.state = "stopped" /\ thread'.moved = thread.moved
    BY <1>2, <1>12 DEF Stop, TypeOK, Thread
  <2>2. ImportStream'
    BY <1>1, <1>4, <1>7, <1>8, <1>9, <1>10, <1>12, <2>1 DEF ImportStream
  <2> QED
    BY <1>1, <1>6, <1>12, <2>1, <2>2, ThreadMoves
<1>13. ASSUME thread.moved = Chunks, Stop("ok"), channel' = channel
       PROVE  InductiveInvariant'
  <2>1. thread' \in Thread /\ thread'.state = "ok" /\ thread'.moved = thread.moved
    BY <1>2, <1>13 DEF Stop, TypeOK, Thread
  <2>2. ImportStream'
    BY <1>1, <1>4, <1>7, <1>8, <1>9, <1>10, <1>13, <2>1 DEF ImportStream
  <2> QED
    BY <1>1, <1>6, <1>13, <2>1, <2>2, ThreadMoves
<1> QED
  BY <1>11, <1>12, <1>13 DEF Decode

LEMMA DecodeFailsStep ==
  ASSUME InductiveInvariant, DecodeFails
  PROVE  InductiveInvariant'
<1>1. /\ UNCHANGED <<call, task, client, pipe, writer, stderr, cancelled, stuck>>
      /\ Loads /\ ~Dumps /\ thread.state = "working" /\ Stop("failed") /\ channel' = channel
  BY DEF DecodeFails, streams, Dumps, Loads, Imports
<1>2. TypeOK /\ ImportStream
  BY Parts
<1>3. client.state # "none"
  BY <1>1, Busy
<1>4. Held' = Held /\ Guard' = Guard
  BY <1>1 DEF Held, Guard, At
<1>5. thread' \in Thread /\ thread'.state = "failed" /\ thread'.moved = thread.moved
  BY <1>1, <1>2 DEF Stop, TypeOK, Thread
<1>6. ImportStream'
  <2>1. client.done + pipe + Held + channel <= thread.moved + Guard
    BY <1>1, <1>2, <1>3, ImportFacts
  <2>2. client.state \in {"running", "ok"} /\ task.copied \in {"open", "done"} =>
          client.done + pipe + Held + channel = thread.moved + Guard
    BY <1>1, <1>2, <1>3, ImportFacts
  <2>3. /\ task.copied # "stopped" /\ task.pc # "closing" /\ task.copied # "done"
        /\ call.swapped => client.done = 0
    BY <1>1, <1>2, <1>3, ImportFacts
  <2>4. client.state = "ok" => pipe = 0
    BY <1>1, <1>2, <1>3, ImportFacts
  <2> QED
    BY <1>1, <1>4, <1>5, <2>1, <2>2, <2>3, <2>4 DEF ImportStream
<1>7. channel \in Nat /\ channel <= Channel
  BY <1>2, Counts
<1> QED
  BY <1>1, <1>5, <1>6, <1>7, ThreadMoves

(* The client reads or writes a chunk or ends, and nobody else does        *)
(* anything.                                                               *)
LEMMA ClientMoves ==
  ASSUME InductiveInvariant, Running, client' \in Client, client'.state # "none",
         UNCHANGED <<call, task, thread, channel, stderr, cancelled, stuck>>,
         pipe' \in Nat, pipe' <= Pipe, writer' \in {"open", "closed"},
         Dumps => DumpStream' /\ DumpEnds', Loads => ImportStream'
  PROVE  InductiveInvariant'
<1>1. /\ call' = call /\ task' = task /\ thread' = thread /\ channel' = channel
      /\ stderr' = stderr /\ cancelled' = cancelled /\ stuck' = stuck
  OBVIOUS
<1>2. TypeOK /\ Unstarted /\ Started
  BY Parts
<1>3. TypeOK'
  BY <1>1, <1>2, KeptTypes, Typed
<1>4. client.state # "none" /\ task.pc \notin {"called", "returned"}
  BY Busy
<1>5. Unstarted' /\ Started'
  BY <1>1, <1>2, <1>4, StillStarted DEF Ended, Running
<1>6. CASE Dumps
  BY <1>1, <1>3, <1>4, <1>5, <1>6, DumpOnly, Gathers
<1>7. CASE Loads
  BY <1>1, <1>3, <1>4, <1>5, <1>7, ImportOnly, Gathers
<1>8. CASE ~Dumps /\ ~Loads
  <2>1. call.op = "statement"
    BY <1>2, <1>8, FieldTypes DEF Dumps, Loads, Imports
  <2> QED
    BY <1>1, <1>3, <1>4, <1>5, <2>1, StatementOnly, Gathers
<1> QED
  BY <1>6, <1>7, <1>8

LEMMA ProduceStep ==
  ASSUME InductiveInvariant, Produce
  PROVE  InductiveInvariant'
<1>1. /\ UNCHANGED <<call, task, thread, channel, stderr, cancelled, stuck>>
      /\ Dumps /\ ~Loads /\ Running /\ client.state = "running" /\ writer = "open"
  BY DEF Produce, Active, Running, Dumps, Loads, Imports
<1>2. TypeOK /\ DumpStream /\ DumpEnds
  BY Parts
<1>3. /\ channel \in Nat /\ pipe \in Nat /\ thread.moved \in Nat /\ client.done \in Nat
      /\ pipe <= Pipe
  BY <1>2, Counts
<1>4. Held' = Held /\ Held \in Nat /\ SenderDropped' = SenderDropped
  BY <1>1 DEF Held, At, SenderDropped
<1>5. /\ pipe + Held + channel + thread.moved <= client.done /\ client.done <= Chunks
      /\ thread.state # "failed" => pipe + Held + channel + thread.moved = client.done
  BY <1>1, <1>2, DumpFacts
<1>6. task.copied # "done"
  BY <1>1, <1>2 DEF DumpEnds
<1>7. ASSUME client.done < Chunks, pipe < Pipe, pipe' = pipe + 1, writer' = writer,
             client' = [client EXCEPT !.done = @ + 1]
      PROVE  InductiveInvariant'
  <2>1. /\ client.done + 1 \in 0..Chunks + 1 /\ client.done + 1 <= Chunks
        /\ pipe + 1 \in Nat /\ pipe + 1 <= Pipe
    BY <1>3, <1>7, Sizes
  <2>2. /\ client' \in Client /\ client'.state = "running" /\ client'.done = client.done + 1
    BY <1>1, <1>2, <1>7, <2>1 DEF TypeOK, Client
  <2>3. (pipe + 1) + Held + channel + thread.moved <= client.done + 1
    BY <1>3, <1>4, <1>5
  <2>4. thread.state # "failed" =>
          (pipe + 1) + Held + channel + thread.moved = client.done + 1
    <3> SUFFICES ASSUME thread.state # "failed"
                 PROVE  (pipe + 1) + Held + channel + thread.moved = client.done + 1
      OBVIOUS
    <3>1. pipe + Held + channel + thread.moved = client.done
      BY <1>5
    <3> QED
      BY <1>3, <1>4, <3>1
  <2>5. pipe' = pipe + 1 /\ pipe' \in Nat /\ pipe' <= Pipe
    BY <1>7, <2>1
  <2>6. DumpStream'
    <3>1. /\ thread'.state # "stopped"
          /\ task'.pc \in {"waiting", "killing", "removing", "draining", "returned"} =>
               thread'.state # "working"
          /\ thread'.state = "ok" => channel' = 0 /\ SenderDropped'
          /\ task'.copied = "stopped" => thread'.state = "failed"
      BY <1>1, <1>2, <1>4, DumpFacts DEF SenderDropped
    <3> QED
      BY <1>1, <1>4, <2>1, <2>2, <2>3, <2>4, <2>5, <3>1 DEF DumpStream
  <2>7. DumpEnds'
    BY <1>1, <1>6, <1>7, <2>2 DEF DumpEnds
  <2>8. writer' \in {"open", "closed"}
    BY <1>1, <1>7
  <2> QED
    BY <1>1, <2>2, <2>5, <2>6, <2>7, <2>8, ClientMoves
<1>8. ASSUME client.done = Chunks, writer' = "closed", pipe' = pipe, client' = client
      PROVE  InductiveInvariant'
  <2>1. DumpStream'
    BY <1>1, <1>2, <1>4, <1>8 DEF DumpStream, Dumps
  <2>2. DumpEnds'
    BY <1>1, <1>6, <1>8 DEF DumpEnds
  <2>3. client' \in Client /\ client'.state # "none"
    BY <1>1, <1>2, <1>8 DEF TypeOK
  <2>4. pipe' \in Nat /\ pipe' <= Pipe
    BY <1>3, <1>8
  <2> QED
    BY <1>1, <1>8, <2>1, <2>2, <2>3, <2>4, ClientMoves
<1> QED
  BY <1>7, <1>8 DEF Produce

LEMMA ExecuteStep ==
  ASSUME InductiveInvariant, Execute
  PROVE  InductiveInvariant'
<1>1. /\ UNCHANGED <<call, task, thread, channel, stderr, cancelled, stuck>>
      /\ Loads /\ ~Dumps /\ Running /\ client.state = "running" /\ writer' = writer
  BY DEF Execute, Active, Running, Dumps, Loads, Imports
<1>2. TypeOK /\ ImportStream
  BY Parts
<1>3. /\ channel \in Nat /\ pipe \in Nat /\ thread.moved \in Nat /\ client.done \in Nat
      /\ pipe <= Pipe /\ thread.moved <= Chunks
  BY <1>2, Counts
<1>4. Held' = Held /\ Held \in Nat /\ Guard' = Guard
  BY <1>1 DEF Held, Guard, At
<1>5. Guard \in Nat /\ Guard <= 1
  BY DEF Guard
<1>6. pipe > 0 /\ pipe' = pipe - 1
  BY DEF Execute
<1>7. pipe' \in Nat /\ pipe' <= Pipe
  BY <1>3, <1>6, Sizes
<1>8. client.done + pipe + Held + channel <= thread.moved + Guard
  BY <1>1, <1>2, ImportFacts
<1>9. task.copied \in {"open", "done"} =>
        client.done + pipe + Held + channel = thread.moved + Guard
  BY <1>1, <1>2, ImportFacts
<1>10. /\ task.copied # "stopped"
       /\ thread.state = "ok" => thread.moved = Chunks
       /\ thread.state = "stopped" => task.pc \notin Moving
       /\ task.pc = "closing" \/ task.copied = "done" => channel = 0 /\ thread.state # "working"
  BY <1>1, <1>2, ImportFacts
<1>11. ASSUME call.swapped /\ client.done = 0,
              client' = [client EXCEPT !.state = "failed", !.cause = "identity"]
       PROVE  InductiveInvariant'
  <2>1. client' \in Client /\ client'.state = "failed" /\ client'.done = client.done
    BY <1>2, <1>11 DEF TypeOK, Client
  <2>2. client.done + pipe' + Held + channel <= thread.moved + Guard
    BY <1>3, <1>4, <1>5, <1>6, <1>7, <1>8
  <2>3. client.done = 0
    BY <1>11
  <2>4. ImportStream'
    BY <1>1, <1>4, <1>10, <2>1, <2>2, <2>3 DEF ImportStream
  <2>5. writer' \in {"open", "closed"}
    BY <1>1, <1>2 DEF TypeOK
  <2> QED
    BY <1>1, <1>7, <2>1, <2>4, <2>5, ClientMoves
<1>12. ASSUME ~(call.swapped /\ client.done = 0), client' = [client EXCEPT !.done = @ + 1]
       PROVE  InductiveInvariant'
  <2>1. client.done + 1 \in 0..Chunks + 1
    BY <1>3, <1>4, <1>5, <1>6, <1>8, Sizes
  <2>2. client' \in Client /\ client'.state = "running" /\ client'.done = client.done + 1
    BY <1>1, <1>2, <1>12, <2>1 DEF TypeOK, Client
  <2>3. (client.done + 1) + pipe' + Held + channel = client.done + pipe + Held + channel
    BY <1>3, <1>4, <1>6
  <2>4. ~call.swapped
    <3>1. call.swapped => client.done = 0
      BY <1>1, <1>2, ImportFacts
    <3> QED
      BY <1>12, <3>1
  <2>5. ImportStream'
    BY <1>1, <1>4, <1>8, <1>9, <1>10, <2>2, <2>3, <2>4 DEF ImportStream
  <2>6. writer' \in {"open", "closed"}
    BY <1>1, <1>2 DEF TypeOK
  <2> QED
    BY <1>1, <1>7, <2>2, <2>5, <2>6, ClientMoves
<1> QED
  BY <1>11, <1>12 DEF Execute

(* A client that ends with what it has done.                               *)
LEMMA ClientEnds ==
  ASSUME InductiveInvariant, Running, client' \in Client, client'.done = client.done,
         client'.state \in {"ok", "failed"},
         UNCHANGED <<call, task, thread, channel, pipe, stderr, cancelled, stuck>>,
         writer' \in {"open", "closed"}, writer = "closed" => writer' = "closed",
         client'.state = "ok" => /\ Dumps => writer = "closed"
                                 /\ Loads => pipe = 0
  PROVE  InductiveInvariant'
<1>1. /\ call' = call /\ task' = task /\ thread' = thread /\ channel' = channel
      /\ pipe' = pipe
  OBVIOUS
<1>2. TypeOK /\ DumpStream /\ DumpEnds /\ ImportStream
  BY Parts
<1>3. Held' = Held /\ Guard' = Guard /\ SenderDropped' = SenderDropped
  BY <1>1 DEF Held, Guard, At, SenderDropped
<1>4. client.state = "running" /\ client.state # "none" /\ client'.state # "none"
  BY DEF Running
<1>5. ASSUME Dumps
      PROVE  DumpStream' /\ DumpEnds'
  <2>1. DumpStream'
    BY <1>1, <1>2, <1>3, <1>4, <1>5 DEF DumpStream, Dumps
  <2>2. task.copied = "done" => pipe = 0 /\ writer = "closed"
    BY <1>2, <1>5 DEF DumpEnds
  <2>3. client'.state = "ok" => writer = "closed"
    BY <1>5
  <2>4. writer = "closed" => client.done = Chunks
    BY <1>2, <1>4, <1>5 DEF DumpEnds
  <2> QED
    BY <1>1, <2>1, <2>2, <2>3, <2>4 DEF DumpEnds
<1>6. ASSUME Loads
      PROVE  ImportStream'
  <2>1. client'.state = "ok" => pipe = 0
    BY <1>6
  <2> QED
    BY <1>1, <1>2, <1>3, <1>4, <1>6, <2>1, ImportFacts DEF ImportStream
<1>7. pipe \in Nat /\ pipe <= Pipe
  BY <1>2, Counts
<1> QED
  BY <1>1, <1>4, <1>5, <1>6, <1>7, ClientMoves

LEMMA ExitStep ==
  ASSUME InductiveInvariant, Exit
  PROVE  InductiveInvariant'
<1>1. /\ UNCHANGED <<call, task, thread, channel, pipe, writer, stderr, cancelled, stuck>>
      /\ Running /\ client' = [client EXCEPT !.state = "ok"]
      /\ Dumps => writer = "closed"
      /\ Loads => pipe = 0
  BY DEF Exit, Active, streams
<1>2. TypeOK
  BY Parts
<1>3. client' \in Client /\ client'.done = client.done /\ client'.state = "ok"
  BY <1>1, <1>2 DEF TypeOK, Client
<1>4. writer' \in {"open", "closed"} /\ writer' = writer
  BY <1>1, <1>2 DEF TypeOK
<1> QED
  BY <1>1, <1>3, <1>4, ClientEnds

LEMMA ClientFailsStep ==
  ASSUME InductiveInvariant, ClientFails
  PROVE  InductiveInvariant'
<1>1. /\ UNCHANGED <<call, task, thread, channel, pipe, stderr, cancelled, stuck>>
      /\ Running /\ client' = [client EXCEPT !.state = "failed", !.cause = "other"]
      /\ writer' = (IF Dumps THEN "closed" ELSE writer)
  BY DEF ClientFails
<1>2. TypeOK
  BY Parts
<1>3. client' \in Client /\ client'.done = client.done /\ client'.state = "failed"
  BY <1>1, <1>2 DEF TypeOK, Client
<1>4. writer' \in {"open", "closed"} /\ (writer = "closed" => writer' = "closed")
  BY <1>1, <1>2 DEF TypeOK
<1> QED
  BY <1>1, <1>3, <1>4, ClientEnds

-----------------------------------------------------------------------------
(* The invariant.                                                          *)

LEMMA InitInvariant ==
  ASSUME Init
  PROVE  InductiveInvariant
<1>1. /\ call \in Call /\ (~call.intact => call.op \in Imports)
      /\ call.swapped => call.op = "push"
      /\ task = [pc |-> "called", copied |-> "open", late |-> FALSE, result |-> "none"]
      /\ client.state = "none"
  BY DEF Init
<1>2. /\ thread = [state |-> "none", moved |-> 0] /\ client.done = 0
      /\ channel = 0 /\ pipe = 0
  BY DEF Init
<1>3. writer = "open"
  BY DEF Init
<1>4. task.pc = "called" /\ task.copied = "open" /\ task.result = "none"
  BY <1>1
<1>5. TypeOK
  <2>1. task \in Task
    BY <1>1 DEF Task, Moving
  <2>2. thread \in Thread
    BY <1>2, Sizes DEF Thread
  <2>3. client \in Client
    BY Sizes DEF Init, Client
  <2>4. channel \in 0..Channel /\ pipe \in 0..Pipe /\ stderr \in 0..ErrPipe
    BY Sizes DEF Init
  <2>5. cancelled \in BOOLEAN /\ stuck \in BOOLEAN
    BY DEF Init
  <2> QED
    BY <1>1, <1>3, <2>1, <2>2, <2>3, <2>4, <2>5 DEF TypeOK
<1>6. Unstarted
  BY <1>2, <1>3, <1>4 DEF Unstarted
<1>7. Started /\ DumpStream /\ ImportStream
  BY <1>1 DEF Started, DumpStream, ImportStream
<1>8. DumpEnds
  BY <1>1, <1>3, <1>4 DEF DumpEnds
<1>9. SuccessIsWhole /\ NothingRunsOn /\ EncoderErrorSurvives
  BY <1>4 DEF SuccessIsWhole, NothingRunsOn, EncoderErrorSurvives, At
<1> QED
  BY <1>1, <1>4, <1>5, <1>6, <1>7, <1>8, <1>9 DEF InductiveInvariant, At, Loads

LEMMA Aside ==
  ASSUME InductiveInvariant, Cancel \/ Hang \/ Complain \/ WriteMessage \/ DrainStderr
  PROVE  InductiveInvariant'
<1>1. TypeOK
  BY Parts
<1>2. /\ call' = call /\ task' = task /\ thread' = thread /\ channel' = channel
      /\ pipe' = pipe /\ writer' = writer
  BY DEF Cancel, Hang, Complain, WriteMessage, DrainStderr, streams
<1>3. cancelled' \in BOOLEAN /\ stuck' \in BOOLEAN
  BY <1>1 DEF Cancel, Hang, Complain, WriteMessage, DrainStderr, TypeOK
<1>4. stderr' \in Nat /\ stderr' <= ErrPipe
  <2>1. stderr \in Nat /\ stderr <= ErrPipe
    BY <1>1, FieldTypes
  <2>2. \/ stderr' = stderr
        \/ stderr < ErrPipe /\ stderr' = stderr + 1
        \/ stderr > 0 /\ stderr' = stderr - 1
    BY DEF Cancel, Hang, Complain, WriteMessage, DrainStderr, streams
  <2> QED
    BY <2>1, <2>2, Sizes
<1>5. client' \in Client /\ client'.state = client.state /\ client'.done = client.done
  <2>1. client \in Client
    BY <1>1 DEF TypeOK
  <2>2. CASE client' = client
    BY <2>1, <2>2
  <2>3. CASE client' = [client EXCEPT !.talking = FALSE]
    BY <2>1, <2>3 DEF Client
  <2>4. ASSUME Complain
        PROVE  client' \in Client /\ client'.state = client.state /\ client'.done = client.done
    <3>1. client.messages > 0 /\ client' = [client EXCEPT !.talking = TRUE, !.messages = @ - 1]
      BY <2>4 DEF Complain
    <3>2. client.messages \in Nat /\ client.messages <= Messages
      BY <1>1, FieldTypes
    <3>3. client.messages > 0
      BY <3>1
    <3>4. client.messages - 1 \in 0..Messages
      BY <3>2, <3>3, Sizes
    <3> QED
      BY <2>1, <3>1, <3>4 DEF Client
  <2> QED
    BY <2>2, <2>3, <2>4 DEF Cancel, Hang, WriteMessage, DrainStderr
<1> QED
  BY <1>2, <1>3, <1>4, <1>5, AsideStep

LEMMA StutterStep ==
  ASSUME InductiveInvariant, UNCHANGED vars
  PROVE  InductiveInvariant'
<1>1. TypeOK
  BY Parts
<1>2. /\ call' = call /\ task' = task /\ thread' = thread /\ channel' = channel
      /\ pipe' = pipe /\ writer' = writer /\ client' = client /\ stderr' = stderr
      /\ cancelled' = cancelled /\ stuck' = stuck
  BY DEF vars, streams
<1> QED
  BY <1>1, <1>2, KeptTypes, AsideStep

LEMMA NextInvariant ==
  ASSUME InductiveInvariant, [Next]_vars
  PROVE  InductiveInvariant'
<1>1. CASE TaskStep
  BY <1>1, StartStep, InterruptedStep, ReadChunkStep, ReadEndsStep, SendChunkStep,
     JoinEncoderStep, ReceiveChunkStep, WriteChunkStep, CloseInputStep, AwaitStep, KillStep,
     RemoveStep, JoinDrainStep, JoinDecoderStep
  DEF TaskStep
<1>2. CASE ThreadStep \/ EncodeFails \/ DecodeFails
  BY <1>2, EncodeStep, DecodeStep, EncodeFailsStep, DecodeFailsStep DEF ThreadStep
<1>3. CASE ClientStep \/ ClientFails
  BY <1>3, ProduceStep, ExecuteStep, ExitStep, ClientFailsStep, Aside DEF ClientStep
<1>4. CASE DrainStderr \/ Cancel \/ Complain \/ Hang
  BY <1>4, Aside
<1>5. CASE UNCHANGED vars
  BY <1>5, StutterStep
<1> QED
  BY <1>1, <1>2, <1>3, <1>4, <1>5 DEF Next, Finished

(* At every moment each chunk is in one place, unless its run is failing:  *)
(* where the SQL is, in a run of any size.                                 *)
THEOREM InvariantHolds == Spec => []InductiveInvariant
<1>1. Init => InductiveInvariant
  BY InitInvariant
<1>2. InductiveInvariant /\ [Next]_vars => InductiveInvariant'
  BY NextInvariant
<1> QED
  BY <1>1, <1>2, PTL DEF Spec

(* Every variable has its type.                                            *)
THEOREM TypeCorrect == Spec => []TypeOK
<1>1. InductiveInvariant => TypeOK
  BY Parts
<1> QED
  BY <1>1, InvariantHolds, PTL

(* A dump or an import that is a success moved its whole stream, through a *)
(* client that exited well.                                                *)
THEOREM SuccessHolds == Spec => []SuccessIsWhole
<1>1. InductiveInvariant => SuccessIsWhole
  BY Parts
<1> QED
  BY <1>1, InvariantHolds, PTL

(* Nothing of a run goes on once it has returned.                          *)
THEOREM ReturnsHold == Spec => []NothingRunsOn
<1>1. InductiveInvariant => NothingRunsOn
  BY Parts
<1> QED
  BY <1>1, InvariantHolds, PTL

(* The error of the encoder is the error of the dump.                      *)
THEOREM EncoderHolds == Spec => []EncoderErrorSurvives
<1>1. InductiveInvariant => EncoderErrorSurvives
  BY Parts
<1> QED
  BY <1>1, InvariantHolds, PTL

-----------------------------------------------------------------------------
(* A session that was refused because the server is another one.           *)

(* Only a push meets it, and its client has failed; a run is interrupted   *)
(* after a cancellation only; and a decoder that was stopped had work      *)
(* left, so that the stream had not come to its end.                       *)
Refusal ==
  /\ client.cause = "identity" => client.state = "failed" /\ Loads
  /\ task.copied = "interrupted" \/ task.late => cancelled
  /\ Loads /\ thread.state = "stopped" => task.copied # "done"
  /\ RefusalSurvives

LEMMA RefusalTask ==
  ASSUME InductiveInvariant, Refusal, TaskStep
  PROVE  Refusal'
<1>1. TypeOK /\ Unstarted /\ Started /\ ImportStream
  BY Parts
<1>2. ASSUME ~At("returned"), ~At("returned")', call' = call, thread' = thread,
             client'.cause = client.cause, client.state = "failed" => client'.state = "failed",
             cancelled' = cancelled,
             task'.copied = "interrupted" \/ task'.late => cancelled,
             Loads /\ thread.state = "stopped" => task'.copied # "done"
      PROVE  Refusal'
  BY <1>2 DEF Refusal, RefusalSurvives, RefusedBySwap, At, Loads
<1>3. CASE Start
  <2>1. client.state = "none" /\ client.cause # "identity" /\ At("called")
    BY <1>1, <1>3 DEF Start, At, Started, Refusal
  <2>2. /\ client'.cause = client.cause /\ cancelled' = cancelled /\ call' = call
        /\ task'.copied = task.copied /\ task'.late = task.late
        /\ task.copied = "open"
        /\ client' \in Client /\ task' \in Task
    BY <1>1, <1>3, <2>1 DEF Start, Return, Goto, TypeOK, Task, Client, Unstarted, Moving
  <2> QED
    BY <2>1, <2>2 DEF Refusal, RefusalSurvives, RefusedBySwap
<1>4. ASSUME NEW copied \in {"done", "interrupted", "stopped", "failed"}, EndCopy(copied),
             task.pc \in Moving, copied = "interrupted" => cancelled,
             UNCHANGED <<call, thread, client, cancelled>>
      PROVE  Refusal'
  <2>1. task'.copied = copied /\ task'.late = task.late /\ ~At("returned") /\ ~At("returned")'
    BY <1>1, <1>4, EndCopyFields DEF At, Moving
  <2>2. Loads => thread.state # "stopped"
    BY <1>1, <1>4, FieldTypes DEF ImportStream, Unstarted, Moving
  <2>3. task.late => cancelled
    BY DEF Refusal
  <2> QED
    BY <1>2, <1>4, <2>1, <2>2, <2>3
<1>5. ASSUME NEW label \in Moving \cup {"joining encoder", "waiting", "killing", "removing",
                                      "draining", "joining decoder"}, Goto(label),
             ~At("returned"), call' = call, thread' = thread,
             client'.cause = client.cause, client.state = "failed" => client'.state = "failed",
             cancelled' = cancelled
      PROVE  Refusal'
  <2>1. /\ task'.copied = task.copied /\ task'.late = task.late /\ ~At("returned")'
    BY <1>1, <1>5, GotoFields DEF At, Moving
  <2>2. /\ task.copied = "interrupted" \/ task.late => cancelled
        /\ Loads /\ thread.state = "stopped" => task.copied # "done"
    BY DEF Refusal
  <2> QED
    BY <1>2, <1>5, <2>1, <2>2
<1>6. CASE Interrupted \/ ReadEnds \/ CloseInput
  <2>1. task.pc \in Moving /\ UNCHANGED <<call, thread, client, cancelled>>
    BY <1>6 DEF Interrupted, ReadEnds, CloseInput, At, Moving
  <2>2. PICK copied \in {"done", "interrupted", "failed"} :
          EndCopy(copied) /\ (copied = "interrupted" => cancelled)
    BY <1>6, Zenon DEF Interrupted, ReadEnds, CloseInput
  <2> QED
    BY <1>4, <2>1, <2>2
<1>7. CASE SendChunk
  <2>1. task.pc \in Moving /\ UNCHANGED <<call, thread, client, cancelled>>
    BY <1>7 DEF SendChunk, At, Moving
  <2>2. Goto("streaming") \/ EndCopy("stopped")
    BY <1>7, Zenon DEF SendChunk
  <2> QED
    BY <1>4, <1>5, <2>1, <2>2 DEF At, Moving
<1>8. CASE WriteChunk
  <2>1. task.pc \in Moving /\ UNCHANGED <<call, thread, client, cancelled>>
    BY <1>8 DEF WriteChunk, At, Moving
  <2>2. Goto("streaming") \/ EndCopy("failed")
    BY <1>8, Zenon DEF WriteChunk
  <2> QED
    BY <1>4, <1>5, <2>1, <2>2 DEF At, Moving
<1>9. CASE ReadChunk \/ ReceiveChunk \/ JoinEncoder \/ Remove
  <2>1. ~At("returned") /\ UNCHANGED <<call, thread, client, cancelled>>
    BY <1>9 DEF ReadChunk, ReceiveChunk, JoinEncoder, Remove, At
  <2>2. \E label \in Moving \cup {"waiting", "killing", "draining"} : Goto(label)
    BY <1>9 DEF ReadChunk, ReceiveChunk, JoinEncoder, Remove, Moving
  <2> QED
    BY <1>5, <2>1, <2>2
<1>10. CASE Await
  <2>1. /\ ~At("returned") /\ UNCHANGED <<call, thread, client, cancelled>>
        /\ \/ cancelled /\ task' = [task EXCEPT !.pc = "killing", !.late = TRUE]
           \/ Goto("draining")
    BY <1>10 DEF Await, At
  <2>2. CASE Goto("draining")
    BY <1>5, <2>1, <2>2
  <2>3. CASE cancelled /\ task' = [task EXCEPT !.pc = "killing", !.late = TRUE]
    <3>1. task'.copied = task.copied /\ ~At("returned")'
      BY <1>1, <2>3 DEF TypeOK, Task, At
    <3> QED
      BY <1>2, <2>1, <2>3, <3>1 DEF Refusal
  <2> QED
    BY <2>1, <2>2, <2>3
<1>11. CASE Kill
  <2>1. /\ client'.cause = client.cause
        /\ client.state = "failed" => client'.state = "failed"
    BY <1>1, <1>11 DEF Kill, Running, TypeOK, Client
  <2> QED
    BY <1>5, <1>11, <2>1 DEF Kill, At
<1>12. CASE JoinDrain
  <2>1. ~At("returned") /\ UNCHANGED <<call, thread, client, cancelled>>
    BY <1>12 DEF JoinDrain, At
  <2>2. CASE Goto("joining decoder")
    BY <1>5, <2>1, <2>2
  <2>3. CASE ~Loads
    <3>1. client.cause # "identity"
      BY <2>3 DEF Refusal
    <3>2. task'.copied = task.copied /\ task'.late = task.late
      BY <1>1, <1>12, <2>3 DEF JoinDrain, Return, Goto, TypeOK, Task, Dumps, Loads, Imports
    <3> QED
      BY <2>1, <2>3, <3>1, <3>2 DEF Refusal, RefusalSurvives, RefusedBySwap, Loads
  <2> QED
    BY <1>12, <2>2, <2>3 DEF JoinDrain, Dumps, Loads, Imports
<1>13. CASE JoinDecoder
  <2>1. At("joining decoder") /\ UNCHANGED <<call, thread, client, cancelled>>
    BY <1>13 DEF JoinDecoder
  <2>2. /\ task'.copied = task.copied /\ task'.late = task.late /\ task'.result = ImportResult
    BY <1>1, <1>13 DEF JoinDecoder, Return, TypeOK, Task
  <2>3. ASSUME client.cause = "identity", ~cancelled, thread.state # "failed"
        PROVE  ImportResult = IF task.copied = "failed" THEN "write" ELSE "refused"
    <3>1. client.state = "failed" /\ Loads /\ task.copied # "interrupted" /\ ~task.late
      BY <2>3 DEF Refusal
    <3>2. task.copied # "open" /\ task.copied # "stopped"
      BY <1>1, <2>1, <3>1, StartedFacts, ImportFacts DEF At, Moving, Loads, Imports
    <3>3. task.copied \in {"done", "failed"}
      BY <1>1, <3>1, <3>2, FieldTypes
    <3>4. task.copied = "done" => thread.state # "stopped"
      BY <3>1 DEF Refusal
    <3> QED
      BY <2>3, <3>1, <3>3, <3>4 DEF ImportResult
  <2> QED
    BY <2>1, <2>2, <2>3 DEF Refusal, RefusalSurvives, RefusedBySwap, Loads
<1> QED
  BY <1>3, <1>6, <1>7, <1>8, <1>9, <1>10, <1>11, <1>12, <1>13 DEF TaskStep

LEMMA RefusalNext ==
  ASSUME InductiveInvariant, Refusal, [Next]_vars
  PROVE  Refusal'
<1>1. /\ TypeOK /\ Unstarted /\ Started /\ ImportStream /\ NothingRunsOn
      /\ call.swapped => call.op = "push"
  BY Parts
<1>2. CASE TaskStep
  BY <1>2, RefusalTask
<1>3. ASSUME task' = task, call' = call, client' = client, cancelled' = cancelled,
             Loads => thread' = thread
      PROVE  Refusal'
  BY <1>3 DEF Refusal, RefusalSurvives, RefusedBySwap, At, Loads
<1>4. CASE Encode \/ EncodeFails
  BY <1>3, <1>4 DEF Encode, EncodeFails, Dumps, Loads, Imports
<1>5. CASE Decode \/ DecodeFails
  <2>1. /\ UNCHANGED <<call, task, client, cancelled>> /\ Loads /\ thread.state = "working"
    BY <1>5 DEF Decode, DecodeFails
  <2>2. ~At("returned") /\ client.state # "none"
    BY <2>1, Busy DEF At
  <2>3. task.copied # "done"
    BY <1>1, <2>1, <2>2, ImportFacts
  <2> QED
    BY <2>1, <2>2, <2>3 DEF Refusal, RefusalSurvives, RefusedBySwap, At, Loads
<1>6. ASSUME Running, UNCHANGED <<call, task, thread, cancelled>>,
             \/ client'.cause = client.cause
             \/ client'.cause = "other"
             \/ client'.cause = "identity" /\ client'.state = "failed" /\ Loads
      PROVE  Refusal'
  <2>1. ~At("returned") /\ client.cause # "identity"
    BY <1>1, <1>6 DEF NothingRunsOn, Refusal, Running
  <2> QED
    BY <1>6, <2>1 DEF Refusal, RefusalSurvives, RefusedBySwap, At, Loads
<1>7. CASE Produce \/ Exit \/ Complain \/ WriteMessage \/ Hang
  <2>1. Running /\ UNCHANGED <<call, task, thread, cancelled>>
    BY <1>7 DEF Produce, Exit, Complain, WriteMessage, Hang, Active
  <2>2. client'.cause = client.cause
    BY <1>1, <1>7 DEF Produce, Exit, Complain, WriteMessage, Hang, TypeOK, Client
  <2> QED
    BY <1>6, <2>1, <2>2
<1>8. CASE Execute
  <2>1. Running /\ Loads /\ UNCHANGED <<call, task, thread, cancelled>>
    BY <1>8 DEF Execute, Active
  <2>2. \/ client'.cause = client.cause
        \/ client'.cause = "identity" /\ client'.state = "failed"
    BY <1>1, <1>8 DEF Execute, TypeOK, Client
  <2> QED
    BY <1>6, <2>1, <2>2
<1>9. CASE ClientFails
  <2>1. client'.cause = "other"
    BY <1>1, <1>9 DEF ClientFails, TypeOK, Client
  <2> QED
    BY <1>6, <1>9, <2>1 DEF ClientFails
<1>10. CASE Cancel
  <2>1. ~At("returned") /\ UNCHANGED <<call, task, thread, client>> /\ cancelled'
    BY <1>10 DEF Cancel
  <2> QED
    BY <2>1 DEF Refusal, RefusalSurvives, RefusedBySwap, At, Loads
<1>11. CASE DrainStderr \/ UNCHANGED vars
  BY <1>3, <1>11 DEF DrainStderr, vars
<1> QED
  BY <1>2, <1>4, <1>5, <1>7, <1>8, <1>9, <1>10, <1>11
  DEF Next, ThreadStep, ClientStep, Finished

(* A push that meets another server than the attested one is returned as   *)
(* refused, or as a chunk that could not be written.                       *)
THEOREM RefusalHolds == Spec => []RefusalSurvives
<1>1. Init => Refusal
  BY DEF Init, Refusal, RefusalSurvives, RefusedBySwap, At
<1>2. InductiveInvariant /\ Refusal /\ [Next]_vars => Refusal'
  BY RefusalNext
<1>3. Refusal => RefusalSurvives
  BY DEF Refusal
<1> QED
  BY <1>1, <1>2, <1>3, InvariantHolds, PTL DEF Spec

-----------------------------------------------------------------------------
(* A cancelled run.                                                        *)

(* What stays true of a run once the token was set while it streamed or    *)
(* waited: it has returned without success, or it will see the token, or   *)
(* it has recorded an end of the stream that is no success.                *)
Doomed ==
  /\ cancelled
  /\ task.result # "ok"
  /\ \/ task.pc \in {"called", "waiting", "returned"} \cup Moving
     \/ task.late
     \/ task.copied \in {"interrupted", "stopped", "failed"}

LEMMA DoomedCopy ==
  ASSUME TypeOK, Doomed, cancelled' = cancelled,
         NEW copied \in {"interrupted", "stopped", "failed"}, EndCopy(copied)
  PROVE  Doomed'
<1>1. task'.copied = copied /\ task'.result = task.result
  BY EndCopyFields
<1> QED
  BY <1>1 DEF Doomed

LEMMA DoomedGoto ==
  ASSUME TypeOK, Doomed, cancelled' = cancelled,
         NEW label \in Moving \cup {"waiting", "killing", "removing", "draining",
                                    "joining decoder"},
         Goto(label),
         label \in Moving \/ task.pc \notin {"called", "waiting", "returned"} \cup Moving
  PROVE  Doomed'
<1>1. /\ task'.pc = label /\ task'.copied = task.copied
      /\ task'.late = task.late /\ task'.result = task.result
  BY GotoFields
<1> QED
  BY <1>1 DEF Doomed

LEMMA DoomedReturn ==
  ASSUME TypeOK, Doomed, cancelled' = cancelled,
         NEW result \in {"not started", "interrupted", "encode",
                  "stopped", "read", "write", "decode", "refused", "changed"},
         Return(result)
  PROVE  Doomed'
<1>1. task'.pc = "returned" /\ task'.result = result
  BY ReturnFields
<1> QED
  BY <1>1 DEF Doomed

LEMMA DoomedTask ==
  ASSUME InductiveInvariant, Doomed, TaskStep
  PROVE  Doomed'
<1>1. TypeOK /\ Unstarted /\ Started /\ ImportStream
  BY Parts
<1>2. cancelled
  BY DEF Doomed
<1>3. cancelled' = cancelled
  BY DEF TaskStep, Start, Interrupted, ReadChunk, ReadEnds, SendChunk, JoinEncoder,
         ReceiveChunk, WriteChunk, CloseInput, Await, Kill, Remove, JoinDrain, JoinDecoder
<1>4. CASE Start
  <2>1. Return("interrupted")
    BY <1>2, <1>4 DEF Start
  <2> QED
    BY <1>1, <1>3, <2>1, DoomedReturn
<1>5. CASE Interrupted
  <2>1. EndCopy("interrupted")
    BY <1>5 DEF Interrupted
  <2> QED
    BY <1>1, <1>3, <2>1, DoomedCopy
<1>6. CASE SendChunk
  <2>1. Goto("streaming") \/ EndCopy("stopped")
    BY <1>6 DEF SendChunk
  <2> QED
    BY <1>1, <1>3, <2>1, DoomedCopy, DoomedGoto DEF Moving
<1>7. CASE JoinEncoder
  <2>1. task.pc = "joining encoder" /\ task.pc \notin {"called", "waiting", "returned"} \cup Moving
    BY <1>7 DEF JoinEncoder, At, Moving
  <2>2. PICK label \in {"waiting", "killing"} : Goto(label)
    BY <1>7 DEF JoinEncoder
  <2> QED
    BY <1>1, <1>3, <2>1, <2>2, DoomedGoto
<1>8. CASE Await
  <2>1. task' = [task EXCEPT !.pc = "killing", !.late = TRUE]
    BY <1>2, <1>8 DEF Await
  <2>2. task'.late /\ task'.result = task.result
    BY <1>1, <2>1 DEF TypeOK, Task
  <2> QED
    BY <1>3, <2>2 DEF Doomed
<1>9. CASE Kill
  <2>1. task.pc \notin {"called", "waiting", "returned"} \cup Moving /\ Goto("removing")
    BY <1>9 DEF Kill, At, Moving
  <2> QED
    BY <1>1, <1>3, <2>1, DoomedGoto
<1>10. CASE Remove
  <2>1. task.pc \notin {"called", "waiting", "returned"} \cup Moving /\ Goto("draining")
    BY <1>10 DEF Remove, At, Moving
  <2> QED
    BY <1>1, <1>3, <2>1, DoomedGoto
<1>11. CASE JoinDrain
  <2>1. task.pc = "draining" /\ task.pc \notin {"called", "waiting", "returned"} \cup Moving
    BY <1>11 DEF JoinDrain, At, Moving
  <2>2. task.late \/ task.copied \in {"interrupted", "stopped", "failed"}
    BY <2>1 DEF Doomed
  <2>3. CASE Dumps
    <3>1. DumpResult \in {"encode", "interrupted", "stopped", "read"}
      BY <2>2 DEF DumpResult
    <3>2. Return(DumpResult)
      BY <1>11, <2>3 DEF JoinDrain, Dumps, Loads, Imports
    <3> QED
      BY <1>1, <1>3, <3>1, <3>2, DoomedReturn
  <2>4. CASE Loads
    <3>1. Goto("joining decoder")
      BY <1>11, <2>4 DEF JoinDrain, Dumps, Loads, Imports
    <3> QED
      BY <1>1, <1>3, <2>1, <3>1, DoomedGoto
  <2>5. CASE ~Dumps /\ ~Loads
    <3>1. call.op = "statement"
      BY <1>1, <2>5, FieldTypes DEF Dumps, Loads, Imports
    <3>2. task.copied = "open"
      BY <1>1, <2>1, <3>1, StartedFacts
    <3>3. StatementResult = "interrupted"
      BY <2>2, <3>2 DEF StatementResult
    <3>4. Return(StatementResult)
      BY <1>11, <2>5 DEF JoinDrain
    <3> QED
      BY <1>1, <1>3, <3>3, <3>4, DoomedReturn
  <2> QED
    BY <2>3, <2>4, <2>5
<1>12. CASE JoinDecoder
  <2>1. task.pc = "joining decoder" /\ task.pc \notin {"called", "waiting", "returned"} \cup Moving
    BY <1>12 DEF JoinDecoder, At, Moving
  <2>2. Loads /\ client.state # "none"
    BY <1>1, <2>1, StartedFacts
  <2>3. task.copied # "stopped"
    BY <1>1, <2>2, ImportFacts
  <2>4. task.late \/ task.copied \in {"interrupted", "failed"}
    BY <2>1, <2>3 DEF Doomed
  <2>5. ImportResult \in {"interrupted", "write"}
    BY <2>4 DEF ImportResult
  <2>6. Return(ImportResult)
    BY <1>12 DEF JoinDecoder
  <2> QED
    BY <1>1, <1>3, <2>5, <2>6, DoomedReturn
<1>13. ~ReadChunk /\ ~ReadEnds /\ ~ReceiveChunk /\ ~WriteChunk /\ ~CloseInput
  BY <1>2 DEF ReadChunk, ReadEnds, ReceiveChunk, WriteChunk, CloseInput
<1> QED
  BY <1>4, <1>5, <1>6, <1>7, <1>8, <1>9, <1>10, <1>11, <1>12, <1>13 DEF TaskStep

LEMMA DoomedNext ==
  ASSUME InductiveInvariant, Doomed, [Next]_vars
  PROVE  Doomed'
<1>1. CASE TaskStep
  BY <1>1, DoomedTask
<1>2. CASE Cancel
  BY <1>2 DEF Cancel, Doomed
<1>3. CASE task' = task /\ cancelled' = cancelled
  BY <1>3 DEF Doomed
<1>4. CASE ThreadStep \/ EncodeFails \/ DecodeFails
  BY <1>3, <1>4 DEF ThreadStep, Encode, Decode, EncodeFails, DecodeFails
<1>5. CASE ClientStep \/ ClientFails
  BY <1>3, <1>5 DEF ClientStep, Produce, Execute, Exit, WriteMessage, ClientFails
<1>6. CASE DrainStderr \/ Complain \/ Hang
  BY <1>3, <1>6 DEF DrainStderr, Complain, Hang
<1>7. CASE UNCHANGED vars
  BY <1>3, <1>7 DEF vars
<1> QED
  BY <1>1, <1>2, <1>4, <1>5, <1>6, <1>7 DEF Next, Finished

(* Ctrl+C while a run streams or waits is never answered with a success.   *)
THEOREM CancelHolds == Spec => CancelledIsNoSuccess
<1>1. InductiveInvariant /\ Doomed /\ [Next]_vars => Doomed'
  BY DoomedNext
<1>2. InductiveInvariant /\ cancelled /\ task.pc \in {"called", "waiting"} \cup Moving => Doomed
  <2> SUFFICES ASSUME InductiveInvariant, cancelled, task.pc \in {"called", "waiting"} \cup Moving
               PROVE  Doomed
    OBVIOUS
  <2>1. ~At("returned")
    BY DEF At, Moving
  <2>2. task.result # "ok"
    BY <2>1, Parts
  <2> QED
    BY <2>2 DEF Doomed
<1>3. Doomed => task.result # "ok"
  BY DEF Doomed
<1> QED
  BY <1>1, <1>2, <1>3, InvariantHolds, PTL DEF Spec, CancelledIsNoSuccess
=============================================================================
