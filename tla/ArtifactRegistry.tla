------------------------- MODULE ArtifactRegistry -------------------------
(***************************************************************************)
(* What the local cache promises about its dump artifacts, with no         *)
(* directory names, lock files or cleaners: a dump is written by one       *)
(* process, becomes available at once and whole, is retired at most once,  *)
(* and neither its writer nor a reader ever loses it.                      *)
(***************************************************************************)
CONSTANTS
  Dumps,   \* dump identifiers, each used for one dump only
  Procs    \* reprodb processes

VARIABLES
  status,  \* stage of life of each dump
  writer,  \* the process writing each dump: a set of at most one
  readers  \* the processes using each dump

vars == <<status, writer, readers>>

Status == {"absent", "staging", "available", "retired"}

Init ==
  /\ status = [d \in Dumps |-> "absent"]
  /\ writer = [d \in Dumps |-> {}]
  /\ readers = [d \in Dumps |-> {}]

Stage(d) ==
  /\ status[d] = "absent"
  /\ status' = [status EXCEPT ![d] = "staging"]
  /\ UNCHANGED <<writer, readers>>

StartWriting(p, d) ==
  /\ status[d] = "staging"
  /\ writer[d] = {}
  /\ writer' = [writer EXCEPT ![d] = {p}]
  /\ UNCHANGED <<status, readers>>

(* The writer fails, or its process dies: the dump stays a staging. *)
StopWriting(p, d) ==
  /\ p \in writer[d]
  /\ writer' = [writer EXCEPT ![d] = {}]
  /\ UNCHANGED <<status, readers>>

Publish(p, d) ==
  /\ p \in writer[d]
  /\ status[d] = "staging"
  /\ status' = [status EXCEPT ![d] = "available"]
  /\ writer' = [writer EXCEPT ![d] = {}]
  /\ UNCHANGED readers

Acquire(p, d) ==
  /\ status[d] = "available"
  /\ readers' = [readers EXCEPT ![d] = @ \cup {p}]
  /\ UNCHANGED <<status, writer>>

Release(p, d) ==
  /\ p \in readers[d]
  /\ readers' = [readers EXCEPT ![d] = @ \ {p}]
  /\ UNCHANGED <<status, writer>>

(* A staging nobody writes, or an available dump nobody reads, goes. *)
Retire(d) ==
  /\ status[d] \in {"staging", "available"}
  /\ writer[d] = {}
  /\ readers[d] = {}
  /\ status' = [status EXCEPT ![d] = "retired"]
  /\ UNCHANGED <<writer, readers>>

Next ==
  \E d \in Dumps :
    \/ Stage(d)
    \/ Retire(d)
    \/ \E p \in Procs :
         \/ StartWriting(p, d)
         \/ StopWriting(p, d)
         \/ Publish(p, d)
         \/ Acquire(p, d)
         \/ Release(p, d)

Spec == Init /\ [][Next]_vars

(* What the steps of the promise come to: whoever reads a dump has one     *)
(* that is available, and whoever writes one has a staging of its own.     *)
Kept ==
  \A d \in Dumps :
    /\ readers[d] # {} => status[d] = "available"
    /\ writer[d] # {} => status[d] = "staging"
    /\ \A p, q \in writer[d] : p = q
=============================================================================
