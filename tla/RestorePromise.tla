--------------------------- MODULE RestorePromise ---------------------------
(***************************************************************************)
(* What restoring promises about a local database, with no files, clients  *)
(* or containers: one process at a time works on it, announces a dump      *)
(* before it touches the database, and says at the end that the database   *)
(* holds this dump only when it does.                                      *)
(***************************************************************************)
CONSTANTS
  Procs,    \* reprodb processes
  Targets,  \* local databases
  Dumps,    \* dumps a database may be made of
  NoDump

VARIABLES
  holder,   \* the process working on each database: a set of at most one
  working,  \* that process, once it announced what it restores
  said,     \* what was last said of each database, and of which dump
  holds,    \* the dump each database holds exactly: a set of at most one
  astray    \* a client nobody waits for changed the database after its DROP

vars == <<holder, working, said, holds, astray>>

Said(status, d) == [status |-> status, dump |-> d]

(* The databases may hold anything but a dump. *)
Init ==
  /\ holder = [t \in Targets |-> {}]
  /\ working = [t \in Targets |-> {}]
  /\ said = [t \in Targets |-> Said("none", NoDump)]
  /\ holds = [t \in Targets |-> {}]
  /\ astray = [t \in Targets |-> FALSE]

Begin(p, t) ==
  /\ holder[t] = {}
  /\ holder' = [holder EXCEPT ![t] = {p}]
  /\ UNCHANGED <<working, said, holds, astray>>

Leave(t) ==
  /\ holder' = [holder EXCEPT ![t] = {}]
  /\ working' = [working EXCEPT ![t] = {}]

(* The holder ends, at any moment and without a word. *)
End(p, t) ==
  /\ p \in holder[t]
  /\ Leave(t)
  /\ UNCHANGED <<said, holds, astray>>

(* Once only; that it was announced may be the last the holder does. *)
Announce(p, t, d) ==
  /\ p \in holder[t]
  /\ working[t] = {}
  /\ said' = [said EXCEPT ![t] = Said("incomplete", d)]
  /\ \/ working' = [working EXCEPT ![t] = {p}] /\ UNCHANGED holder
     \/ Leave(t)
  /\ UNCHANGED <<holds, astray>>

(* The database is dropped; what strayed into it is gone. *)
Drop(p, t) ==
  /\ p \in working[t]
  /\ holds' = [holds EXCEPT ![t] = {}]
  /\ astray' = [astray EXCEPT ![t] = FALSE]
  /\ UNCHANGED <<holder, working, said>>

(* Tables are made, none of a dump that was not announced. *)
Fill(p, t) ==
  /\ p \in working[t]
  /\ \E made \in SUBSET {said[t].dump} : holds' = [holds EXCEPT ![t] = made]
  /\ UNCHANGED <<holder, working, said, astray>>

Claim(p, t) ==
  /\ p \in working[t]
  /\ astray[t] \/ holds[t] = {said[t].dump}
  /\ said' = [said EXCEPT ![t].status = "ready"]
  /\ Leave(t)
  /\ UNCHANGED <<holds, astray>>

(* A client that outlived its process goes on: nothing is promised. *)
Stray(t) ==
  /\ \E d \in Dumps \cup {NoDump} : holds' = [holds EXCEPT ![t] = {d} \cap Dumps]
  /\ astray' = [astray EXCEPT ![t] = TRUE]
  /\ UNCHANGED <<holder, working, said>>

Next ==
  \E t \in Targets :
    \/ Stray(t)
    \/ \E p \in Procs :
         \/ Begin(p, t)
         \/ End(p, t)
         \/ \E d \in Dumps : Announce(p, t, d)
         \/ Drop(p, t)
         \/ Fill(p, t)
         \/ Claim(p, t)

Spec == Init /\ [][Next]_vars

(* What the steps of the promise come to: what is said last of a database  *)
(* is true, whoever ended without a word.                                  *)
Truthful ==
  \A t \in Targets :
    said[t].status = "ready" => astray[t] \/ holds[t] = {said[t].dump}
=============================================================================
