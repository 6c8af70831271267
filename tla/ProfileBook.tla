---------------------------- MODULE ProfileBook -----------------------------
(***************************************************************************)
(* What the configuration promises to the commands that change it, with no *)
(* files, locks, keys or processes: a book of names in which each command  *)
(* is one step on the book as it is, and a name and its credential appear  *)
(* and go together, until two savers overlap or a disk fails.              *)
(***************************************************************************)
CONSTANTS
  Profiles,    \* names of source profiles
  Containers,  \* names of local target containers
  NoName

VARIABLES
  profiles,  \* profiles that exist
  push,      \* those that may be pushed to
  active,    \* the one that commands are about
  targets,   \* local targets that exist
  default,   \* the one that commands are about
  usable,    \* names whose credential is stored
  sound      \* no save has overwritten an unseen book or failed half-way

names == <<profiles, push, active, targets, default>>
vars == <<names, usable, sound>>

Empty ==
  /\ profiles = {} /\ push = {} /\ active = NoName
  /\ targets = {} /\ default = NoName
  /\ usable = {}

Init == Empty /\ sound = TRUE

Add(n) ==
  /\ n \notin profiles
  /\ profiles' = profiles \cup {n}
  /\ active' = n
  /\ usable' = usable \cup {n}
  /\ UNCHANGED <<push, targets, default, sound>>

Use(n) ==
  /\ n \in profiles
  /\ active' = n
  /\ UNCHANGED <<profiles, push, targets, default, usable, sound>>

Allow(n) ==
  /\ n \in profiles
  /\ push' = push \cup {n}
  /\ UNCHANGED <<profiles, active, targets, default, usable, sound>>

Deny(n) ==
  /\ n \in profiles
  /\ push' = push \ {n}
  /\ UNCHANGED <<profiles, active, targets, default, usable, sound>>

Remove(n) ==
  /\ n \in profiles
  /\ profiles' = profiles \ {n}
  /\ push' = push \ {n}
  /\ active' = IF active = n THEN NoName ELSE active
  /\ usable' = usable \ {n}
  /\ UNCHANGED <<targets, default, sound>>

(* A new target, or a new credential of one that is there. *)
Setup(n) ==
  /\ targets' = targets \cup {n}
  /\ default' = n
  /\ usable' = usable \cup {n}
  /\ UNCHANGED <<profiles, push, active, sound>>

Reset == Empty' /\ UNCHANGED sound

(* The promise is off: the book is some book from now on. *)
Spoil ==
  /\ sound' = FALSE
  /\ profiles' \in SUBSET Profiles /\ push' \in SUBSET Profiles
  /\ active' \in Profiles \cup {NoName}
  /\ targets' \in SUBSET Containers /\ default' \in Containers \cup {NoName}
  /\ usable' \in SUBSET (Profiles \cup Containers)

Next ==
  \/ \E n \in Profiles :
       Add(n) \/ Use(n) \/ Allow(n) \/ Deny(n) \/ Remove(n)
  \/ \E n \in Containers : Setup(n)
  \/ Reset
  \/ Spoil

Spec == Init /\ [][Next]_vars

(* What the steps of the promise come to: every name in the book has its   *)
(* credential, and what the book refers to is in it.                       *)
Complete ==
  sound => /\ usable = profiles \cup targets
           /\ push \subseteq profiles
           /\ active # NoName => active \in profiles
           /\ default # NoName => default \in targets
=============================================================================
