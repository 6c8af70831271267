--------------------------- MODULE MCCommandLine ---------------------------
(* The command lines, the worlds and the changes of CommandLine_one.cfg.   *)
EXTENDS CommandLine

Line(name, flags, tty) == [name |-> name, flags |-> flags, tty |-> tty]
On(name, flags) == Line(name, flags, Terminal)
Piped(name, flags) == Line(name, flags, {"in", "out"})   \* 2> log
Scripted(name, flags) == Line(name, flags, {})

Doctor == On("doctor", {})

(* The commands, with the options that change their way. *)
Commands ==
  {On("preview", {}), On("list", {}), On("list", {"bad"}), On("dump", {}),
   On("dump", {"bad"}), On("restore", {"dump id"}), On("restore", {}),
   Piped("restore", {}), On("pull", {}), On("pull", {"named", "fresh"}),
   Piped("pull", {}), Scripted("pull", {}),
   On("push", {}), On("push", {"fresh"}),
   Scripted("push", {"yes"}), Scripted("push", {"yes", "profile", "fresh"}),
   Scripted("push", {"yes", "profile", "dump id"}),
   Scripted("push", {"yes", "profile", "dump id", "downgrade"}),
   On("remove", {}), Scripted("remove", {}), Scripted("remove", {"yes"}),
   On("prune", {}), Scripted("prune", {}), Scripted("prune", {"yes"})}

Repairs ==
  {On("setup", {}), On("setup", {"reset"}), Piped("setup", {}),
   Scripted("setup", {"non-interactive"}),
   Scripted("setup", {"non-interactive", "complete"}),
   Scripted("setup", {"non-interactive", "complete", "yes", "reset"}),
   On("add", {}), On("add", {"taken"}), Piped("add", {}),
   Scripted("add", {"non-interactive"}),
   Scripted("add", {"non-interactive", "complete"})}

(* Doctor before a command, and after what it advises. *)
MCScripts ==
  {<<Doctor, c>> : c \in Commands} \cup {<<r, Doctor>> : r \in Repairs}

MCTraits ==
  {{}, {<<"source", "production">>, <<"target", "second">>},
   {<<"source", "8.0">>, <<"source", "TLS optional">>},
   {<<"source", "8.0">>, <<"target", "8.0">>},
   {<<"target", "8.0">>, <<"destination", "8.0">>}}

MCChanging ==
  {<<"source", "unreachable">>, <<"source", "no key">>, <<"target", "stopped">>,
   <<"docker", "down">>, <<"cache", "locked">>, <<"config", "unreadable">>,
   <<"disk", "no temporary file">>, <<"source", "rejects">>,
   <<"docker", "other context">>, <<"8.4", "missing">>}

(* One command, in a world with one fault that the table of exit codes     *)
(* names: at the source or of Docker, of the configuration, of a push.     *)
MCSingle == {<<c>> : c \in Commands \cup Repairs}
MCConnection == {<<"source", "rejects">>, <<"docker", "down">>}
MCSetting == {<<"target", "none">>, <<"docker", "other context">>}
MCRefusal == {<<"destination", "never allowed">>}
MCNoChanges == {}
=============================================================================
