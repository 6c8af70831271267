---------------------------- MODULE CommandProofs ----------------------------
(***************************************************************************)
(* Theorems about Doctor and CommandLine for any scripts, any faults at    *)
(* once and any number of changes and interrupts: nothing destructive      *)
(* starts after Ctrl+C; doctor changes nothing, skips no check without a   *)
(* reason and reports exactly what is there; a usage error costs nothing;  *)
(* what was repaired stays so; what doctor finds in order the commands     *)
(* find in order, and what it reports a pull runs into; the variables keep *)
(* their types.                                                            *)
(***************************************************************************)
EXTENDS CommandLine, TLAPS, SequenceTheorems

Fields == {"pc", "line", "why", "done", "steady", "interrupted"}

(* What the proofs need of the type of a run.                              *)
IsRun == run = [f \in Fields |-> run[f]]

(* A step that starts nothing destructive.                                 *)
Gentle ==
  /\ IsRun'
  /\ run'.line = run.line /\ run'.interrupted = run.interrupted
  /\ run'.steady = run.steady
  /\ run'.done \cap Destructive = run.done \cap Destructive

LEMMA EndIsGentle ==
  ASSUME IsRun, NEW why, End(why)
  PROVE  Gentle
  BY DEF IsRun, Fields, End, Gentle

LEMMA TryIsGentle ==
  ASSUME IsRun, NEW layer, NEW error, NEW next, Try(layer, error, next)
  PROVE  Gentle
<1>1. CASE error = "ok"
  BY <1>1 DEF IsRun, Fields, Try, Gentle
<1>2. CASE error # "ok"
  BY <1>2, EndIsGentle DEF Try
<1> QED
  BY <1>1, <1>2

LEMMA LoadingIsGentle ==
  ASSUME IsRun, NEW layer, NEW errors, NEW next, Loading(layer, errors, next)
  PROVE  Gentle
  BY TryIsGentle DEF Loading

LEMMA LookingIsGentle ==
  ASSUME IsRun, NEW layer, NEW errors, NEW next, Looking(layer, errors, next)
  PROVE  Gentle
  BY TryIsGentle DEF Looking

LEMMA LeaveIsGentle ==
  ASSUME IsRun, NEW effects, NEW next, Leave(effects, next), effects \cap Destructive = {}
  PROVE  Gentle
  BY DEF IsRun, Fields, Leave, Gentle

LEMMA FirstOfAll ==
  ASSUME NEW answers, 1 \in DOMAIN answers, DOMAIN answers \subseteq Nat \ {0},
         answers[1] # "ok"
  PROVE  First(answers) = answers[1]
<1> DEFINE failed == {i \in DOMAIN answers : answers[i] # "ok"}
<1>1. 1 \in failed /\ \A j \in failed : 1 <= j
  OBVIOUS
<1>2. (CHOOSE i \in failed : \A j \in failed : i <= j) = 1
  <2>1. \A i \in failed : (\A j \in failed : i <= j) => i = 1
    BY <1>1
  <2> HIDE DEF failed
  <2> QED
    BY <1>1, <2>1
<1> QED
  BY <1>1, <1>2 DEF First

(* A cancelled executor starts nothing.                                    *)
LEMMA ExecuteIsGentle ==
  ASSUME IsRun, run.interrupted, NEW layer, NEW part, NEW unavailable, NEW effect, NEW next,
         Execute(layer, Execution(part, unavailable), effect, next)
  PROVE  Gentle
<1>1. Execution(part, unavailable) = "Interrupted"
  BY FirstOfAll DEF Execution, When
<1>2. ~Begun("Interrupted")
  BY DEF Begun
<1>3. run' = [run EXCEPT !.pc = "ended", !.why = <<layer, "Interrupted">>, !.done = @ \cup {}]
  BY <1>1, <1>2 DEF Execute
<1> QED
  BY <1>3 DEF IsRun, Fields, Gentle

LEMMA CommandsGentle ==
  ASSUME IsRun,
         \/ ListDatabases \/ ReadDatabases
         \/ CreateDump \/ Assess \/ Export \/ Publish
         \/ ChooseDump \/ ValidateDump \/ LoadTarget \/ AttestTarget \/ StartRestore
         \/ SelectTarget \/ LookUp \/ SelectDatabase
  PROVE  Gentle
<1>1. CASE ListDatabases
  BY <1>1, LoadingIsGentle DEF ListDatabases
<1>2. CASE ReadDatabases
  BY <1>2, LookingIsGentle DEF ReadDatabases
<1>3. CASE CreateDump
  BY <1>3, LoadingIsGentle DEF CreateDump
<1>4. CASE Assess
  BY <1>4, LookingIsGentle DEF Assess
<1>5. CASE Export
  BY <1>5, LookingIsGentle DEF Export
<1>6. CASE Publish
  <2>1. {"dump created"} \cap Destructive = {}
    BY DEF Destructive
  <2> QED
    BY <1>6, <2>1, LeaveIsGentle DEF Publish
<1>7. CASE ChooseDump \/ ValidateDump \/ AttestTarget \/ StartRestore
  BY <1>7, LookingIsGentle DEF ChooseDump, ValidateDump, AttestTarget, StartRestore
<1>8. CASE LoadTarget \/ SelectTarget
  BY <1>8, LoadingIsGentle DEF LoadTarget, SelectTarget
<1>9. CASE LookUp
  BY <1>9, LookingIsGentle DEF LookUp
<1>10. CASE SelectDatabase
  BY <1>10, LookingIsGentle DEF SelectDatabase
<1> QED
  BY <1>1, <1>2, <1>3, <1>4, <1>5, <1>6, <1>7, <1>8, <1>9, <1>10

LEMMA PushGentle ==
  ASSUME IsRun,
         \/ ChooseDestination \/ AskConsent \/ VerifyDestination \/ ChoosePushDump
         \/ ValidatePushDump \/ AskDowngrade \/ ConfirmPush \/ LockDestination
  PROVE  Gentle
<1>1. CASE ChooseDestination
  BY <1>1, EndIsGentle, TryIsGentle DEF ChooseDestination
<1>2. CASE AskConsent
  BY <1>2, LookingIsGentle DEF AskConsent
<1>3. CASE VerifyDestination
  BY <1>3, EndIsGentle, TryIsGentle DEF VerifyDestination
<1>4. CASE ChoosePushDump
  BY <1>4, LookingIsGentle DEF ChoosePushDump
<1>5. CASE ValidatePushDump \/ LockDestination
  BY <1>5, LookingIsGentle DEF ValidatePushDump, LockDestination
<1>6. CASE AskDowngrade
  BY <1>6, EndIsGentle, TryIsGentle DEF AskDowngrade
<1>7. CASE ConfirmPush
  <2>1. {"push allowed"} \cap Destructive = {}
    BY DEF Destructive
  <2>2. CASE Looking("push", <<When(~Interactive, "Unavailable")>>, "ended")
    BY <2>2, LookingIsGentle
  <2>3. CASE Leave({"push allowed"}, "lock")
    BY <2>1, <2>3, LeaveIsGentle
  <2>4. CASE End(<<"remote target", Load>>)
    BY <2>4, EndIsGentle
  <2>5. CASE run' = [run EXCEPT !.pc = "lock"]
    BY <2>5 DEF IsRun, Fields, Gentle
  <2> QED
    BY <1>7, <2>2, <2>3, <2>4, <2>5 DEF ConfirmPush
<1> QED
  BY <1>1, <1>2, <1>3, <1>4, <1>5, <1>6, <1>7

LEMMA RepairsGentle ==
  ASSUME IsRun,
         \/ ResetConfiguration \/ DiscoverTargets \/ StartContainer \/ ReplaceTarget
         \/ ConfigureTarget \/ NameAvailable \/ CollectProfile \/ AddProfile
         \/ AskRemoval \/ RemoveProfile \/ PlanPrune \/ AgreePrune \/ ExecutePrune
  PROVE  Gentle
<1> DEFINE mild == {"configuration reset", "container started", "image pulled",
                    "target saved", "profile saved", "profile removed", "dumps pruned"}
<1>1. mild \cap Destructive = {}
  BY DEF Destructive
<1>2. ASSUME NEW why, NEW effects, effects \subseteq mild,
             run' = [run EXCEPT !.pc = "ended", !.why = why, !.done = @ \cup effects]
      PROVE  Gentle
  BY <1>1, <1>2 DEF IsRun, Fields, Gentle
<1>3. ASSUME NEW effect \in mild, NEW next, Leave({effect}, next)
      PROVE  Gentle
  <2>1. {effect} \cap Destructive = {}
    BY <1>1, <1>3
  <2> QED
    BY <1>3, <2>1, LeaveIsGentle
<1>4. CASE ResetConfiguration
  BY <1>3, <1>4 DEF ResetConfiguration
<1>5. CASE DiscoverTargets
  BY <1>5, LookingIsGentle DEF DiscoverTargets
<1>6. CASE StartContainer
  BY <1>3, <1>6, LookingIsGentle DEF StartContainer
<1>7. CASE ReplaceTarget
  BY <1>7, EndIsGentle, TryIsGentle DEF ReplaceTarget
<1>8. CASE ConfigureTarget
  <2>1. \E e, pulled :
          run' = [run EXCEPT
                    !.pc = "ended",
                    !.why = IF e = "ok" THEN Ok ELSE <<"setup", e>>,
                    !.done = @ \cup (IF pulled = {} THEN {} ELSE {"image pulled"})
                               \cup (IF e = "ok" THEN {"target saved"} ELSE {})]
    BY <1>8, ZenonT(60) DEF ConfigureTarget
  <2>2. \E why, one, two :
          /\ run' = [run EXCEPT !.pc = "ended", !.why = why, !.done = @ \cup one \cup two]
          /\ one \subseteq mild /\ two \subseteq mild
    <3>1. PICK e, pulled :
            run' = [run EXCEPT
                      !.pc = "ended",
                      !.why = IF e = "ok" THEN Ok ELSE <<"setup", e>>,
                      !.done = @ \cup (IF pulled = {} THEN {} ELSE {"image pulled"})
                                 \cup (IF e = "ok" THEN {"target saved"} ELSE {})]
      BY <2>1
    <3> DEFINE why == IF e = "ok" THEN Ok ELSE <<"setup", e>>
               one == IF pulled = {} THEN {} ELSE {"image pulled"}
               two == IF e = "ok" THEN {"target saved"} ELSE {}
    <3>2. run' = [run EXCEPT !.pc = "ended", !.why = why, !.done = @ \cup one \cup two]
      BY <3>1
    <3>3. one \subseteq mild /\ two \subseteq mild
      OBVIOUS
    <3> HIDE DEF why, one, two
    <3> QED
      BY <3>2, <3>3
  <2>3. \E why, effects :
          /\ run' = [run EXCEPT !.pc = "ended", !.why = why, !.done = @ \cup effects]
          /\ effects \subseteq mild
    <3>1. PICK why, one, two :
            /\ run' = [run EXCEPT !.pc = "ended", !.why = why, !.done = @ \cup one \cup two]
            /\ one \subseteq mild /\ two \subseteq mild
      BY <2>2
    <3>2. run.done \cup one \cup two = run.done \cup (one \cup two)
      OBVIOUS
    <3>3. one \cup two \subseteq mild
      BY <3>1
    <3> QED
      BY <3>1, <3>2, <3>3
  <2> QED
    BY <1>2, <2>3
<1>9. CASE NameAvailable
  BY <1>9, LoadingIsGentle DEF NameAvailable
<1>10. CASE CollectProfile
  BY <1>10, LookingIsGentle DEF CollectProfile
<1>11. CASE AddProfile
  <2>1. \E e, pulled :
          run' = [run EXCEPT
                    !.pc = "ended",
                    !.why = IF e = "ok" THEN Ok ELSE <<"profile", e>>,
                    !.done = @ \cup (IF pulled = {} THEN {} ELSE {"image pulled"})
                               \cup (IF e = "ok" THEN {"profile saved"} ELSE {})]
    BY <1>11, ZenonT(60) DEF AddProfile
  <2>2. \E why, one, two :
          /\ run' = [run EXCEPT !.pc = "ended", !.why = why, !.done = @ \cup one \cup two]
          /\ one \subseteq mild /\ two \subseteq mild
    <3>1. PICK e, pulled :
            run' = [run EXCEPT
                      !.pc = "ended",
                      !.why = IF e = "ok" THEN Ok ELSE <<"profile", e>>,
                      !.done = @ \cup (IF pulled = {} THEN {} ELSE {"image pulled"})
                                 \cup (IF e = "ok" THEN {"profile saved"} ELSE {})]
      BY <2>1
    <3> DEFINE why == IF e = "ok" THEN Ok ELSE <<"profile", e>>
               one == IF pulled = {} THEN {} ELSE {"image pulled"}
               two == IF e = "ok" THEN {"profile saved"} ELSE {}
    <3>2. run' = [run EXCEPT !.pc = "ended", !.why = why, !.done = @ \cup one \cup two]
      BY <3>1
    <3>3. one \subseteq mild /\ two \subseteq mild
      OBVIOUS
    <3> HIDE DEF why, one, two
    <3> QED
      BY <3>2, <3>3
  <2>3. \E why, effects :
          /\ run' = [run EXCEPT !.pc = "ended", !.why = why, !.done = @ \cup effects]
          /\ effects \subseteq mild
    <3>1. PICK why, one, two :
            /\ run' = [run EXCEPT !.pc = "ended", !.why = why, !.done = @ \cup one \cup two]
            /\ one \subseteq mild /\ two \subseteq mild
      BY <2>2
    <3>2. run.done \cup one \cup two = run.done \cup (one \cup two)
      OBVIOUS
    <3>3. one \cup two \subseteq mild
      BY <3>1
    <3> QED
      BY <3>1, <3>2, <3>3
  <2> QED
    BY <1>2, <2>3
<1>12. CASE AskRemoval
  BY <1>12, LookingIsGentle DEF AskRemoval
<1>13. CASE RemoveProfile
  BY <1>3, <1>13, EndIsGentle DEF RemoveProfile
<1>14. CASE PlanPrune
  BY <1>14, LookingIsGentle DEF PlanPrune
<1>15. CASE AgreePrune
  BY <1>15, LookingIsGentle DEF AgreePrune
<1>16. CASE ExecutePrune
  BY <1>3, <1>16 DEF ExecutePrune
<1> QED
  BY <1>4, <1>5, <1>6, <1>7, <1>8, <1>9, <1>10, <1>11, <1>12, <1>13, <1>14, <1>15, <1>16

(* The executors: what they start, they start before Ctrl+C.               *)
LEMMA ExecutorsGentle ==
  ASSUME IsRun, run.interrupted,
         RecreateDatabase \/ ImportDump \/ EnsureDatabase \/ ImportRemote
  PROVE  Gentle
  BY ExecuteIsGentle DEF RecreateDatabase, ImportDump, EnsureDatabase, ImportRemote

LEMMA DoctorGentle ==
  ASSUME IsRun, RunDoctor
  PROVE  Gentle
<1>1. \/ run' = run
      \/ \E why : run' = [run EXCEPT !.pc = "ended", !.why = why]
  BY DEF RunDoctor
<1> QED
  BY <1>1 DEF IsRun, Fields, Gentle

(* The rest of what a run may see.                                         *)
LEMMA OthersRun ==
  ASSUME IsRun, Start \/ CtrlC \/ Environment \/ UNCHANGED vars
  PROVE  /\ IsRun'
         /\ run.interrupted /\ run'.interrupted =>
              run'.done \cap Destructive = run.done \cap Destructive
<1>1. CASE Start
  <2>1. PICK line, pc, why :
          run' = [NoRun EXCEPT !.line = line, !.pc = pc, !.why = why]
    BY <1>1 DEF Start
  <2>2. IsRun' /\ run'.interrupted = FALSE
    BY <2>1 DEF NoRun, IsRun, Fields
  <2> QED
    BY <2>2
<1>2. CASE CtrlC
  BY <1>2 DEF CtrlC, IsRun, Fields
<1>3. CASE Environment
  BY <1>3 DEF Environment, IsRun, Fields
<1>4. CASE UNCHANGED vars
  BY <1>4 DEF vars, IsRun, Fields
<1> QED
  BY <1>1, <1>2, <1>3, <1>4

LEMMA StepsGentle ==
  ASSUME IsRun, [Next]_vars, run.interrupted
  PROVE  run'.interrupted => run'.done \cap Destructive = run.done \cap Destructive
<1>1. CASE Start \/ CtrlC \/ Environment \/ UNCHANGED vars
  BY <1>1, OthersRun
<1>2. CASE ~(Start \/ CtrlC \/ Environment \/ UNCHANGED vars)
  <2>1. Gentle
    BY <1>2, CommandsGentle, PushGentle, RepairsGentle, ExecutorsGentle, DoctorGentle DEF Next
  <2> QED
    BY <2>1 DEF Gentle
<1> QED
  BY <1>1, <1>2

LEMMA ExecuteIsRun ==
  ASSUME IsRun, NEW layer, NEW e, NEW effect, NEW next, Execute(layer, e, effect, next)
  PROVE  /\ IsRun' /\ run'.line = run.line /\ run'.interrupted = run.interrupted
         /\ run'.steady = run.steady
<1>1. CASE Leave({effect}, next)
  BY <1>1 DEF IsRun, Fields, Leave
<1>2. CASE \E partly : run' = [run EXCEPT !.pc = "ended", !.why = <<layer, e>>,
                                          !.done = @ \cup partly]
  BY <1>2 DEF IsRun, Fields
<1> QED
  BY <1>1, <1>2 DEF Execute

LEMMA NextIsRun ==
  ASSUME IsRun, [Next]_vars
  PROVE  /\ IsRun'
         /\ ~Start => run'.line = run.line
         /\ ~Start /\ ~CtrlC => run'.interrupted = run.interrupted
         /\ ~Start /\ ~Environment => run'.steady = run.steady
<1>1. CASE Start
  BY <1>1, OthersRun
<1>2. CASE CtrlC \/ Environment \/ UNCHANGED vars
  <2>1. IsRun'
    BY <1>2, OthersRun
  <2>2. /\ run'.line = run.line /\ (~CtrlC => run'.interrupted = run.interrupted)
        /\ ~Environment => run'.steady = run.steady
    BY <1>2 DEF CtrlC, Environment, vars, IsRun, Fields
  <2> QED
    BY <2>1, <2>2
<1>3. CASE RecreateDatabase \/ ImportDump \/ EnsureDatabase \/ ImportRemote
  BY <1>3, ExecuteIsRun DEF RecreateDatabase, ImportDump, EnsureDatabase, ImportRemote
<1>4. CASE ~(Start \/ CtrlC \/ Environment \/ UNCHANGED vars \/ RecreateDatabase
             \/ ImportDump \/ EnsureDatabase \/ ImportRemote)
  <2>1. Gentle
    BY <1>4, CommandsGentle, PushGentle, RepairsGentle, DoctorGentle DEF Next
  <2> QED
    BY <2>1 DEF Gentle
<1> QED
  BY <1>1, <1>2, <1>3, <1>4

(* Once Ctrl+C was pressed nothing destructive starts any more: every step *)
(* that could is an executor's, and those look at the cancellation first;  *)
(* every other step leaves what a run has done so far as it was, or adds   *)
(* something harmless.                                                     *)
THEOREM InterruptHolds == Spec => InterruptedStartsNothing
<1>1. Init => IsRun
  BY DEF Init, NoRun, IsRun, Fields
<1>2. IsRun /\ [Next]_vars => IsRun'
  BY NextIsRun
<1>3. IsRun /\ [Next]_vars
      => (run.interrupted /\ run'.interrupted
          => run'.done \cap Destructive = run.done \cap Destructive)
  BY StepsGentle
<1> QED
  BY <1>1, <1>2, <1>3, PTL DEF Spec, InterruptedStartsNothing

-----------------------------------------------------------------------------
(* A step of doctor leaves the world alone, but for what a load migrates.  *)
LEMMA DoctorStepIsHarmless ==
  ASSUME DoctorStep
  PROVE  world' \in {world, world \ {<<"config", "old schema">>}}
<1>1. CASE DoctorLoad
  BY <1>1 DEF DoctorLoad, Migrations
<1>2. CASE DoctorCredentials \/ DoctorInspect \/ DoctorSource \/ DoctorTarget
  BY <1>2 DEF DoctorCredentials, DoctorInspect, DoctorSource, DoctorTarget
<1> QED
  BY <1>1, <1>2 DEF DoctorStep

(* While doctor runs every other step is one of the world, or Ctrl+C.      *)
LEMMA DoctorRunsAlone ==
  ASSUME run.pc = "doctor", [Next]_vars
  PROVE  RunDoctor \/ CtrlC \/ Environment \/ UNCHANGED vars
<1>1. ~Start
  BY DEF Start
<1>2. ~(\/ ListDatabases \/ ReadDatabases \/ CreateDump \/ Assess \/ Export \/ Publish
        \/ ChooseDump \/ ValidateDump \/ LoadTarget \/ AttestTarget)
  BY DEF ListDatabases, ReadDatabases, CreateDump, Assess, Export, Publish, ChooseDump,
         ValidateDump, LoadTarget, AttestTarget, Running
<1>3. ~(\/ StartRestore \/ RecreateDatabase \/ ImportDump
        \/ SelectTarget \/ LookUp \/ SelectDatabase)
  BY DEF StartRestore, RecreateDatabase, ImportDump, SelectTarget, LookUp, SelectDatabase,
         Running
<1>4. ~(\/ ChooseDestination \/ AskConsent \/ VerifyDestination \/ ChoosePushDump
        \/ ValidatePushDump \/ AskDowngrade \/ ConfirmPush \/ LockDestination
        \/ EnsureDatabase \/ ImportRemote)
  BY DEF ChooseDestination, AskConsent, VerifyDestination, ChoosePushDump,
         ValidatePushDump, AskDowngrade, ConfirmPush, LockDestination, EnsureDatabase,
         ImportRemote, Running
<1>5. ~(\/ ResetConfiguration \/ DiscoverTargets \/ StartContainer \/ ReplaceTarget
        \/ ConfigureTarget \/ NameAvailable \/ CollectProfile \/ AddProfile
        \/ AskRemoval \/ RemoveProfile \/ PlanPrune \/ AgreePrune \/ ExecutePrune)
  BY DEF ResetConfiguration, DiscoverTargets, StartContainer, ReplaceTarget,
         ConfigureTarget, NameAvailable, CollectProfile, AddProfile, AskRemoval,
         RemoveProfile, PlanPrune, AgreePrune, ExecutePrune, Running
<1> QED
  BY <1>1, <1>2, <1>3, <1>4, <1>5 DEF Next

(* The commands make no check of doctor, and are no change of the world.   *)
LEMMA CommandsLeaveDoctor ==
  ASSUME [Next]_vars, ~RunDoctor, ~Start, ~Environment
  PROVE  /\ changes' = changes
         /\ doctor' = doctor \/ doctor' = [doctor EXCEPT !.steady = FALSE]
<1>1. CASE CtrlC \/ UNCHANGED vars
  BY <1>1 DEF CtrlC, vars
<1>2. CASE \/ ListDatabases \/ ReadDatabases \/ CreateDump \/ Assess \/ Export \/ Publish
           \/ ChooseDump \/ ValidateDump \/ LoadTarget \/ AttestTarget
  BY <1>2 DEF ListDatabases, ReadDatabases, CreateDump, Assess, Export, Publish,
              ChooseDump, ValidateDump, LoadTarget, AttestTarget, Looking, Loading, Quietly
<1>3. CASE \/ StartRestore \/ RecreateDatabase \/ ImportDump
           \/ SelectTarget \/ LookUp \/ SelectDatabase
  BY <1>3 DEF StartRestore, RecreateDatabase, ImportDump, SelectTarget, LookUp,
              SelectDatabase, Looking, Loading, Execute, Quietly
<1>4. CASE \/ ChooseDestination \/ AskConsent \/ VerifyDestination \/ ChoosePushDump
           \/ ValidatePushDump \/ AskDowngrade \/ ConfirmPush \/ LockDestination
           \/ EnsureDatabase \/ ImportRemote
  BY <1>4 DEF ChooseDestination, AskConsent, VerifyDestination, ChoosePushDump,
              ValidatePushDump, AskDowngrade, ConfirmPush, LockDestination,
              EnsureDatabase, ImportRemote, Looking, Loading, Execute, Quietly
<1>5. CASE \/ ResetConfiguration \/ DiscoverTargets \/ StartContainer \/ ReplaceTarget
           \/ ConfigureTarget \/ NameAvailable \/ CollectProfile \/ AddProfile
           \/ AskRemoval \/ RemoveProfile \/ PlanPrune \/ AgreePrune \/ ExecutePrune
  BY <1>5 DEF ResetConfiguration, DiscoverTargets, StartContainer, ReplaceTarget,
              ConfigureTarget, NameAvailable, CollectProfile, AddProfile, AskRemoval,
              RemoveProfile, PlanPrune, AgreePrune, ExecutePrune, Looking, Loading, Quietly
<1> QED
  BY <1>1, <1>2, <1>3, <1>4, <1>5 DEF Next

LEMMA OthersCountNothing ==
  ASSUME [Next]_vars, ~Environment
  PROVE  changes' = changes
<1>1. CASE Start
  BY <1>1 DEF Start
<1>2. CASE RunDoctor
  BY <1>2 DEF RunDoctor, DoctorStep, DoctorLoad, DoctorCredentials, DoctorInspect,
              DoctorSource, DoctorTarget
<1> QED
  BY <1>1, <1>2, CommandsLeaveDoctor

(* Doctor repairs nothing: of the steps while it runs only a change of the *)
(* world from outside, which is counted, or its own load touches the       *)
(* world.                                                                  *)
THEOREM DoctorHolds == Spec => DoctorRepairsNothing
<1> DEFINE Counted == changes \in Nat
           Harmless1 == run.pc = "doctor" /\ changes' = changes
                        => world' \in {world, world \ {<<"config", "old schema">>}}
<1>1. Init => Counted
  BY DEF Init
<1>2. Counted /\ [Next]_vars => Counted'
  <2> SUFFICES ASSUME Counted, [Next]_vars
               PROVE  changes' \in Nat
    OBVIOUS
  <2>1. CASE Environment
    BY <2>1 DEF Environment, Change
  <2>2. CASE ~Environment
    BY <2>2, OthersCountNothing
  <2> QED
    BY <2>1, <2>2
<1>3. \A n \in Nat : n + 1 # n
  OBVIOUS
<1>4. Counted /\ [Next]_vars => Harmless1
  <2> SUFFICES ASSUME Counted, [Next]_vars, run.pc = "doctor", changes' = changes
               PROVE  world' \in {world, world \ {<<"config", "old schema">>}}
    OBVIOUS
  <2>1. CASE RunDoctor
    BY <2>1, DoctorStepIsHarmless DEF RunDoctor
  <2>2. CASE CtrlC
    BY <2>2 DEF CtrlC
  <2>3. CASE Environment
    <3>1. changes' = changes + 1
      BY <2>3 DEF Environment, Change
    <3> QED
      BY <3>1, <1>3
  <2>4. CASE UNCHANGED vars
    BY <2>4 DEF vars
  <2> QED
    BY <2>1, <2>2, <2>3, <2>4, DoctorRunsAlone
<1> QED
  BY <1>1, <1>2, <1>4, PTL DEF Spec, DoctorRepairsNothing

-----------------------------------------------------------------------------
(* What doctor has found out, check by check: by the time a check looks at *)
(* one that it needs, that one has passed, failed, or was itself skipped   *)
(* for a check that failed.                                                *)
IsDoctor ==
  /\ doctor = [f \in {"pc", "view", "report", "steady"} |-> doctor[f]]
  /\ doctor.report = [l \in Labels |-> doctor.report[l]]

Given(label, statuses) == doctor.report[label] \in statuses

Loaded ==
  /\ ~Given("configuration", {"skipped"}) /\ ~Given("cache filesystem", {"skipped"})
  /\ Given("active profile", {"passed", "Configuration"})
  /\ Given("local target configuration", {"passed", "Configuration"})
  /\ Passed("local target configuration") => ~Unreadable(doctor.view)

Resolved ==
  /\ Given("source credential", {"skipped", "passed", "Credential"})
  /\ Given("target credential", {"skipped", "passed", "Credential"})
  /\ Given("source credential", {"skipped"}) => Given("active profile", {"Configuration"})
  /\ Given("target credential", {"skipped"}) =>
       Given("local target configuration", {"Configuration"})

DockerKnown ==
  /\ Given("Docker", {"passed", "Docker"})
  /\ Given("Docker context identity", {"none", "Docker"})
  /\ Given("target container identity", {"none", "skipped", "passed", "Docker"})
  /\ Given("target container identity", {"none"}) =>
       Given("local target configuration", {"Configuration"})
  /\ Given("target container identity", {"skipped"}) =>
       Given("Docker", {"Docker"}) \/ Given("Docker context identity", {"Docker"})

SourceKnown ==
  /\ ~Given("source TLS", {"skipped"})
  /\ Given("source connection", {"none"}) => Given("source TLS", {"SourceConnection"})
  /\ Given("source connection", {"skipped"}) =>
       \/ Given("active profile", {"Configuration"})
       \/ Given("source credential", {"Credential"})
       \/ Given("Docker", {"Docker"}) \/ Given("Docker context identity", {"Docker"})

TargetKnown ==
  /\ ~Given("target connection", {"none"})
  /\ Given("target connection", {"skipped"}) =>
       \/ Given("local target configuration", {"Configuration"})
       \/ Given("target credential", {"Credential"})
       \/ Given("Docker", {"Docker"}) \/ Given("Docker context identity", {"Docker"})
       \/ Given("target container identity", {"Docker"})

(* The checks still to come are not in the report.                         *)
ToCome(labels) == \A l \in labels : doctor.report[l] = "none"

OfTarget == {"target connection"}
OfSource == {"source connection", "source TLS"} \cup OfTarget
OfDocker == {"Docker", "Docker context identity", "target container identity"} \cup OfSource
OfCredentials == {"source credential", "target credential"} \cup OfDocker

DoctorInvariant ==
  /\ IsDoctor
  /\ doctor.pc \in {"idle", "load"} => ToCome(Labels)
  /\ doctor.pc = "credentials" => Loaded /\ ToCome(OfCredentials)
  /\ doctor.pc = "inspect" => Loaded /\ Resolved /\ ToCome(OfDocker)
  /\ doctor.pc = "source" => Loaded /\ Resolved /\ DockerKnown /\ ToCome(OfSource)
  /\ doctor.pc = "target" =>
       Loaded /\ Resolved /\ DockerKnown /\ SourceKnown /\ ToCome(OfTarget)
  /\ doctor.pc = "done" =>
       Loaded /\ Resolved /\ DockerKnown /\ SourceKnown /\ TargetKnown
  /\ doctor.pc \in {"idle", "load", "credentials", "inspect", "source", "target", "done"}

LEMMA LabelsAre ==
  /\ {"configuration", "cache filesystem", "Docker", "Docker context identity",
       "active profile", "source credential"} \subseteq Labels
  /\ {"source connection", "source TLS", "local target configuration",
       "target credential", "target container identity", "target connection"}
       \subseteq Labels
<1>1. DOMAIN Order = 1 .. 12
  BY DEF Order
<1>2. \A i \in 1 .. 12 : Order[i] \in Labels
  BY <1>1 DEF Labels
<1>3. /\ Order[1] \in Labels /\ Order[2] \in Labels /\ Order[3] \in Labels
      /\ Order[4] \in Labels /\ Order[5] \in Labels /\ Order[6] \in Labels
      /\ Order[7] \in Labels /\ Order[8] \in Labels /\ Order[9] \in Labels
      /\ Order[10] \in Labels /\ Order[11] \in Labels /\ Order[12] \in Labels
  BY <1>2
<1> QED
  BY <1>3 DEF Order

LEMMA LabelsAreAll ==
  ASSUME NEW l \in Labels
  PROVE  \/ l \in {"configuration", "cache filesystem", "Docker", "Docker context identity",
                   "active profile", "source TLS", "local target configuration"}
         \/ l \in {"source credential", "target credential", "source connection",
                   "target container identity", "target connection"}
<1>1. DOMAIN Order = 1 .. 12
  BY DEF Order
<1>2. PICK i \in 1 .. 12 : l = Order[i]
  BY <1>1 DEF Labels
<1>3. \/ i = 1 \/ i = 2 \/ i = 3 \/ i = 4 \/ i = 5 \/ i = 6
      \/ i = 7 \/ i = 8 \/ i = 9 \/ i = 10 \/ i = 11 \/ i = 12
  BY <1>2
<1>4. /\ Order[1] = "configuration" /\ Order[2] = "cache filesystem"
      /\ Order[3] = "Docker" /\ Order[4] = "Docker context identity"
      /\ Order[5] = "active profile" /\ Order[6] = "source credential"
      /\ Order[7] = "source connection" /\ Order[8] = "source TLS"
      /\ Order[9] = "local target configuration" /\ Order[10] = "target credential"
      /\ Order[11] = "target container identity" /\ Order[12] = "target connection"
  BY DEF Order
<1> QED
  BY <1>2, <1>3, <1>4, Zenon

(* A check that is reported leaves those before it as they were.           *)
LEMMA Reports ==
  ASSUME IsDoctor, NEW pc, NEW label \in Labels, NEW status, Report(pc, label, status)
  PROVE  /\ IsDoctor'
         /\ doctor'.pc = pc /\ doctor'.view = doctor.view
         /\ doctor'.report[label] = status
         /\ \A l \in Labels \ {label} : doctor'.report[l] = doctor.report[l]
<1>1. PICK report : report = [doctor.report EXCEPT ![label] = status]
  OBVIOUS
<1>2. doctor' = [doctor EXCEPT !.pc = pc, !.report = report]
  BY <1>1 DEF Report
<1>3. report = [l \in Labels |-> report[l]]
  BY <1>1 DEF IsDoctor
<1>4. report[label] = status /\ \A l \in Labels \ {label} : report[l] = doctor.report[l]
  BY <1>1 DEF IsDoctor
<1>5. doctor'.pc = pc /\ doctor'.view = doctor.view /\ doctor'.report = report /\ IsDoctor'
  BY <1>2, <1>3 DEF IsDoctor
<1> QED
  BY <1>4, <1>5

LEMMA LoadKnows ==
  ASSUME IsDoctor, DoctorLoad
  PROVE  DoctorInvariant'
<1> DEFINE read == ~Unreadable(world)
           first == IF ~read THEN "Configuration" ELSE IF Empty(world) THEN "warning"
                    ELSE "passed"
           second == IF Bad(world, "disk", "low") THEN "Filesystem" ELSE "passed"
           third == IF read /\ HasProfile(world) THEN "passed" ELSE "Configuration"
           fourth == IF read /\ HasTarget(world) THEN "passed" ELSE "Configuration"
<1>1. PICK report : report = [NoReport EXCEPT !["configuration"] = first,
                                               !["cache filesystem"] = second,
                                               !["active profile"] = third,
                                               !["local target configuration"] = fourth]
  OBVIOUS
<1>2. doctor' = [doctor EXCEPT !.pc = "credentials", !.view = world', !.report = report]
  BY <1>1 DEF DoctorLoad
<1>3. /\ report = [l \in Labels |-> report[l]]
      /\ report["configuration"] = first /\ report["cache filesystem"] = second
      /\ report["active profile"] = third /\ report["local target configuration"] = fourth
      /\ \A l \in OfCredentials : report[l] = "none"
  <2>1. OfCredentials \subseteq
          Labels \ {"configuration", "cache filesystem", "active profile",
                    "local target configuration"}
    BY LabelsAre DEF OfCredentials, OfDocker, OfSource, OfTarget
  <2> HIDE DEF first, second, third, fourth
  <2> QED
    BY <1>1, <2>1, LabelsAre DEF NoReport
<1>4. /\ doctor'.pc = "credentials" /\ doctor'.view = world' /\ doctor'.report = report
      /\ IsDoctor'
  BY <1>2, <1>3 DEF IsDoctor
<1>5. Unreadable(world') <=> Unreadable(world)
  BY DEF DoctorLoad, Migrations, Unreadable, Bad
<1>6. Loaded'
  BY <1>3, <1>4, <1>5 DEF Loaded, Given, Passed
<1>7. ToCome(OfCredentials)'
  BY <1>3, <1>4 DEF ToCome
<1> QED
  BY <1>4, <1>6, <1>7 DEF DoctorInvariant

LEMMA CredentialsKnow ==
  ASSUME IsDoctor, Loaded, ToCome(OfCredentials), DoctorCredentials
  PROVE  DoctorInvariant'
<1> DEFINE source == Credential("active profile", "source")
           target == Credential("local target configuration", "target")
<1>1. PICK report : report = [doctor.report EXCEPT !["source credential"] = source,
                                                    !["target credential"] = target]
  OBVIOUS
<1>2. doctor' = [doctor EXCEPT !.pc = "inspect", !.report = report]
  BY <1>1 DEF DoctorCredentials
<1>3. /\ report = [l \in Labels |-> report[l]]
      /\ report["source credential"] = source /\ report["target credential"] = target
      /\ \A l \in Labels \ {"source credential", "target credential"} :
           report[l] = doctor.report[l]
  BY <1>1, LabelsAre DEF IsDoctor
<1>4. /\ doctor'.pc = "inspect" /\ doctor'.view = doctor.view /\ doctor'.report = report
      /\ IsDoctor'
  BY <1>2, <1>3 DEF IsDoctor
<1>5. Loaded'
  BY <1>3, <1>4, LabelsAre DEF Loaded, Given, Passed
<1>6. Resolved'
  BY <1>3, <1>4, LabelsAre DEF Loaded, Resolved, Given, Passed, Credential
<1>7. ToCome(OfDocker)'
  BY <1>3, <1>4, LabelsAre DEF ToCome, OfCredentials, OfDocker, OfSource, OfTarget
<1> QED
  BY <1>4, <1>5, <1>6, <1>7 DEF DoctorInvariant

LEMMA InspectKnows ==
  ASSUME IsDoctor, Loaded, Resolved, ToCome(OfDocker), DoctorInspect
  PROVE  DoctorInvariant'
<1> DEFINE mismatch == /\ ~Unreadable(doctor.view)
                       /\ Inspected(world)
                       /\ ~ContextMatches(doctor.view, world)
           docker == IF Inspected(world) THEN "passed" ELSE "Docker"
           context == IF mismatch THEN "Docker" ELSE "none"
           identity == Identity(world)
<1>1. PICK report : report = [doctor.report EXCEPT !["Docker"] = docker,
                                                    !["Docker context identity"] = context,
                                                    !["target container identity"] = identity]
  OBVIOUS
<1>2. doctor' = [doctor EXCEPT !.pc = "source", !.report = report]
  BY <1>1 DEF DoctorInspect
<1>3. /\ report = [l \in Labels |-> report[l]]
      /\ report["Docker"] = docker /\ report["Docker context identity"] = context
      /\ report["target container identity"] = identity
      /\ \A l \in Labels \ {"Docker", "Docker context identity",
                              "target container identity"} : report[l] = doctor.report[l]
  <2> HIDE DEF docker, context, identity
  <2> QED
    BY <1>1, LabelsAre DEF IsDoctor
<1>4. /\ doctor'.pc = "source" /\ doctor'.view = doctor.view /\ doctor'.report = report
      /\ IsDoctor'
  BY <1>2, <1>3 DEF IsDoctor
<1>5. Loaded'
  BY <1>3, <1>4, LabelsAre DEF Loaded, Given, Passed
<1>6. Resolved'
  BY <1>3, <1>4, LabelsAre DEF Resolved, Given
<1>7. DockerKnown'
  BY <1>3, <1>4, LabelsAre DEF Loaded, DockerKnown, Given, Passed, Identity, DockerReady
<1>8. ToCome(OfSource)'
  BY <1>3, <1>4, LabelsAre DEF ToCome, OfDocker, OfSource, OfTarget
<1> QED
  BY <1>4, <1>5, <1>6, <1>7, <1>8 DEF DoctorInvariant

(* The errors of a verifier have no kind but these.                        *)
LEMMA SourceFails ==
  ASSUME NEW w
  PROVE  SourceConnection(w) \notin {"skipped", "none"}
  BY DEF SourceConnection, SourceFailureKind

LEMMA TargetFails ==
  ASSUME NEW w
  PROVE  TargetConnection(w) \notin {"skipped", "none"}
  BY DEF TargetConnection, TargetFailureKind

LEMMA SourceKnows ==
  ASSUME IsDoctor, Loaded, Resolved, DockerKnown, ToCome(OfSource), DoctorSource
  PROVE  DoctorInvariant'
<1> DEFINE ready == /\ Passed("source credential")
                    /\ Passed("Docker")
                    /\ doctor.report["Docker context identity"] = "none"
<1>1. PICK label \in {"source connection", "source TLS"} : \E status :
        /\ Report("target", label, status)
        /\ label = "source connection" => status # "none" /\ (status = "skipped" => ~ready)
        /\ label = "source TLS" => status = "SourceConnection"
  <2>1. CASE ~ready
    <3>1. Report("target", "source connection", "skipped")
      BY <2>1 DEF DoctorSource
    <3> HIDE DEF ready
    <3>2. "skipped" # "none" /\ "source connection" # "source TLS"
      OBVIOUS
    <3> QED
      BY <2>1, <3>1, <3>2, Zenon
  <2>2. CASE ready
    <3>1. \/ Report("target", "source TLS", "SourceConnection")
          \/ Report("target", "source connection", SourceConnection(world))
      BY <2>2 DEF DoctorSource
    <3>2. CASE Report("target", "source TLS", "SourceConnection")
      <4>1. "source connection" # "source TLS"
        OBVIOUS
      <4> HIDE DEF ready
      <4> QED
        BY <3>2, <4>1, Zenon
    <3>3. CASE Report("target", "source connection", SourceConnection(world))
      <4> HIDE DEF ready
      <4>1. "source connection" # "source TLS"
        OBVIOUS
      <4>2. SourceConnection(world) # "skipped" /\ SourceConnection(world) # "none"
        BY SourceFails
      <4> QED
        BY <3>3, <4>1, <4>2, Zenon
    <3> QED
      BY <3>1, <3>2, <3>3
  <2> QED
    BY <2>1, <2>2
<1>2. PICK status :
        /\ Report("target", label, status)
        /\ label = "source connection" => status # "none" /\ (status = "skipped" => ~ready)
        /\ label = "source TLS" => status = "SourceConnection"
  BY <1>1
<1>3. /\ IsDoctor' /\ doctor'.pc = "target" /\ doctor'.view = doctor.view
      /\ doctor'.report[label] = status
      /\ \A l \in Labels \ {label} : doctor'.report[l] = doctor.report[l]
  BY <1>2, Reports, LabelsAre, ZenonT(60)
<1>4. Loaded'
  BY <1>3, LabelsAre DEF Loaded, Given, Passed
<1>5. Resolved'
  BY <1>3, LabelsAre DEF Resolved, Given
<1>6. DockerKnown'
  BY <1>3, LabelsAre DEF DockerKnown, Given
<1>7. ToCome(OfTarget)'
  BY <1>3, LabelsAre DEF ToCome, OfSource, OfTarget
<1>8. SourceKnown'
  <2>1. doctor.report["source connection"] = "none" /\ doctor.report["source TLS"] = "none"
    BY DEF ToCome, OfSource
  <2>2. ~ready => \/ doctor.report["active profile"] = "Configuration"
                  \/ doctor.report["source credential"] = "Credential"
                  \/ doctor.report["Docker"] = "Docker"
                  \/ doctor.report["Docker context identity"] = "Docker"
    BY DEF Resolved, DockerKnown, Given, Passed
  <2> QED
    BY <1>2, <1>3, <2>1, <2>2, LabelsAre DEF SourceKnown, Given
<1> QED
  BY <1>3, <1>4, <1>5, <1>6, <1>7, <1>8 DEF DoctorInvariant

LEMMA TargetKnows ==
  ASSUME IsDoctor, Loaded, Resolved, DockerKnown, SourceKnown, ToCome(OfTarget), DoctorTarget
  PROVE  DoctorInvariant'
<1> DEFINE ready == Passed("target credential") /\ Passed("target container identity")
<1>1. PICK status :
        /\ Report("done", "target connection", status)
        /\ status # "none" /\ (status = "skipped" => ~ready)
  <2>1. CASE ready
    <3>1. Report("done", "target connection", TargetConnection(world))
      BY <2>1 DEF DoctorTarget
    <3>2. TargetConnection(world) # "skipped" /\ TargetConnection(world) # "none"
      BY TargetFails
    <3> HIDE DEF ready
    <3> QED
      BY <3>1, <3>2
  <2>2. CASE ~ready
    <3>1. Report("done", "target connection", "skipped")
      BY <2>2 DEF DoctorTarget
    <3>2. "skipped" # "none"
      OBVIOUS
    <3> HIDE DEF ready
    <3> QED
      BY <2>2, <3>1, <3>2, Zenon
  <2> QED
    BY <2>1, <2>2
<1>2. /\ IsDoctor' /\ doctor'.pc = "done" /\ doctor'.view = doctor.view
      /\ doctor'.report["target connection"] = status
      /\ \A l \in Labels \ {"target connection"} : doctor'.report[l] = doctor.report[l]
  BY <1>1, Reports, LabelsAre
<1>3. Loaded'
  BY <1>2, LabelsAre DEF Loaded, Given, Passed
<1>4. Resolved'
  BY <1>2, LabelsAre DEF Resolved, Given
<1>5. DockerKnown'
  BY <1>2, LabelsAre DEF DockerKnown, Given
<1>6. SourceKnown'
  BY <1>2, LabelsAre DEF SourceKnown, Given
<1>7. TargetKnown'
  <2>1. ~ready => \/ doctor.report["local target configuration"] = "Configuration"
                  \/ doctor.report["target credential"] = "Credential"
                  \/ doctor.report["Docker"] = "Docker"
                  \/ doctor.report["Docker context identity"] = "Docker"
                  \/ doctor.report["target container identity"] = "Docker"
    BY DEF Resolved, DockerKnown, Given, Passed
  <2> QED
    BY <1>1, <1>2, <2>1, LabelsAre DEF TargetKnown, Given
<1> QED
  BY <1>2, <1>3, <1>4, <1>5, <1>6, <1>7 DEF DoctorInvariant

LEMMA StepKnows ==
  ASSUME DoctorInvariant, DoctorStep
  PROVE  DoctorInvariant'
<1>1. CASE DoctorLoad
  BY <1>1, LoadKnows DEF DoctorInvariant
<1>2. CASE DoctorCredentials
  BY <1>2, CredentialsKnow DEF DoctorInvariant, DoctorCredentials, At
<1>3. CASE DoctorInspect
  BY <1>3, InspectKnows DEF DoctorInvariant, DoctorInspect, At
<1>4. CASE DoctorSource
  BY <1>4, SourceKnows DEF DoctorInvariant, DoctorSource, At
<1>5. CASE DoctorTarget
  BY <1>5, TargetKnows DEF DoctorInvariant, DoctorTarget, At
<1> QED
  BY <1>1, <1>2, <1>3, <1>4, <1>5 DEF DoctorStep

LEMMA NoDoctorKnows ==
  ASSUME NEW d, d = NoDoctor \/ d = [NoDoctor EXCEPT !.pc = "load"], doctor' = d
  PROVE  DoctorInvariant'
<1>1. /\ doctor'.pc \in {"idle", "load"} /\ doctor'.report = NoReport
      /\ doctor' = [f \in {"pc", "view", "report", "steady"} |-> doctor'[f]]
  BY DEF NoDoctor
<1>2. IsDoctor' /\ ToCome(Labels)'
  BY <1>1 DEF IsDoctor, ToCome, NoReport
<1> QED
  BY <1>1, <1>2 DEF DoctorInvariant

LEMMA DoctorInvariantHolds == Spec => []DoctorInvariant
<1>1. Init => DoctorInvariant
  <2> SUFFICES ASSUME Init PROVE DoctorInvariant
    OBVIOUS
  <2>1. /\ doctor.pc = "idle" /\ doctor.report = NoReport
        /\ doctor = [f \in {"pc", "view", "report", "steady"} |-> doctor[f]]
    BY DEF Init, NoDoctor
  <2>2. IsDoctor /\ ToCome(Labels)
    BY <2>1 DEF IsDoctor, ToCome, NoReport
  <2> QED
    BY <2>1, <2>2 DEF DoctorInvariant
<1>2. DoctorInvariant /\ [Next]_vars => DoctorInvariant'
  <2> SUFFICES ASSUME DoctorInvariant, [Next]_vars
               PROVE  DoctorInvariant'
    OBVIOUS
  <2>1. CASE RunDoctor
    BY <2>1, StepKnows DEF RunDoctor
  <2>2. CASE doctor' = doctor \/ doctor' = [doctor EXCEPT !.steady = FALSE]
    <3>1. /\ doctor'.pc = doctor.pc /\ doctor'.view = doctor.view
          /\ doctor'.report = doctor.report
          /\ doctor' = [f \in {"pc", "view", "report", "steady"} |-> doctor'[f]]
      BY <2>2 DEF DoctorInvariant, IsDoctor
    <3>2. IsDoctor'
      BY <3>1 DEF DoctorInvariant, IsDoctor
    <3>3. /\ Loaded => Loaded'
          /\ Resolved => Resolved'
          /\ DockerKnown => DockerKnown'
          /\ SourceKnown => SourceKnown'
          /\ TargetKnown => TargetKnown'
      <4>1. Loaded => Loaded'
        BY <3>1 DEF Loaded, Given, Passed
      <4>2. Resolved => Resolved'
        BY <3>1 DEF Resolved, Given
      <4>3. DockerKnown => DockerKnown'
        BY <3>1 DEF DockerKnown, Given
      <4>4. SourceKnown => SourceKnown'
        BY <3>1 DEF SourceKnown, Given
      <4>5. TargetKnown => TargetKnown'
        BY <3>1 DEF TargetKnown, Given
      <4> QED
        BY <4>1, <4>2, <4>3, <4>4, <4>5
    <3>4. /\ ToCome(Labels) => ToCome(Labels)'
          /\ ToCome(OfCredentials) => ToCome(OfCredentials)'
          /\ ToCome(OfDocker) => ToCome(OfDocker)'
          /\ ToCome(OfSource) => ToCome(OfSource)'
          /\ ToCome(OfTarget) => ToCome(OfTarget)'
      BY <3>1 DEF ToCome
    <3> QED
      BY <3>1, <3>2, <3>3, <3>4 DEF DoctorInvariant
  <2>3. CASE Environment
    BY <2>2, <2>3 DEF Environment, Change
  <2>4. CASE Start
    <3>1. CASE Head(script).name = "doctor"
      BY <2>4, <3>1, NoDoctorKnows DEF Start
    <3>2. CASE Head(script).name # "doctor"
      BY <2>2, <2>4, <3>2 DEF Start
    <3> QED
      BY <3>1, <3>2
  <2> QED
    BY <2>1, <2>2, <2>3, <2>4, CommandsLeaveDoctor
<1> QED
  BY <1>1, <1>2, PTL DEF Spec

(* Whatever doctor skips, a check that it needs has failed: by the time    *)
(* the check is made those before it are known, and none of them is merely *)
(* left out.  The configuration is the one that doctor loaded, so that a   *)
(* change of it in the meantime makes no difference.                       *)
THEOREM SkippedHolds == Spec => []SkippedForAReason
<1>1. DoctorInvariant => SkippedForAReason
  <2> SUFFICES ASSUME DoctorInvariant, NEW l \in Labels, doctor.report[l] = "skipped"
               PROVE  Needs(l) \cap Failures(doctor.report) # {}
    BY DEF SkippedForAReason
  <2>1. ~(doctor.pc \in {"idle", "load"})
    BY DEF DoctorInvariant, ToCome
  <2>2. ~(l \in {"configuration", "cache filesystem", "active profile",
                "local target configuration"})
    BY <2>1 DEF DoctorInvariant, Loaded, Given
  <2>3. ~(l \in {"Docker", "Docker context identity", "source TLS"})
    BY <2>1, LabelsAre DEF DoctorInvariant, DockerKnown, SourceKnown, Given, ToCome, OfCredentials,
                OfDocker, OfSource, OfTarget
  <2>4. l \in {"source credential", "target credential", "source connection",
              "target container identity", "target connection"}
    BY <2>2, <2>3, LabelsAreAll
  <2>5. CASE l \in {"source credential", "target credential"}
    <3>1. ~ToCome(OfCredentials)
      BY <2>5 DEF ToCome, OfCredentials
    <3>2. Resolved
      BY <2>1, <3>1 DEF DoctorInvariant
    <3> QED
      BY <2>5, <3>2, LabelsAre DEF Resolved, Given, Needs, Failures, Kinds
  <2>6. CASE l = "target container identity"
    <3>1. ~ToCome(OfCredentials) /\ ~ToCome(OfDocker)
      BY <2>6 DEF ToCome, OfCredentials, OfDocker
    <3>2. DockerKnown
      BY <2>1, <3>1 DEF DoctorInvariant
    <3> QED
      BY <2>6, <3>2, LabelsAre DEF DockerKnown, Given, Needs, Failures, Kinds
  <2>7. CASE l = "source connection"
    <3>1. ~ToCome(OfCredentials) /\ ~ToCome(OfDocker) /\ ~ToCome(OfSource)
      BY <2>7 DEF ToCome, OfCredentials, OfDocker, OfSource
    <3>2. SourceKnown
      BY <2>1, <3>1 DEF DoctorInvariant
    <3> QED
      BY <2>7, <3>2, LabelsAre DEF SourceKnown, Given, Needs, Failures, Kinds
  <2>8. CASE l = "target connection"
    <3>1. /\ ~ToCome(OfCredentials) /\ ~ToCome(OfDocker) /\ ~ToCome(OfSource)
          /\ ~ToCome(OfTarget)
      BY <2>8 DEF ToCome, OfCredentials, OfDocker, OfSource, OfTarget
    <3>2. TargetKnown
      BY <2>1, <3>1 DEF DoctorInvariant
    <3> QED
      BY <2>8, <3>2, LabelsAre DEF TargetKnown, Given, Needs, Failures, Kinds
  <2> QED
    BY <2>4, <2>5, <2>6, <2>7, <2>8
<1> QED
  BY <1>1, DoctorInvariantHolds, PTL

-----------------------------------------------------------------------------
(* What the questions answer, whatever the world is like: each question    *)
(* is only asked when the ones before it were answered with "ok".          *)
LEMMA FirstIs ==
  ASSUME NEW answers, NEW n \in Nat, DOMAIN answers = 1 .. n, NEW i \in 1 .. n,
         answers[i] # "ok", \A j \in 1 .. n : j < i => answers[j] = "ok"
  PROVE  First(answers) = answers[i]
<1> DEFINE failed == {j \in DOMAIN answers : answers[j] # "ok"}
<1>1. i \in failed /\ \A j \in failed : i <= j
  OBVIOUS
<1>2. (CHOOSE k \in failed : \A j \in failed : k <= j) = i
  <2>1. \A k \in failed : k \in Nat
    OBVIOUS
  <2>2. \A k \in failed : (\A j \in failed : k <= j) => k = i
    <3> HIDE DEF failed
    <3> QED
      BY <1>1, <2>1
  <2> HIDE DEF failed
  <2> QED
    BY <1>1, <2>2
<1> QED
  BY <1>1, <1>2 DEF First

LEMMA FirstOk ==
  ASSUME NEW answers, \A j \in DOMAIN answers : answers[j] = "ok"
  PROVE  First(answers) = "ok"
  BY DEF First

LEMMA FirstOfTwo ==
  ASSUME NEW a, NEW b
  PROVE  First(<<a, b>>)
           = IF a # "ok" THEN a ELSE b
<1> DEFINE s == <<a, b>>
<1>1. DOMAIN s = 1 .. 2 /\ s[1] = a /\ s[2] = b
  OBVIOUS
<1>2. \A j \in 1 .. 2 : j = 1 \/ j = 2
  OBVIOUS
<1>3. CASE a # "ok"
  <2>1. 1 \in 1 .. 2 /\ \A j \in 1 .. 2 : j < 1 => s[j] = "ok"
    BY <1>2
  <2>2. First(s) = a
    <3> HIDE DEF s
    <3> QED
      BY <1>1, <1>3, <2>1, FirstIs
  <2> QED
    BY <1>3, <2>2
<1>4. CASE a = "ok" /\ b # "ok"
  <2>1. 2 \in 1 .. 2 /\ \A j \in 1 .. 2 : j < 2 => s[j] = "ok"
    BY <1>1, <1>2, <1>4
  <2>2. First(s) = b
    <3> HIDE DEF s
    <3> QED
      BY <1>1, <1>4, <2>1, FirstIs
  <2> QED
    BY <1>4, <2>2
<1>5. CASE a = "ok" /\ b = "ok"
  <2>1. \A j \in DOMAIN s : s[j] = "ok"
    BY <1>1, <1>2, <1>5
  <2> QED
    BY <1>5, <2>1, FirstOk
<1> QED
  BY <1>3, <1>4, <1>5

LEMMA FirstOfFour ==
  ASSUME NEW a, NEW b, NEW c, NEW d
  PROVE  First(<<a, b, c, d>>)
           = IF a # "ok" THEN a
             ELSE IF b # "ok" THEN b
             ELSE IF c # "ok" THEN c ELSE d
<1> DEFINE s == <<a, b, c, d>>
<1>1. DOMAIN s = 1 .. 4 /\ s[1] = a /\ s[2] = b /\ s[3] = c /\ s[4] = d
  OBVIOUS
<1>2. \A j \in 1 .. 4 : j = 1 \/ j = 2 \/ j = 3 \/ j = 4
  OBVIOUS
<1>3. CASE a # "ok"
  <2>1. 1 \in 1 .. 4 /\ \A j \in 1 .. 4 : j < 1 => s[j] = "ok"
    BY <1>2
  <2>2. First(s) = a
    <3> HIDE DEF s
    <3> QED
      BY <1>1, <1>3, <2>1, FirstIs
  <2> QED
    BY <1>3, <2>2
<1>4. CASE a = "ok" /\ b # "ok"
  <2>1. 2 \in 1 .. 4 /\ \A j \in 1 .. 4 : j < 2 => s[j] = "ok"
    BY <1>1, <1>2, <1>4
  <2>2. First(s) = b
    <3> HIDE DEF s
    <3> QED
      BY <1>1, <1>4, <2>1, FirstIs
  <2> QED
    BY <1>4, <2>2
<1>5. CASE a = "ok" /\ b = "ok" /\ c # "ok"
  <2>1. 3 \in 1 .. 4 /\ \A j \in 1 .. 4 : j < 3 => s[j] = "ok"
    BY <1>1, <1>2, <1>5
  <2>2. First(s) = c
    <3> HIDE DEF s
    <3> QED
      BY <1>1, <1>5, <2>1, FirstIs
  <2> QED
    BY <1>5, <2>2
<1>6. CASE a = "ok" /\ b = "ok" /\ c = "ok" /\ d # "ok"
  <2>1. 4 \in 1 .. 4 /\ \A j \in 1 .. 4 : j < 4 => s[j] = "ok"
    BY <1>1, <1>2, <1>6
  <2>2. First(s) = d
    <3> HIDE DEF s
    <3> QED
      BY <1>1, <1>6, <2>1, FirstIs, ZenonT(60)
  <2> QED
    BY <1>6, <2>2
<1>7. CASE a = "ok" /\ b = "ok" /\ c = "ok" /\ d = "ok"
  <2>1. \A j \in DOMAIN s : s[j] = "ok"
    BY <1>1, <1>2, <1>7
  <2> QED
    BY <1>7, <2>1, FirstOk
<1> QED
  BY <1>3, <1>4, <1>5, <1>6, <1>7

LEMMA FirstOfFive ==
  ASSUME NEW a, NEW b, NEW c, NEW d, NEW e
  PROVE  First(<<a, b, c, d, e>>)
           = IF a # "ok" THEN a
             ELSE IF b # "ok" THEN b
             ELSE IF c # "ok" THEN c
             ELSE IF d # "ok" THEN d ELSE e
<1> DEFINE s == <<a, b, c, d, e>>
<1>1. DOMAIN s = 1 .. 5 /\ s[1] = a /\ s[2] = b /\ s[3] = c /\ s[4] = d /\ s[5] = e
  OBVIOUS
<1>2. \A j \in 1 .. 5 : j = 1 \/ j = 2 \/ j = 3 \/ j = 4 \/ j = 5
  OBVIOUS
<1>3. CASE a # "ok"
  <2>1. 1 \in 1 .. 5 /\ \A j \in 1 .. 5 : j < 1 => s[j] = "ok"
    BY <1>2
  <2>2. First(s) = a
    <3> HIDE DEF s
    <3> QED
      BY <1>1, <1>3, <2>1, FirstIs
  <2> QED
    BY <1>3, <2>2
<1>4. CASE a = "ok" /\ b # "ok"
  <2>1. 2 \in 1 .. 5 /\ \A j \in 1 .. 5 : j < 2 => s[j] = "ok"
    BY <1>1, <1>2, <1>4
  <2>2. First(s) = b
    <3> HIDE DEF s
    <3> QED
      BY <1>1, <1>4, <2>1, FirstIs
  <2> QED
    BY <1>4, <2>2
<1>5. CASE a = "ok" /\ b = "ok" /\ c # "ok"
  <2>1. 3 \in 1 .. 5 /\ \A j \in 1 .. 5 : j < 3 => s[j] = "ok"
    BY <1>1, <1>2, <1>5
  <2>2. First(s) = c
    <3> HIDE DEF s
    <3> QED
      BY <1>1, <1>5, <2>1, FirstIs, ZenonT(60)
  <2> QED
    BY <1>5, <2>2
<1>6. CASE a = "ok" /\ b = "ok" /\ c = "ok" /\ d # "ok"
  <2>1. 4 \in 1 .. 5 /\ \A j \in 1 .. 5 : j < 4 => s[j] = "ok"
    BY <1>1, <1>2, <1>6
  <2>2. First(s) = d
    <3> HIDE DEF s
    <3> QED
      BY <1>1, <1>6, <2>1, FirstIs, ZenonT(60)
  <2> QED
    BY <1>6, <2>2
<1>7. CASE a = "ok" /\ b = "ok" /\ c = "ok" /\ d = "ok" /\ e # "ok"
  <2>1. 5 \in 1 .. 5 /\ \A j \in 1 .. 5 : j < 5 => s[j] = "ok"
    BY <1>1, <1>2, <1>7
  <2>2. First(s) = e
    <3> HIDE DEF s
    <3> QED
      BY <1>1, <1>7, <2>1, FirstIs, ZenonT(60)
  <2> QED
    BY <1>7, <2>2
<1>8. CASE a = "ok" /\ b = "ok" /\ c = "ok" /\ d = "ok" /\ e = "ok"
  <2>1. \A j \in DOMAIN s : s[j] = "ok"
    BY <1>1, <1>2, <1>8
  <2> QED
    BY <1>8, <2>1, FirstOk
<1> QED
  BY <1>3, <1>4, <1>5, <1>6, <1>7, <1>8

(* The first error of a few questions is one of theirs.                    *)
LEMMA FirstIn ==
  ASSUME NEW E, NEW answers \in Seq(E \cup {"ok"}), Len(answers) <= 12
  PROVE  First(answers) \in E \cup {"ok"}
<1> DEFINE n == Len(answers)
           failed == {i \in DOMAIN answers : answers[i] # "ok"}
<1>1. n \in Nat /\ DOMAIN answers = 1 .. n
  OBVIOUS
<1>2. \A i \in 1 .. n : answers[i] \in E \cup {"ok"}
  BY <1>1
<1>3. CASE failed = {}
  BY <1>3, FirstOk
<1>4. CASE failed # {}
  <2>1. \A i \in failed : i \in Nat /\ 1 <= i /\ i <= 12
    BY <1>1
  <2>2. \E i \in failed : \A j \in failed : i <= j
    <3>1. \E i \in failed : \A j \in failed : ~(j < i)
      <4> HIDE DEF failed
      <4>1. \A i \in failed : \/ i = 1 \/ i = 2 \/ i = 3 \/ i = 4 \/ i = 5 \/ i = 6
                            \/ i = 7 \/ i = 8 \/ i = 9 \/ i = 10 \/ i = 11 \/ i = 12
        BY <2>1
      <4> QED
        BY <1>4, <4>1, SMTT(60)
    <3> HIDE DEF failed
    <3> QED
      BY <2>1, <3>1
  <2>3. PICK i \in failed : \A j \in failed : i <= j
    BY <2>2
  <2>4. i \in 1 .. n /\ answers[i] # "ok" /\ \A j \in 1 .. n : j < i => answers[j] = "ok"
    BY <1>1, <2>1, <2>3
  <2>5. First(answers) = answers[i]
    <3> HIDE DEF n
    <3> QED
      BY <1>1, <2>4, FirstIs
  <2> QED
    BY <1>2, <2>4, <2>5
<1> QED
  BY <1>3, <1>4

LEMMA WhenIn ==
  ASSUME NEW X, "ok" \in X, NEW condition, NEW error \in X
  PROVE  When(condition, error) \in X
  BY DEF When

LEMMA InOne ==
  ASSUME NEW X, "ok" \in X, NEW a \in X
  PROVE  First(<<a>>) \in X
<1> DEFINE s == <<a>>
           E == X \ {"ok"}
<1>1. X = E \cup {"ok"}
  OBVIOUS
<1>2. s \in Seq(X) /\ Len(s) <= 6
  OBVIOUS
<1>3. First(s) \in X
  <2> HIDE DEF s, E
  <2> QED
    BY <1>1, <1>2, FirstIn
<1> QED
  BY <1>3

LEMMA InTwo ==
  ASSUME NEW X, "ok" \in X, NEW a \in X, NEW b \in X
  PROVE  First(<<a, b>>) \in X
<1> DEFINE s == <<a, b>>
           E == X \ {"ok"}
<1>1. X = E \cup {"ok"}
  OBVIOUS
<1>2. s \in Seq(X) /\ Len(s) <= 6
  OBVIOUS
<1>3. First(s) \in X
  <2> HIDE DEF s, E
  <2> QED
    BY <1>1, <1>2, FirstIn
<1> QED
  BY <1>3

LEMMA InThree ==
  ASSUME NEW X, "ok" \in X, NEW a \in X, NEW b \in X, NEW c \in X
  PROVE  First(<<a, b, c>>) \in X
<1> DEFINE s == <<a, b, c>>
           E == X \ {"ok"}
<1>1. X = E \cup {"ok"}
  OBVIOUS
<1>2. s \in Seq(X) /\ Len(s) <= 6
  OBVIOUS
<1>3. First(s) \in X
  <2> HIDE DEF s, E
  <2> QED
    BY <1>1, <1>2, FirstIn
<1> QED
  BY <1>3

LEMMA InFour ==
  ASSUME NEW X, "ok" \in X, NEW a \in X, NEW b \in X, NEW c \in X, NEW d \in X
  PROVE  First(<<a, b, c, d>>) \in X
<1> DEFINE s == <<a, b, c, d>>
           E == X \ {"ok"}
<1>1. X = E \cup {"ok"}
  OBVIOUS
<1>2. s \in Seq(X) /\ Len(s) <= 6
  OBVIOUS
<1>3. First(s) \in X
  <2> HIDE DEF s, E
  <2> QED
    BY <1>1, <1>2, FirstIn
<1> QED
  BY <1>3

LEMMA InFive ==
  ASSUME NEW X, "ok" \in X, NEW a \in X, NEW b \in X, NEW c \in X, NEW d \in X, NEW e \in X
  PROVE  First(<<a, b, c, d, e>>) \in X
<1> DEFINE s == <<a, b, c, d, e>>
           E == X \ {"ok"}
<1>1. X = E \cup {"ok"}
  OBVIOUS
<1>2. s \in Seq(X) /\ Len(s) <= 6
  OBVIOUS
<1>3. First(s) \in X
  <2> HIDE DEF s, E
  <2> QED
    BY <1>1, <1>2, FirstIn
<1> QED
  BY <1>3

LEMMA InSix ==
  ASSUME NEW X, "ok" \in X, NEW a \in X, NEW b \in X, NEW c \in X, NEW d \in X, NEW e \in X, NEW f \in X
  PROVE  First(<<a, b, c, d, e, f>>) \in X
<1> DEFINE s == <<a, b, c, d, e, f>>
           E == X \ {"ok"}
<1>1. X = E \cup {"ok"}
  OBVIOUS
<1>2. s \in Seq(X) /\ Len(s) <= 6
  OBVIOUS
<1>3. First(s) \in X
  <2> HIDE DEF s, E
  <2> QED
    BY <1>1, <1>2, FirstIn
<1> QED
  BY <1>3

(* The layers below the services answer with errors of their own.          *)
LEMMA ClientAnswers ==
  ASSUME NEW w, NEW part, NEW series
  PROVE  /\ OptionFile(w) \in ClientErrors \cup {"ok"}
         /\ PrepareExisting(w, series) \in ClientErrors \cup {"ok"}
         /\ Probe(w, part) \in ClientErrors \cup {"ok"}
<1> DEFINE X == ClientErrors \cup {"ok"}
<1>1. /\ "Process" \in X /\ "DockerUnavailable" \in X /\ "OptionFile" \in X
      /\ "ImageUnavailable" \in X /\ "ImageDigestMismatch" \in X
      /\ "SourceNetworkUnavailable" \in X /\ "ConnectionProbeFailed" \in X
      /\ "TlsValidationFailed" \in X /\ "AuthenticationFailed" \in X /\ "ok" \in X
  BY DEF ClientErrors, ImageErrors, ProbeErrors
<1> HIDE DEF X
<1>2. OptionFile(w) \in X
  BY <1>1, WhenIn DEF OptionFile
<1>3. PrepareExisting(w, series) \in X
  BY <1>1, WhenIn, InFour, Zenon DEF PrepareExisting, VerifyImage
<1>4. Reach(w, part) \in X
  BY <1>1, WhenIn, InTwo, Zenon DEF Reach
<1>5. Probe(w, part) \in X
  BY <1>1, <1>4, WhenIn, InFour, Zenon DEF Probe
<1> QED
  BY <1>2, <1>3, <1>5 DEF X

LEMMA DiscoverAnswers ==
  ASSUME NEW w
  PROVE  Discover(w) \in DiscoveryErrors \cup {"ok"}
<1> DEFINE X == DiscoveryErrors \cup {"ok"}
<1>1. /\ "Process" \in X /\ "DockerUnavailable" \in X /\ "RemoteContext" \in X
      /\ "InvalidMetadata" \in X /\ "ok" \in X
  BY DEF DiscoveryErrors
<1> HIDE DEF X
<1>2. LocalContext(w) \in X
  BY <1>1, WhenIn, InTwo, Zenon DEF LocalContext
<1>3. Candidates(w) \in X
  BY <1>1, WhenIn, InTwo, Zenon DEF Candidates
<1>4. Discover(w) \in X
  BY <1>1, <1>2, <1>3, InTwo, Zenon DEF Discover
<1> QED
  BY <1>4 DEF X

LEMMA VerifierAnswers ==
  ASSUME NEW w, NEW pull
  PROVE  /\ VerifySource(w, pull) \in SourceErrors \cup {"ok"}
         /\ VerifyTarget(w, pull) \in TargetErrors \cup {"ok"}
<1>1. \A e : SourceError(e) \in SourceErrors \cup {"ok"}
  BY DEF SourceError, SourceErrors
<1>2. VerifySource(w, pull) \in SourceErrors \cup {"ok"}
  <2> DEFINE X == SourceErrors \cup {"ok"}
  <2>1. "ok" \in X
    OBVIOUS
  <2> HIDE DEF X
  <2>2. VerifySource(w, pull) \in X
    BY <1>1, <2>1, InTwo, Zenon DEF VerifySource, X
  <2> QED
    BY <2>2 DEF X
<1>3. \A e : TargetError(e) \in TargetErrors \cup {"ok"}
  BY DEF TargetError, TargetErrors
<1> QED
  BY <1>2, <1>3 DEF VerifyTarget

LEMMA AttestAnswers ==
  ASSUME NEW w
  PROVE  Attest(w) \in AttestationErrors \cup {"ok"}
<1> DEFINE X == AttestationErrors \cup {"ok"}
<1>1. DiscoverError(Discover(w)) \in X
  BY DiscoverAnswers DEF DiscoverError, DiscoveryErrors, AttestationErrors
<1>2. VerificationError(VerifyTarget(w, FALSE)) \in X
  BY VerifierAnswers DEF VerificationError, TargetErrors, AttestationErrors
<1>3. /\ "ContextChanged" \in X /\ "ContainerNotFound" \in X
      /\ "ContainerNotRunning" \in X /\ "ok" \in X
  BY DEF AttestationErrors
<1> HIDE DEF X
<1>4. Attest(w) \in X
  BY <1>1, <1>2, <1>3, WhenIn, InFive, Zenon DEF Attest
<1> QED
  BY <1>4 DEF X

(* The preflight of a dump, the probe of a destination, and the reader.    *)
LEMMA ServiceAnswers ==
  ASSUME NEW w
  PROVE  /\ AssessSource(w) \in ClientErrors \cup DumpErrors \cup {"ok"}
         /\ DumpPolicy(w) \in DumpErrors \cup {"ok"}
         /\ ProbeDestination(w) \in ClientErrors \cup {"ok"}
         /\ ReadCatalog(w) \in CatalogErrors \cup {"ok"}
<1>1. AssessSource(w) \in ClientErrors \cup DumpErrors \cup {"ok"}
  <2> DEFINE X == ClientErrors \cup DumpErrors \cup {"ok"}
  <2>1. \A e \in ClientErrors \cup {"ok"} : e \in X
    OBVIOUS
  <2>2. QueryError(Probe(w, "source")) \in X
    <3>1. "QueryFailed" \in X
      BY DEF ClientErrors, ProbeErrors
    <3> QED
      BY <2>1, <3>1, ClientAnswers DEF QueryError
  <2>3. /\ "ok" \in X /\ "QueryFailed" \in X /\ "TlsRequiredButNotNegotiated" \in X
        /\ "InvalidMetadata" \in X
    BY DEF ClientErrors, ProbeErrors, DumpErrors
  <2> HIDE DEF X
  <2>4. QuerySchema(w, "source") \in X
    BY <2>2, <2>3, WhenIn, InTwo, Zenon DEF QuerySchema, QueryServer
  <2>5. AssessSource(w) \in X
    BY <2>1, <2>3, <2>4, ClientAnswers, WhenIn, InSix, Zenon DEF AssessSource
  <2> QED
    BY <2>5 DEF X
<1>2. DumpPolicy(w) \in DumpErrors \cup {"ok"}
  <2> DEFINE X == DumpErrors \cup {"ok"}
  <2>1. /\ "ok" \in X /\ "UnsupportedVendor" \in X /\ "UnsupportedServerSeries" \in X
        /\ "ClientServerSeriesMismatch" \in X /\ "NonTransactionalTables" \in X
        /\ "DefinerObjectsUnsupported" \in X /\ "ViewsUnsupported" \in X
    BY DEF DumpErrors, PolicyErrors
  <2> HIDE DEF X
  <2>2. DumpPolicy(w) \in X
    BY <2>1, WhenIn, InSix, Zenon DEF DumpPolicy
  <2> QED
    BY <2>2 DEF X
<1>3. ProbeDestination(w) \in ClientErrors \cup {"ok"}
  <2> DEFINE X == ClientErrors \cup {"ok"}
  <2>1. "ok" \in X
    OBVIOUS
  <2>2. /\ PrepareExisting(w, Configured(w, "destination")) \in X
        /\ OptionFile(w) \in X /\ Probe(w, "destination") \in X
    BY ClientAnswers
  <2> HIDE DEF X
  <2>3. ProbeDestination(w) \in X
    BY <2>1, <2>2, InThree, Zenon DEF ProbeDestination
  <2> QED
    BY <2>3 DEF X
<1>4. \A e : ReadError(e) \in CatalogErrors \cup {"ok"}
  BY DEF ReadError, CatalogErrors, ReadErrors
<1> QED
  BY <1>1, <1>2, <1>3, <1>4 DEF ReadCatalog

-----------------------------------------------------------------------------
(* Where each command goes, what it may leave behind, and what it ends     *)
(* with.                                                                   *)
Dumping == {"create", "assess", "export", "publish"}
Restoring == {"validate", "gate", "attest", "engine", "recreate", "import"}

Way ==
  [preview |-> {},
   list    |-> {"catalog", "read"},
   dump    |-> Dumping,
   restore |-> {"choose"} \cup Restoring,
   pull    |-> {"select", "look up", "database"} \cup Dumping \cup Restoring,
   push    |-> {"eligible", "consent", "destination", "choice", "artifact", "downgrade",
                "confirm", "lock", "ensure", "write"} \cup Dumping,
   setup   |-> {"reset", "discover", "start", "replace", "configure"},
   add     |-> {"available", "collect", "add"},
   remove  |-> {"ask", "remove"},
   prune   |-> {"plan", "agree", "prune"},
   doctor  |-> {"doctor"}]

OfRestore == {"database dropped", "database imported"}

MayLeave ==
  [preview |-> {}, list |-> {}, doctor |-> {},
   dump    |-> {"dump created"},
   restore |-> OfRestore,
   pull    |-> {"dump created"} \cup OfRestore,
   push    |-> {"dump created", "push allowed", "remote created", "remote imported"},
   setup   |-> {"configuration reset", "container started", "image pulled", "target saved"},
   add     |-> {"image pulled", "profile saved"},
   remove  |-> {"profile removed"},
   prune   |-> {"dumps pruned"}]

(* What a run may have done when it turns out that its arguments, or its   *)
(* terminal, do not do.                                                    *)
Recoverable == {"configuration reset", "container started", "image pulled", "dump created"}

(* The stages after the last question.                                     *)
Committed == {"lock", "ensure", "write", "import"}

NoUsage(why) == why = Ok \/ Category(why) # "Usage"

StillHarmless ==
  \/ run.done \subseteq Recoverable
  \/ run.pc \in Committed
  \/ run.pc = "ended" /\ NoUsage(run.why)

RunInvariant ==
  /\ IsRun
  /\ run.line \in Lines
  /\ run.steady \in BOOLEAN /\ run.interrupted \in BOOLEAN
  /\ run.why = Ok \/ run.why \in Errors
  /\ run.pc \in {"idle", "ended"} \cup Way[run.line.name]
  /\ run.done \subseteq MayLeave[run.line.name]
  /\ StillHarmless

LEMMA NamesAre ==
  ASSUME NEW name \in Names
  PROVE  \/ name = "preview" \/ name = "list" \/ name = "dump" \/ name = "restore"
         \/ name = "pull" \/ name = "push" \/ name = "setup" \/ name = "add"
         \/ name = "remove" \/ name = "prune" \/ name = "doctor"
  BY DEF Names, Options

LEMMA WaysAre ==
  /\ Way["preview"] = {} /\ Way["list"] = {"catalog", "read"} /\ Way["dump"] = Dumping
  /\ Way["restore"] = {"choose"} \cup Restoring
  /\ Way["pull"] = {"select", "look up", "database"} \cup Dumping \cup Restoring
  /\ Way["push"] = {"eligible", "consent", "destination", "choice", "artifact", "downgrade",
                    "confirm", "lock", "ensure", "write"} \cup Dumping
  /\ Way["setup"] = {"reset", "discover", "start", "replace", "configure"}
  /\ Way["add"] = {"available", "collect", "add"}
  /\ Way["remove"] = {"ask", "remove"} /\ Way["prune"] = {"plan", "agree", "prune"}
  /\ Way["doctor"] = {"doctor"}
  BY DEF Way

LEMMA LeftAre ==
  /\ MayLeave["preview"] = {} /\ MayLeave["list"] = {} /\ MayLeave["doctor"] = {}
  /\ MayLeave["dump"] = {"dump created"} /\ MayLeave["restore"] = OfRestore
  /\ MayLeave["pull"] = {"dump created"} \cup OfRestore
  /\ MayLeave["push"] =
       {"dump created", "push allowed", "remote created", "remote imported"}
  /\ MayLeave["setup"] =
       {"configuration reset", "container started", "image pulled", "target saved"}
  /\ MayLeave["add"] = {"image pulled", "profile saved"}
  /\ MayLeave["remove"] = {"profile removed"} /\ MayLeave["prune"] = {"dumps pruned"}
  BY DEF MayLeave

LEMMA ErrorsAre ==
  /\ \A e \in ClientErrors : <<"client", e>> \in Errors
  /\ \A e \in ProfileErrors : <<"profile", e>> \in Errors
  /\ \A e \in SetupErrors : <<"setup", e>> \in Errors
  /\ \A e \in DiscoveryErrors : <<"discovery", e>> \in Errors
  /\ \A e \in CatalogErrors : <<"catalog", e>> \in Errors
  /\ \A e \in DumpErrors : <<"dump", e>> \in Errors
  /\ \A e \in RestoreErrors : <<"restore", e>> \in Errors
  /\ \A e \in LocalTargetErrors : <<"local target", e>> \in Errors
  /\ \A e \in ExecutorErrors : <<"executor", e>> \in Errors
  /\ \A e \in PullErrors : <<"pull", e>> \in Errors
  /\ \A e \in PushErrors : <<"push", e>> \in Errors
  /\ \A e \in RemoteTargetErrors : <<"remote target", e>> \in Errors
  /\ \A e \in RemoteErrors : <<"remote", e>> \in Errors
  /\ \A e \in Kinds : <<"doctor", e>> \in Errors
  /\ \A e \in PromptErrors : <<"prompt", e>> \in Errors
  /\ <<"value", "invalid">> \in Errors /\ <<"prune", "NonInteractivePrune">> \in Errors
  BY ZenonT(60) DEF Errors

LEMMA ErrorsHaveCategories ==
  ASSUME NEW why \in Errors
  PROVE  Category(why) \in Categories
<1>1. /\ "General" \in Categories /\ "Usage" \in Categories /\ "Configuration" \in Categories
      /\ "Credential" \in Categories /\ "Dependency" \in Categories
      /\ "SourceConnection" \in Categories /\ "Dump" \in Categories /\ "Cache" \in Categories
      /\ "Docker" \in Categories /\ "Restore" \in Categories /\ "Interrupted" \in Categories
  BY DEF Categories, ExitCode
<1>2. \A e : /\ ClientCategory(e) \in Categories /\ ProfileCategory(e) \in Categories
             /\ SetupCategory(e) \in Categories /\ CatalogCategory(e) \in Categories
             /\ DumpCategory(e) \in Categories /\ RestoreCategory(e) \in Categories
  BY <1>1 DEF ClientCategory, ProfileCategory, SetupCategory, CatalogCategory, DumpCategory,
              RestoreCategory
<1>3. \A e : /\ LocalTargetCategory(e) \in Categories /\ ExecutorCategory(e) \in Categories
             /\ PullCategory(e) \in Categories /\ PushCategory(e) \in Categories
             /\ RemoteTargetCategory(e) \in Categories
             /\ RemoteFailureCategory(e) \in Categories
  BY <1>1 DEF LocalTargetCategory, ExecutorCategory, PullCategory, PushCategory,
              RemoteTargetCategory, RemoteFailureCategory
<1>4. \/ why[1] \in {"client", "profile", "setup", "discovery", "catalog", "dump", "restore",
                     "local target", "executor", "pull", "push", "remote target", "remote",
                     "prompt", "value", "prune"}
      \/ why[1] = "doctor" /\ why[2] \in Kinds
  <2>1. \A layer, X : why \in {layer} \X X => why[1] = layer /\ why[2] \in X
    OBVIOUS
  <2> DEFINE Plain(X) ==
        \/ why \in {"client"} \X X \/ why \in {"profile"} \X X \/ why \in {"setup"} \X X
        \/ why \in {"discovery"} \X X \/ why \in {"catalog"} \X X \/ why \in {"dump"} \X X
        \/ why \in {"restore"} \X X \/ why \in {"local target"} \X X
        \/ why \in {"executor"} \X X \/ why \in {"pull"} \X X \/ why \in {"push"} \X X
        \/ why \in {"remote target"} \X X \/ why \in {"remote"} \X X
        \/ why \in {"prompt"} \X X
  <2>2. \/ \E X : Plain(X)
        \/ why \in {"doctor"} \X Kinds
        \/ why \in {<<"value", "invalid">>, <<"prune", "NonInteractivePrune">>}
    BY ZenonT(60) DEF Errors
  <2>3. CASE \E X : Plain(X)
    <3>1. PICK X : Plain(X)
      BY <2>3
    <3> QED
      BY <2>1, <3>1
  <2>4. CASE why \in {"doctor"} \X Kinds
    BY <2>1, <2>4
  <2>5. CASE why \in {<<"value", "invalid">>, <<"prune", "NonInteractivePrune">>}
    <3>1. why[1] = "value" \/ why[1] = "prune"
      BY <2>5
    <3> QED
      BY <3>1
  <2> QED
    BY <2>2, <2>3, <2>4, <2>5, Zenon
<1>5. CASE why[1] = "doctor" /\ why[2] \in Kinds
  <2>1. Category(why) = IF why[2] = "Filesystem" THEN "Cache" ELSE why[2]
    BY <1>5 DEF Category
  <2> QED
    BY <1>1, <1>5, <2>1 DEF Kinds
<1>6. CASE why[1] \in {"client", "profile", "setup", "discovery", "catalog", "dump", "restore"}
  BY <1>1, <1>2, <1>6 DEF Category
<1>7. CASE why[1] \in {"local target", "executor", "pull", "push", "remote target", "remote",
                       "prompt", "value", "prune"}
  BY <1>1, <1>3, <1>7 DEF Category
<1> QED
  BY <1>4, <1>5, <1>6, <1>7

(* A stage tells the command, and what may follow.                         *)
Leads(stage, next) == run.pc = stage => next \in Way[run.line.name] \cup {"ended"}

LEMMA LineIs ==
  ASSUME NEW line \in Lines
  PROVE  line.name \in Names
  BY DEF Lines

LEMMA StagesTell ==
  ASSUME run.line \in Lines, run.pc \in {"idle", "ended"} \cup Way[run.line.name]
  PROVE  /\ Leads("catalog", "read") /\ Leads("create", "assess") /\ Leads("assess", "export")
         /\ Leads("export", "publish") /\ Leads("choose", "validate")
         /\ Leads("validate", "gate") /\ Leads("gate", "attest") /\ Leads("attest", "engine")
         /\ Leads("engine", "recreate") /\ Leads("recreate", "import")
         /\ Leads("select", "look up") /\ Leads("look up", "create")
         /\ Leads("look up", "database") /\ Leads("database", "validate")
         /\ Leads("eligible", "consent") /\ Leads("eligible", "destination")
         /\ Leads("consent", "destination") /\ Leads("destination", "choice")
         /\ Leads("choice", "create") /\ Leads("choice", "artifact")
         /\ Leads("artifact", "downgrade") /\ Leads("downgrade", "confirm")
         /\ Leads("confirm", "lock") /\ Leads("lock", "ensure") /\ Leads("ensure", "write")
         /\ Leads("reset", "discover") /\ Leads("discover", "start")
         /\ Leads("start", "replace") /\ Leads("replace", "configure")
         /\ Leads("available", "collect") /\ Leads("collect", "add") /\ Leads("ask", "remove")
         /\ Leads("plan", "agree") /\ Leads("agree", "prune")
<1> DEFINE name == run.line.name
<1>1. name \in Names
  BY LineIs
<1> HIDE DEF name
<1>2. \/ name = "preview" \/ name = "list" \/ name = "dump" \/ name = "restore"
      \/ name = "pull" \/ name = "push" \/ name = "setup" \/ name = "add"
      \/ name = "remove" \/ name = "prune" \/ name = "doctor"
  BY <1>1, NamesAre
<1>3. run.pc \in {"idle", "ended"} \cup Way[name]
  BY DEF name
<1>4. CASE name = "preview"
  <2>1. Way[name] = {}
    BY <1>4, WaysAre, Zenon
  <2> QED
    BY ZenonT(60), <1>3, <2>1 DEF Leads, name
<1>5. CASE name = "list"
  <2>1. Way[name] = {"catalog", "read"}
    BY <1>5, WaysAre, Zenon
  <2> QED
    BY ZenonT(60), <1>3, <2>1 DEF Leads, name
<1>6. CASE name = "dump"
  <2>1. Way[name] = Dumping
    BY <1>6, WaysAre, Zenon
  <2> QED
    BY ZenonT(60), <1>3, <2>1 DEF Leads, name, Dumping
<1>7. CASE name = "restore"
  <2>1. Way[name] = {"choose"} \cup Restoring
    BY <1>7, WaysAre, Zenon
  <2> QED
    BY ZenonT(60), <1>3, <2>1 DEF Leads, name, Restoring
<1>8. CASE name = "pull"
  <2>1. Way[name] = {"select", "look up", "database"} \cup Dumping \cup Restoring
    BY <1>8, WaysAre, Zenon
  <2> QED
    BY ZenonT(60), <1>3, <2>1 DEF Leads, name, Dumping, Restoring
<1>9. CASE name = "push"
  <2>1. Way[name] = {"eligible", "consent", "destination", "choice", "artifact", "downgrade",
                      "confirm", "lock", "ensure", "write"} \cup Dumping
    BY <1>9, WaysAre, Zenon
  <2> QED
    BY ZenonT(60), <1>3, <2>1 DEF Leads, name, Dumping
<1>10. CASE name = "setup"
  <2>1. Way[name] = {"reset", "discover", "start", "replace", "configure"}
    BY <1>10, WaysAre, Zenon
  <2> QED
    BY ZenonT(60), <1>3, <2>1 DEF Leads, name
<1>11. CASE name = "add"
  <2>1. Way[name] = {"available", "collect", "add"}
    BY <1>11, WaysAre, Zenon
  <2> QED
    BY ZenonT(60), <1>3, <2>1 DEF Leads, name
<1>12. CASE name = "remove"
  <2>1. Way[name] = {"ask", "remove"}
    BY <1>12, WaysAre, Zenon
  <2> QED
    BY ZenonT(60), <1>3, <2>1 DEF Leads, name
<1>13. CASE name = "prune"
  <2>1. Way[name] = {"plan", "agree", "prune"}
    BY <1>13, WaysAre, Zenon
  <2> QED
    BY ZenonT(60), <1>3, <2>1 DEF Leads, name
<1>14. CASE name = "doctor"
  <2>1. Way[name] = {"doctor"}
    BY <1>14, WaysAre, Zenon
  <2> QED
    BY ZenonT(60), <1>3, <2>1 DEF Leads, name
<1> QED
  BY <1>2, <1>4, <1>5, <1>6, <1>7, <1>8, <1>9, <1>10, <1>11, <1>12, <1>13, <1>14

(* ... and after a dump the command that wanted it goes on.                *)
LEMMA PublishTells ==
  ASSUME run.line \in Lines, run.pc \in Way[run.line.name], run.pc = "publish"
  PROVE  \/ run.line.name = "dump"
         \/ run.line.name = "pull" /\ "database" \in Way[run.line.name]
         \/ run.line.name = "push" /\ "artifact" \in Way[run.line.name]
<1> DEFINE name == run.line.name
<1>1. name \in Names
  BY LineIs
<1> HIDE DEF name
<1>2. \/ name = "preview" \/ name = "list" \/ name = "dump" \/ name = "restore"
      \/ name = "pull" \/ name = "push" \/ name = "setup" \/ name = "add"
      \/ name = "remove" \/ name = "prune" \/ name = "doctor"
  BY <1>1, NamesAre
<1>3. "publish" \in Way[name]
  BY DEF name
<1>4. name = "dump" \/ name = "pull" \/ name = "push"
  <2>1. /\ "publish" \notin Way["preview"] /\ "publish" \notin Way["list"]
        /\ "publish" \notin Way["restore"] /\ "publish" \notin Way["setup"]
        /\ "publish" \notin Way["add"] /\ "publish" \notin Way["remove"]
        /\ "publish" \notin Way["prune"] /\ "publish" \notin Way["doctor"]
    BY WaysAre DEF Restoring
  <2> QED
    BY <1>2, <1>3, <2>1
<1> QED
  BY <1>4, WaysAre DEF name

(* What a step at a stage may leave behind.                                *)
Yields(stage, effect) == run.pc = stage => effect \in MayLeave[run.line.name]

LEMMA StagesYield ==
  ASSUME run.line \in Lines, run.pc \in {"idle", "ended"} \cup Way[run.line.name]
  PROVE  /\ Yields("publish", "dump created") /\ Yields("recreate", "database dropped")
         /\ Yields("import", "database imported") /\ Yields("confirm", "push allowed")
         /\ Yields("ensure", "remote created") /\ Yields("write", "remote imported")
         /\ Yields("reset", "configuration reset") /\ Yields("start", "container started")
         /\ Yields("configure", "image pulled") /\ Yields("configure", "target saved")
         /\ Yields("add", "image pulled") /\ Yields("add", "profile saved")
         /\ Yields("remove", "profile removed") /\ Yields("prune", "dumps pruned")
<1> DEFINE name == run.line.name
<1>1. name \in Names
  BY LineIs
<1> HIDE DEF name
<1>2. \/ name = "preview" \/ name = "list" \/ name = "dump" \/ name = "restore"
      \/ name = "pull" \/ name = "push" \/ name = "setup" \/ name = "add"
      \/ name = "remove" \/ name = "prune" \/ name = "doctor"
  BY <1>1, NamesAre
<1>3. run.pc \in {"idle", "ended"} \cup Way[name]
  BY DEF name
<1>4. CASE name = "preview"
  <2>1. Way[name] = {}
    BY <1>4, WaysAre, Zenon
  <2>2. MayLeave[name] = {}
    BY <1>4, LeftAre, Zenon
  <2> QED
    BY ZenonT(60), <1>3, <2>1, <2>2 DEF Yields, name
<1>5. CASE name = "list"
  <2>1. Way[name] = {"catalog", "read"}
    BY <1>5, WaysAre, Zenon
  <2>2. MayLeave[name] = {}
    BY <1>5, LeftAre, Zenon
  <2> QED
    BY ZenonT(60), <1>3, <2>1, <2>2 DEF Yields, name
<1>6. CASE name = "dump"
  <2>1. Way[name] = Dumping
    BY <1>6, WaysAre, Zenon
  <2>2. MayLeave[name] = {"dump created"}
    BY <1>6, LeftAre, Zenon
  <2> QED
    BY ZenonT(60), <1>3, <2>1, <2>2 DEF Yields, name, Dumping
<1>7. CASE name = "restore"
  <2>1. Way[name] = {"choose"} \cup Restoring
    BY <1>7, WaysAre, Zenon
  <2>2. MayLeave[name] = OfRestore
    BY <1>7, LeftAre, Zenon
  <2> QED
    BY ZenonT(60), <1>3, <2>1, <2>2 DEF Yields, name, Restoring, OfRestore
<1>8. CASE name = "pull"
  <2>1. Way[name] = {"select", "look up", "database"} \cup Dumping \cup Restoring
    BY <1>8, WaysAre, Zenon
  <2>2. MayLeave[name] = {"dump created"} \cup OfRestore
    BY <1>8, LeftAre, Zenon
  <2> QED
    BY ZenonT(60), <1>3, <2>1, <2>2 DEF Yields, name, Dumping, Restoring, OfRestore
<1>9. CASE name = "push"
  <2>1. Way[name] = {"eligible", "consent", "destination", "choice", "artifact", "downgrade",
                      "confirm", "lock", "ensure", "write"} \cup Dumping
    BY <1>9, WaysAre, Zenon
  <2>2. MayLeave[name] = {"dump created", "push allowed", "remote created",
                            "remote imported"}
    BY <1>9, LeftAre, Zenon
  <2> QED
    BY ZenonT(60), <1>3, <2>1, <2>2 DEF Yields, name, Dumping
<1>10. CASE name = "setup"
  <2>1. Way[name] = {"reset", "discover", "start", "replace", "configure"}
    BY <1>10, WaysAre, Zenon
  <2>2. MayLeave[name] = {"configuration reset", "container started", "image pulled",
                            "target saved"}
    BY <1>10, LeftAre, Zenon
  <2> QED
    BY ZenonT(60), <1>3, <2>1, <2>2 DEF Yields, name
<1>11. CASE name = "add"
  <2>1. Way[name] = {"available", "collect", "add"}
    BY <1>11, WaysAre, Zenon
  <2>2. MayLeave[name] = {"image pulled", "profile saved"}
    BY <1>11, LeftAre, Zenon
  <2> QED
    BY ZenonT(60), <1>3, <2>1, <2>2 DEF Yields, name
<1>12. CASE name = "remove"
  <2>1. Way[name] = {"ask", "remove"}
    BY <1>12, WaysAre, Zenon
  <2>2. MayLeave[name] = {"profile removed"}
    BY <1>12, LeftAre, Zenon
  <2> QED
    BY ZenonT(60), <1>3, <2>1, <2>2 DEF Yields, name
<1>13. CASE name = "prune"
  <2>1. Way[name] = {"plan", "agree", "prune"}
    BY <1>13, WaysAre, Zenon
  <2>2. MayLeave[name] = {"dumps pruned"}
    BY <1>13, LeftAre, Zenon
  <2> QED
    BY ZenonT(60), <1>3, <2>1, <2>2 DEF Yields, name
<1>14. CASE name = "doctor"
  <2>1. Way[name] = {"doctor"}
    BY <1>14, WaysAre, Zenon
  <2>2. MayLeave[name] = {}
    BY <1>14, LeftAre, Zenon
  <2> QED
    BY ZenonT(60), <1>3, <2>1, <2>2 DEF Yields, name
<1> QED
  BY <1>2, <1>4, <1>5, <1>6, <1>7, <1>8, <1>9, <1>10, <1>11, <1>12, <1>13, <1>14

(* The step that fails, the step that goes on, and the step that leaves    *)
(* something behind.                                                       *)
LEMMA Ends ==
  ASSUME RunInvariant, NEW effects, NEW why, why = Ok \/ why \in Errors,
         run' = [run EXCEPT !.pc = "ended", !.why = why, !.done = @ \cup effects],
         effects \subseteq MayLeave[run.line.name],
         run.done \cup effects \subseteq Recoverable \/ NoUsage(why)
  PROVE  RunInvariant'
<1>1. /\ IsRun' /\ run'.pc = "ended" /\ run'.line = run.line /\ run'.why = why
      /\ run'.done = run.done \cup effects
      /\ run'.steady = run.steady /\ run'.interrupted = run.interrupted
  BY DEF RunInvariant, IsRun, Fields
<1>2. StillHarmless'
  BY <1>1 DEF StillHarmless, NoUsage
<1> QED
  BY <1>1, <1>2 DEF RunInvariant

LEMMA EndsPlainly ==
  ASSUME RunInvariant, NEW why \in Errors, End(why),
         run.done \subseteq Recoverable \/ NoUsage(why)
  PROVE  RunInvariant'
<1>1. /\ IsRun' /\ run'.pc = "ended" /\ run'.line = run.line /\ run'.why = why
      /\ run'.done = run.done
      /\ run'.steady = run.steady /\ run'.interrupted = run.interrupted
  BY DEF RunInvariant, IsRun, Fields, End
<1>2. StillHarmless'
  BY <1>1 DEF StillHarmless, NoUsage
<1> QED
  BY <1>1, <1>2 DEF RunInvariant

LEMMA Goes ==
  ASSUME RunInvariant, NEW next \in Way[run.line.name] \cup {"ended"},
         run' = [run EXCEPT !.pc = next], run.done \subseteq Recoverable \/ next \in Committed
  PROVE  RunInvariant'
<1>1. /\ IsRun' /\ run'.pc = next /\ run'.line = run.line /\ run'.why = run.why
      /\ run'.done = run.done
      /\ run'.steady = run.steady /\ run'.interrupted = run.interrupted
  BY DEF RunInvariant, IsRun, Fields
<1>2. StillHarmless'
  BY <1>1 DEF StillHarmless, NoUsage
<1> QED
  BY <1>1, <1>2 DEF RunInvariant

LEMMA Leaving ==
  ASSUME RunInvariant, NEW effects, NEW next \in Way[run.line.name] \cup {"ended"},
         Leave(effects, next), effects \subseteq MayLeave[run.line.name],
         run.done \cup effects \subseteq Recoverable \/ next \in Committed \cup {"ended"}
  PROVE  RunInvariant'
<1>1. /\ IsRun' /\ run'.pc = next /\ run'.line = run.line
      /\ run'.why = IF next = "ended" THEN Ok ELSE run.why
      /\ run'.done = run.done \cup effects
      /\ run'.steady = run.steady /\ run'.interrupted = run.interrupted
  BY DEF RunInvariant, IsRun, Fields, Leave
<1>2. StillHarmless'
  BY <1>1 DEF StillHarmless, NoUsage
<1> QED
  BY <1>1, <1>2 DEF RunInvariant

(* A question or a check, asked before anything is lost.                   *)
Early == run.pc \notin Committed \cup {"ended"}

LEMMA EarlyIsHarmless ==
  ASSUME RunInvariant, Early
  PROVE  run.done \subseteq Recoverable
  BY DEF RunInvariant, Early, StillHarmless

LEMMA Tries ==
  ASSUME RunInvariant, Early, NEW layer, NEW X, NEW error \in X,
         \A e \in X \ {"ok"} : <<layer, e>> \in Errors,
         NEW next \in Way[run.line.name] \cup {"ended"}, Try(layer, error, next)
  PROVE  RunInvariant'
<1>1. run.done \subseteq Recoverable
  BY EarlyIsHarmless
<1>2. CASE error = "ok"
  BY <1>1, <1>2, Goes DEF Try
<1>3. CASE error # "ok"
  BY <1>1, <1>3, EndsPlainly DEF Try
<1> QED
  BY <1>2, <1>3

(* The questions after a load.                                             *)
LEMMA LoadThen ==
  ASSUME NEW X, "ok" \in X, "Config" \in X, NEW errors \in Seq(X), Len(errors) <= 5
  PROVE  First(<<Load>> \o errors) \in X
<1> DEFINE l == <<Load>>
           s == l \o errors
           E == X \ {"ok"}
<1>1. Load \in X
  BY DEF Load, When
<1>2. l \in Seq(X) /\ Len(l) = 1
  BY <1>1
<1>3. s \in Seq(X) /\ Len(s) <= 6
  <2> HIDE DEF l
  <2>1. s \in Seq(X) /\ Len(s) = Len(l) + Len(errors)
    BY <1>2, ConcatProperties
  <2>2. Len(errors) \in Nat
    OBVIOUS
  <2> QED
    BY <1>2, <2>1, <2>2
<1>4. X = E \cup {"ok"}
  OBVIOUS
<1>5. First(s) \in X
  <2> HIDE DEF s, E
  <2> QED
    BY <1>3, <1>4, FirstIn
<1> QED
  BY <1>5

LEMMA LoadThenOne ==
  ASSUME NEW X, "ok" \in X, "Config" \in X, NEW a \in X
  PROVE  First(<<Load>> \o <<a>>) \in X
<1>1. <<a>> \in Seq(X) /\ Len(<<a>>) <= 5
  OBVIOUS
<1> QED
  BY <1>1, LoadThen, Zenon

LEMMA LoadThenTwo ==
  ASSUME NEW X, "ok" \in X, "Config" \in X, NEW a \in X, NEW b \in X
  PROVE  First(<<Load>> \o <<a, b>>) \in X
<1>1. <<a, b>> \in Seq(X) /\ Len(<<a, b>>) <= 5
  OBVIOUS
<1> QED
  BY <1>1, LoadThen, Zenon

LEMMA LoadThenThree ==
  ASSUME NEW X, "ok" \in X, "Config" \in X, NEW a \in X, NEW b \in X, NEW c \in X
  PROVE  First(<<Load>> \o <<a, b, c>>) \in X
<1>1. <<a, b, c>> \in Seq(X) /\ Len(<<a, b, c>>) <= 5
  OBVIOUS
<1> QED
  BY <1>1, LoadThen, Zenon

LEMMA LoadThenFour ==
  ASSUME NEW X, "ok" \in X, "Config" \in X, NEW a \in X, NEW b \in X, NEW c \in X, NEW d \in X
  PROVE  First(<<Load>> \o <<a, b, c, d>>) \in X
<1>1. <<a, b, c, d>> \in Seq(X) /\ Len(<<a, b, c, d>>) <= 5
  OBVIOUS
<1> QED
  BY <1>1, LoadThen, Zenon

LEMMA ListKeeps ==
  ASSUME RunInvariant, ListDatabases \/ ReadDatabases
  PROVE  RunInvariant'
<1> DEFINE X == CatalogErrors \cup {"ok"}
<1>1. /\ "ok" \in X /\ "Config" \in X /\ "NoActiveProfile" \in X /\ "Credential" \in X
      /\ ReadCatalog(world) \in X
  BY ServiceAnswers DEF CatalogErrors
<1>2. \A e \in X \ {"ok"} : <<"catalog", e>> \in Errors
  BY ErrorsAre
<1>3. Leads("catalog", "read")
  BY StagesTell DEF RunInvariant
<1> HIDE DEF X
<1>4. CASE ListDatabases
  <2>1. First(<<Load>> \o
              <<When(~HasProfile(world) \/ ~HasContext(world), "NoActiveProfile"),
                When(Bad(world, "source", "no key"), "Credential")>>) \in X
    BY <1>1, WhenIn, LoadThenTwo, Zenon
  <2>2. Early /\ "read" \in Way[run.line.name] \cup {"ended"}
    BY <1>3, <1>4 DEF ListDatabases, Running, Leads, Early, Committed
  <2> QED
    BY <1>2, <1>4, <2>1, <2>2, Tries, Zenon DEF ListDatabases, Loading
<1>5. CASE ReadDatabases
  <2>1. First(<<ReadCatalog(world)>>) \in X
    BY <1>1, InOne, Zenon
  <2>2. Early
    BY <1>5 DEF ReadDatabases, Running, Early, Committed
  <2>3. "ended" \in Way[run.line.name] \cup {"ended"}
    OBVIOUS
  <2> QED
    BY <1>2, <1>5, <2>1, <2>2, <2>3, Tries, Zenon DEF ReadDatabases, Looking
<1> QED
  BY <1>4, <1>5

LEMMA DumpKeeps ==
  ASSUME RunInvariant, CreateDump \/ Assess \/ Export \/ Publish
  PROVE  RunInvariant'
<1> DEFINE X == DumpErrors \cup {"ok"}
           C == ClientErrors \cup {"ok"}
<1>1. /\ "ok" \in X /\ "Config" \in X /\ "NoActiveProfile" \in X /\ "Credential" \in X
      /\ "DockerContextMissing" \in X /\ "Lock" \in X /\ "Interrupted" \in X /\ "Start" \in X
      /\ "DockerUnavailable" \in X
  BY DEF DumpErrors, DumpFailures
<1>2. /\ \A e \in X \ {"ok"} : <<"dump", e>> \in Errors
      /\ \A e \in C \ {"ok"} : <<"client", e>> \in Errors
  BY ErrorsAre
<1>3. Leads("create", "assess") /\ Leads("assess", "export") /\ Leads("export", "publish")
  BY StagesTell DEF RunInvariant
<1>4. /\ DumpPolicy(world) \in X
      /\ AssessSource(world) \notin ClientErrors => AssessSource(world) \in X
      /\ AssessSource(world) \in ClientErrors => AssessSource(world) \in C
      /\ OptionFile(world) \in C /\ "ok" \in C
  BY ServiceAnswers, ClientAnswers
<1>5. \A e : DumpFailure(e) \in X
  BY DEF DumpFailure, DumpErrors, DumpFailures
<1> HIDE DEF X, C
<1>6. CASE CreateDump
  <2>1. First(<<Load>> \o
              <<When(~HasProfile(world), "NoActiveProfile"),
                When(~HasContext(world), "DockerContextMissing"),
                When(Bad(world, "source", "no key"), "Credential"),
                When(Bad(world, "cache", "locked"), "Lock")>>) \in X
    BY <1>1, WhenIn, LoadThenFour, Zenon
  <2>2. Early /\ "assess" \in Way[run.line.name] \cup {"ended"}
    BY <1>3, <1>6 DEF CreateDump, Running, Leads, Early, Committed
  <2> QED
    BY <1>2, <1>6, <2>1, <2>2, Tries, Zenon DEF CreateDump, Loading
<1>7. CASE Assess
  <2>1. Early /\ "export" \in Way[run.line.name] \cup {"ended"}
    BY <1>3, <1>7 DEF Assess, Running, Leads, Early, Committed
  <2>2. CASE AssessSource(world) \in ClientErrors
    <3>1. First(<<AssessSource(world)>>) \in C
      BY <1>4, <2>2, InOne, Zenon
    <3> QED
      BY <1>2, <1>7, <2>1, <2>2, <3>1, Tries, Zenon DEF Assess, Looking
  <2>3. CASE AssessSource(world) \notin ClientErrors
    <3>1. First(<<AssessSource(world), DumpPolicy(world)>>) \in X
      BY <1>1, <1>4, <2>3, InTwo, Zenon
    <3> QED
      BY <1>2, <1>7, <2>1, <2>3, <3>1, Tries, Zenon DEF Assess, Looking
  <2> QED
    BY <2>2, <2>3
<1>8. CASE Export
  <2>1. Early /\ "publish" \in Way[run.line.name] \cup {"ended"}
    BY <1>3, <1>8 DEF Export, Running, Leads, Early, Committed
  <2>2. CASE OptionFile(world) # "ok" /\ ~run.interrupted
    <3>1. First(<<OptionFile(world)>>) \in C
      BY <1>4, InOne, Zenon
    <3> QED
      BY <1>2, <1>8, <2>1, <2>2, <3>1, Tries, Zenon DEF Export, Looking
  <2>3. CASE ~(OptionFile(world) # "ok" /\ ~run.interrupted)
    <3>1. First(<<When(run.interrupted, "Interrupted"),
                  When(Bad(world, "docker", "missing"), "Start"),
                  When(Bad(world, "docker", "down"), "DockerUnavailable"),
                  DumpFailure(Probe(world, "source"))>>) \in X
      BY <1>1, <1>5, WhenIn, InFour, Zenon
    <3> QED
      BY <1>2, <1>8, <2>1, <2>3, <3>1, Tries, Zenon DEF Export, Looking
  <2> QED
    BY <2>2, <2>3
<1>9. CASE Publish
  <2>1. run.pc = "publish" /\ Early
    BY <1>9 DEF Publish, Running, Early, Committed
  <2>2. run.line \in Lines /\ run.pc \in Way[run.line.name]
    BY <2>1 DEF RunInvariant
  <2>3. PICK next \in Way[run.line.name] \cup {"ended"} : Leave({"dump created"}, next)
    <3>1. CASE run.line.name = "dump"
      BY <1>9, <3>1 DEF Publish
    <3>2. CASE run.line.name = "pull" /\ "database" \in Way[run.line.name]
      BY <1>9, <3>2 DEF Publish
    <3>3. CASE run.line.name = "push" /\ "artifact" \in Way[run.line.name]
      BY <1>9, <3>3 DEF Publish
    <3> QED
      BY <2>1, <2>2, <3>1, <3>2, <3>3, PublishTells
  <2>4. {"dump created"} \subseteq MayLeave[run.line.name]
    BY <2>1, StagesYield DEF RunInvariant, Yields
  <2>5. run.done \cup {"dump created"} \subseteq Recoverable
    BY <2>1, EarlyIsHarmless DEF Recoverable
  <2> QED
    BY <2>3, <2>4, <2>5, Leaving
<1> QED
  BY <1>6, <1>7, <1>8, <1>9

LEMMA RestoreKeeps ==
  ASSUME RunInvariant, ChooseDump \/ ValidateDump \/ LoadTarget \/ AttestTarget \/ StartRestore
  PROVE  RunInvariant'
<1> DEFINE X == RestoreErrors \cup {"ok"}
           T == LocalTargetErrors \cup {"ok"}
<1>1. /\ "ok" \in X /\ "NoCandidates" \in X /\ "Unavailable" \in X /\ "Artifact" \in X
      /\ "VersionMismatch" \in X /\ "Lock" \in X
  BY DEF RestoreErrors, EngineErrors
<1>2. /\ "ok" \in T /\ "Config" \in T /\ "NotConfigured" \in T /\ "RuntimeContextMissing" \in T
      /\ "Credential" \in T /\ "UnsupportedVendor" \in T /\ Attest(world) \in T
  BY AttestAnswers DEF LocalTargetErrors
<1>3. /\ \A e \in X \ {"ok"} : <<"restore", e>> \in Errors
      /\ \A e \in T \ {"ok"} : <<"local target", e>> \in Errors
  BY ErrorsAre
<1>4. /\ Leads("choose", "validate") /\ Leads("validate", "gate") /\ Leads("gate", "attest")
      /\ Leads("attest", "engine") /\ Leads("engine", "recreate")
  BY StagesTell DEF RunInvariant
<1> HIDE DEF X, T
<1>5. CASE ChooseDump
  <2>1. First(<<When(Bad(world, "cache", "empty"), "NoCandidates"),
                When(~Interactive, "Unavailable"), Prompt>>) \in X
    BY <1>1, WhenIn, InThree, Zenon DEF Prompt
  <2>2. Early /\ "validate" \in Way[run.line.name] \cup {"ended"}
    BY <1>4, <1>5 DEF ChooseDump, Running, Leads, Early, Committed
  <2> QED
    BY <1>3, <1>5, <2>1, <2>2, Tries, Zenon DEF ChooseDump, Looking
<1>6. CASE ValidateDump
  <2>1. First(<<When(~Sound(world), "Artifact")>>) \in X
    BY <1>1, WhenIn, InOne, Zenon
  <2>2. Early /\ "gate" \in Way[run.line.name] \cup {"ended"}
    BY <1>4, <1>6 DEF ValidateDump, Running, Leads, Early, Committed
  <2> QED
    BY <1>3, <1>6, <2>1, <2>2, Tries, Zenon DEF ValidateDump, Looking
<1>7. CASE LoadTarget
  <2>1. First(<<Load>> \o
              <<When(~HasTarget(world), "NotConfigured"),
                When(~HasContext(world), "RuntimeContextMissing"),
                When(Bad(world, "target", "no key"), "Credential")>>) \in T
    BY <1>2, WhenIn, LoadThenThree, Zenon
  <2>2. Early /\ "attest" \in Way[run.line.name] \cup {"ended"}
    BY <1>4, <1>7 DEF LoadTarget, Running, Leads, Early, Committed
  <2> QED
    BY <1>3, <1>7, <2>1, <2>2, Tries, Zenon DEF LoadTarget, Loading
<1>8. CASE AttestTarget
  <2>1. First(<<Attest(world),
                When(Bad(world, "target", "other vendor"), "UnsupportedVendor")>>) \in T
    BY <1>2, WhenIn, InTwo, Zenon
  <2>2. Early /\ "engine" \in Way[run.line.name] \cup {"ended"}
    BY <1>4, <1>8 DEF AttestTarget, Running, Leads, Early, Committed
  <2> QED
    BY <1>3, <1>8, <2>1, <2>2, Tries, Zenon DEF AttestTarget, Looking
<1>9. CASE StartRestore
  <2>1. First(<<When(Older("target"), "VersionMismatch"),
                When(Bad(world, "cache", "locked"), "Lock")>>) \in X
    BY <1>1, WhenIn, InTwo, Zenon
  <2>2. Early /\ "recreate" \in Way[run.line.name] \cup {"ended"}
    BY <1>4, <1>9 DEF StartRestore, Running, Leads, Early, Committed
  <2> QED
    BY <1>3, <1>9, <2>1, <2>2, Tries, Zenon DEF StartRestore, Looking
<1> QED
  BY <1>5, <1>6, <1>7, <1>8, <1>9

LEMMA PullKeeps ==
  ASSUME RunInvariant, SelectTarget \/ LookUp \/ SelectDatabase
  PROVE  RunInvariant'
<1> DEFINE X == PullErrors \cup {"ok"}
<1>1. /\ "ok" \in X /\ "Config" \in X /\ "NoActiveProfile" \in X /\ "TargetSelection" \in X
      /\ "DatabaseSelection" \in X
  BY DEF PullErrors
<1>2. \A e \in X \ {"ok"} : <<"pull", e>> \in Errors
  BY ErrorsAre
<1>3. /\ Leads("select", "look up") /\ Leads("look up", "create")
      /\ Leads("look up", "database") /\ Leads("database", "validate")
  BY StagesTell DEF RunInvariant
<1> HIDE DEF X
<1>4. CASE SelectTarget
  <2>1. First(<<Load>> \o
              <<When(~HasProfile(world), "NoActiveProfile"),
                When(~HasTarget(world), "TargetSelection"),
                When(/\ ~Flag("named")
                     /\ PullInteractive
                     /\ Bad(world, "target", "second")
                     /\ Prompt # "ok", "TargetSelection")>>) \in X
    BY <1>1, WhenIn, LoadThenThree, Zenon
  <2>2. Early /\ "look up" \in Way[run.line.name] \cup {"ended"}
    BY <1>3, <1>4 DEF SelectTarget, Running, Leads, Early, Committed
  <2> QED
    BY <1>2, <1>4, <2>1, <2>2, Tries, Zenon DEF SelectTarget, Loading
<1>5. CASE LookUp
  <2>1. PICK next \in {"create", "database"} : Looking("pull", <<>>, next)
    BY <1>5 DEF LookUp
  <2>2. Early /\ next \in Way[run.line.name] \cup {"ended"}
    BY <1>3, <1>5, <2>1 DEF LookUp, Running, Leads, Early, Committed
  <2>3. First(<<>>) \in X
    BY <1>1, FirstOk
  <2> QED
    BY <1>2, <2>1, <2>2, <2>3, Tries, Zenon DEF Looking
<1>6. CASE SelectDatabase
  <2>1. First(<<When(~Flag("named") /\ PullInteractive /\ Prompt # "ok",
                     "DatabaseSelection")>>) \in X
    BY <1>1, WhenIn, InOne, Zenon
  <2>2. Early /\ "validate" \in Way[run.line.name] \cup {"ended"}
    BY <1>3, <1>6 DEF SelectDatabase, Running, Leads, Early, Committed
  <2> QED
    BY <1>2, <1>6, <2>1, <2>2, Tries, Zenon DEF SelectDatabase, Looking
<1> QED
  BY <1>4, <1>5, <1>6

(* The executors: what they fail with is never the user's mistake.         *)
LEMMA ExecutorAnswers ==
  ASSUME NEW part
  PROVE  /\ Execution(part, "TargetUnavailable") \in ExecutorErrors \cup {"ok"}
         /\ Execution(part, "DestinationUnavailable") \in RemoteErrors \cup {"ok"}
<1>1. OptionFile(world) \in {"ok", "OptionFile"}
  BY DEF OptionFile, When
<1>2. Execution(part, "TargetUnavailable") \in ExecutorErrors \cup {"ok"}
  <2> DEFINE X == ExecutorErrors \cup {"ok"}
  <2>1. /\ "ok" \in X /\ "Interrupted" \in X /\ "Start" \in X /\ "DockerUnavailable" \in X
        /\ OptionFile(world) \in X
        /\ \A e : RestoreFailure(e, "TargetUnavailable") \in X
    BY <1>1 DEF ExecutorErrors, RestoreFailure
  <2> HIDE DEF X
  <2>2. Execution(part, "TargetUnavailable") \in X
    BY <2>1, WhenIn, InFive, Zenon DEF Execution
  <2> QED
    BY <2>2 DEF X
<1>3. Execution(part, "DestinationUnavailable") \in RemoteErrors \cup {"ok"}
  <2> DEFINE X == RemoteErrors \cup {"ok"}
  <2>1. /\ "ok" \in X /\ "Interrupted" \in X /\ "Start" \in X /\ "DockerUnavailable" \in X
        /\ OptionFile(world) \in X
        /\ \A e : RestoreFailure(e, "DestinationUnavailable") \in X
    BY <1>1 DEF RemoteErrors, RestoreFailure
  <2> HIDE DEF X
  <2>2. Execution(part, "DestinationUnavailable") \in X
    BY <2>1, WhenIn, InFive, Zenon DEF Execution
  <2> QED
    BY <2>2 DEF X
<1> QED
  BY <1>2, <1>3

LEMMA ExecuteKeeps ==
  ASSUME RunInvariant, NEW layer \in {"executor", "remote"}, NEW e, NEW effect, NEW next,
         Execute(layer, e, effect, next), e # "ok" => <<layer, e>> \in Errors,
         effect \in MayLeave[run.line.name], next \in Way[run.line.name] \cup {"ended"},
         next \in Committed \cup {"ended"}
  PROVE  RunInvariant'
<1>1. NoUsage(<<layer, e>>)
  <2>1. layer = "executor" => Category(<<layer, e>>) = ExecutorCategory(e)
    BY DEF Category
  <2>2. layer = "remote" => Category(<<layer, e>>) = RemoteFailureCategory(e)
    BY DEF Category
  <2>3. ExecutorCategory(e) # "Usage" /\ RemoteFailureCategory(e) # "Usage"
    BY DEF ExecutorCategory, RemoteFailureCategory
  <2> QED
    BY <2>1, <2>2, <2>3 DEF NoUsage
<1>2. CASE e = "ok" /\ Leave({effect}, next)
  <2>1. {effect} \subseteq MayLeave[run.line.name]
    OBVIOUS
  <2> QED
    BY <1>2, <2>1, Leaving
<1>3. CASE ~(e = "ok" /\ Leave({effect}, next))
  <2>1. PICK partly \in {{}, {effect}} :
          /\ e # "ok"
          /\ run' = [run EXCEPT !.pc = "ended", !.why = <<layer, e>>, !.done = @ \cup partly]
    BY <1>3, Zenon DEF Execute
  <2>2. partly \subseteq MayLeave[run.line.name]
    BY <2>1
  <2> QED
    BY <1>1, <2>1, <2>2, Ends
<1> QED
  BY <1>2, <1>3

LEMMA ExecutorsKeep ==
  ASSUME RunInvariant, RecreateDatabase \/ ImportDump \/ EnsureDatabase \/ ImportRemote
  PROVE  RunInvariant'
<1>1. /\ Leads("recreate", "import") /\ Leads("ensure", "write")
  BY StagesTell DEF RunInvariant
<1>2. /\ Yields("recreate", "database dropped") /\ Yields("import", "database imported")
      /\ Yields("ensure", "remote created") /\ Yields("write", "remote imported")
  BY StagesYield DEF RunInvariant
<1> DEFINE e == Execution("target", "TargetUnavailable")
           r == Execution("destination", "DestinationUnavailable")
<1>3. /\ e # "ok" => <<"executor", e>> \in Errors
      /\ r # "ok" => <<"remote", r>> \in Errors
  BY ExecutorAnswers, ErrorsAre
<1> HIDE DEF e, r
<1>4. CASE RecreateDatabase
  <2>1. Running("recreate") /\ Execute("executor", e, "database dropped", "import")
    BY <1>4 DEF RecreateDatabase, e
  <2> QED
    BY <1>1, <1>2, <1>3, <2>1, ExecuteKeeps DEF Running, Leads, Yields, Committed
<1>5. CASE ImportDump
  <2>1. Running("import") /\ Execute("executor", e, "database imported", "ended")
    BY <1>5 DEF ImportDump, e
  <2> QED
    BY <1>1, <1>2, <1>3, <2>1, ExecuteKeeps DEF Running, Leads, Yields, Committed
<1>6. CASE EnsureDatabase
  <2>1. Running("ensure") /\ Execute("remote", r, "remote created", "write")
    BY <1>6 DEF EnsureDatabase, r
  <2> QED
    BY <1>1, <1>2, <1>3, <2>1, ExecuteKeeps DEF Running, Leads, Yields, Committed
<1>7. CASE ImportRemote
  <2>1. Running("write") /\ Execute("remote", r, "remote imported", "ended")
    BY <1>7 DEF ImportRemote, r
  <2> QED
    BY <1>1, <1>2, <1>3, <2>1, ExecuteKeeps DEF Running, Leads, Yields, Committed
<1> QED
  BY <1>4, <1>5, <1>6, <1>7

LEMMA PushKeeps ==
  ASSUME RunInvariant,
         \/ ChooseDestination \/ AskConsent \/ VerifyDestination \/ ChoosePushDump
         \/ ValidatePushDump \/ AskDowngrade \/ ConfirmPush \/ LockDestination
  PROVE  RunInvariant'
<1> DEFINE X == PushErrors \cup {"ok"}
           T == RemoteTargetErrors \cup {"ok"}
           C == ClientErrors \cup {"ok"}
<1>1. /\ "ok" \in X /\ "NoEligibleProfile" \in X /\ "Unavailable" \in X /\ "UnknownDump" \in X
      /\ "Artifact" \in X /\ "Lock" \in X
  BY DEF PushErrors
<1>2. /\ "ok" \in T /\ "Config" \in T /\ "DockerContextMissing" \in T /\ "Credential" \in T
      /\ "TlsRequiredButNotNegotiated" \in T /\ "UnsupportedVendor" \in T
      /\ "UnsupportedServerSeries" \in T /\ Load \in T
  BY DEF RemoteTargetErrors, Load, When
<1>3. ProbeDestination(world) \in C
  BY ServiceAnswers
<1>4. /\ \A e \in X \ {"ok"} : <<"push", e>> \in Errors
      /\ \A e \in T \ {"ok"} : <<"remote target", e>> \in Errors
      /\ \A e \in C \ {"ok"} : <<"client", e>> \in Errors
  BY ErrorsAre
<1>5. /\ Leads("eligible", "consent") /\ Leads("eligible", "destination")
      /\ Leads("consent", "destination") /\ Leads("destination", "choice")
      /\ Leads("choice", "create") /\ Leads("choice", "artifact")
      /\ Leads("artifact", "downgrade") /\ Leads("downgrade", "confirm")
      /\ Leads("confirm", "lock") /\ Leads("lock", "ensure")
  BY StagesTell DEF RunInvariant
<1>6. Early => run.done \subseteq Recoverable
  BY EarlyIsHarmless
<1>7. /\ NoUsage(<<"push", "Lock">>)
      /\ Load # "ok" => <<"remote target", Load>> \in Errors
  BY <1>2, <1>4 DEF NoUsage, Category, PushCategory
<1> HIDE DEF X, T, C
<1>8. CASE ChooseDestination
  <2>1. Early
    BY <1>8 DEF ChooseDestination, Running, Early, Committed
  <2>2. CASE Load # "ok"
    BY <1>6, <1>7, <1>8, <2>1, <2>2, EndsPlainly DEF ChooseDestination
  <2>3. CASE Load = "ok"
    <3> DEFINE e == First(<<When(Empty(world) \/ Bad(world, "destination", "none"),
                                 "NoEligibleProfile"),
                            When(~Flag("yes") /\ ~Interactive, "Unavailable"),
                            When(~Flag("profile") /\ ~Interactive, "Unavailable")>>)
               next == IF Bad(world, "destination", "never allowed")
                       THEN "consent" ELSE "destination"
    <3>1. e \in X
      BY <1>1, WhenIn, InThree, Zenon
    <3>2. next \in Way[run.line.name] \cup {"ended"}
      BY <1>5, <1>8 DEF ChooseDestination, Running, Leads
    <3>3. Try("push", e, next)
      BY <1>8, <2>3, Zenon DEF ChooseDestination
    <3> HIDE DEF e, next
    <3> QED
      BY <1>4, <2>1, <3>1, <3>2, <3>3, Tries, Zenon
  <2> QED
    BY <2>2, <2>3
<1>9. CASE AskConsent
  <2>1. PICK next \in {"destination", "ended"} :
          Looking("push", <<When(~Interactive, "Unavailable")>>, next)
    BY <1>9 DEF AskConsent, Answer
  <2>2. First(<<When(~Interactive, "Unavailable")>>) \in X
    BY <1>1, WhenIn, InOne, Zenon
  <2>3. Early /\ next \in Way[run.line.name] \cup {"ended"}
    BY <1>5, <1>9, <2>1 DEF AskConsent, Running, Leads, Early, Committed
  <2> QED
    BY <1>4, <2>1, <2>2, <2>3, Tries, Zenon DEF Looking
<1>10. CASE VerifyDestination
  <2> DEFINE configured ==
               First(<<Load,
                       When(~HasContext(world), "DockerContextMissing"),
                       When(Bad(world, "destination", "no key"), "Credential")>>)
             probed == ProbeDestination(world)
             accepted ==
               First(<<When(~Encrypted(world, "destination"), "TlsRequiredButNotNegotiated"),
                       When(MariaDb(world, "destination"), "UnsupportedVendor"),
                       When(Reported(world, "destination") # Configured(world, "destination"),
                            "UnsupportedServerSeries")>>)
  <2>1. Early /\ "choice" \in Way[run.line.name] \cup {"ended"}
    BY <1>5, <1>10 DEF VerifyDestination, Running, Leads, Early, Committed
  <2>2. configured \in T /\ accepted \in T
    BY <1>2, WhenIn, InThree, Zenon
  <2>3. First(<<configured, accepted>>) \in T
    <3> HIDE DEF configured, accepted
    <3> QED
      BY <1>2, <2>2, InTwo, Zenon
  <2>4. \/ probed # "ok" /\ End(<<"client", probed>>)
        \/ Try("remote target", First(<<configured, accepted>>), "choice")
    BY <1>10, Zenon DEF VerifyDestination
  <2> HIDE DEF configured, accepted
  <2>5. CASE probed # "ok" /\ End(<<"client", probed>>)
    <3>1. <<"client", probed>> \in Errors
      BY <1>3, <1>4, <2>5
    <3> HIDE DEF probed
    <3> QED
      BY <1>6, <2>1, <2>5, <3>1, EndsPlainly
  <2>6. CASE Try("remote target", First(<<configured, accepted>>), "choice")
    BY <1>4, <2>1, <2>3, <2>6, Tries, Zenon
  <2> QED
    BY <2>4, <2>5, <2>6
<1>11. CASE ChoosePushDump
  <2> DEFINE absent == Bad(world, "cache", "empty")
             errors == <<When(Flag("dump id") /\ absent, "UnknownDump"),
                         When(~Flag("fresh") /\ ~Flag("dump id") /\ ~Interactive,
                              "Unavailable")>>
  <2>1. PICK next \in {"create", "artifact"} : Looking("push", errors, next)
    BY <1>11 DEF ChoosePushDump
  <2>2. First(errors) \in X
    BY <1>1, WhenIn, InTwo, Zenon
  <2>3. Early /\ next \in Way[run.line.name] \cup {"ended"}
    BY <1>5, <1>11, <2>1 DEF ChoosePushDump, Running, Leads, Early, Committed
  <2> QED
    BY <1>4, <2>1, <2>2, <2>3, Tries, Zenon DEF Looking
<1>12. CASE ValidatePushDump
  <2>1. First(<<When(~Sound(world), "Artifact")>>) \in X
    BY <1>1, WhenIn, InOne, Zenon
  <2>2. Early /\ "downgrade" \in Way[run.line.name] \cup {"ended"}
    BY <1>5, <1>12 DEF ValidatePushDump, Running, Leads, Early, Committed
  <2> QED
    BY <1>4, <1>12, <2>1, <2>2, Tries, Zenon DEF ValidatePushDump, Looking
<1>13. CASE AskDowngrade
  <2> DEFINE asks == Older("destination") /\ ~Flag("downgrade")
             e == When(asks /\ ~Interactive, "Unavailable")
  <2>1. Early
    BY <1>13 DEF AskDowngrade, Running, Early, Committed
  <2>2. CASE Load # "ok"
    <3>1. End(<<"remote target", Load>>)
      BY <1>13, <2>2 DEF AskDowngrade
    <3> QED
      BY <1>6, <1>7, <2>1, <2>2, <3>1, EndsPlainly
  <2>3. CASE Load = "ok"
    <3>1. PICK next \in {"confirm", "ended"} : Try("push", e, next)
      BY <1>13, <2>3 DEF AskDowngrade, Answer
    <3>2. e \in X
      BY <1>1, WhenIn, Zenon
    <3>3. next \in Way[run.line.name] \cup {"ended"}
      BY <1>5, <1>13, <3>1 DEF AskDowngrade, Running, Leads
    <3> HIDE DEF e
    <3> QED
      BY <1>4, <2>1, <3>1, <3>2, <3>3, Tries, Zenon
  <2> QED
    BY <2>2, <2>3
<1>14. CASE ConfirmPush
  <2>1. Early /\ "lock" \in Way[run.line.name] \cup {"ended"}
    BY <1>5, <1>14 DEF ConfirmPush, Running, Leads, Early, Committed
  <2>2. CASE Looking("push", <<When(~Interactive, "Unavailable")>>, "ended")
    <3>1. First(<<When(~Interactive, "Unavailable")>>) \in X
      BY <1>1, WhenIn, InOne, Zenon
    <3>2. "ended" \in Way[run.line.name] \cup {"ended"}
      OBVIOUS
    <3> QED
      BY <1>4, <2>1, <2>2, <3>1, <3>2, Tries, Zenon DEF Looking
  <2>3. CASE Leave({"push allowed"}, "lock")
    <3>1. {"push allowed"} \subseteq MayLeave[run.line.name]
      BY <1>14, StagesYield DEF ConfirmPush, Running, RunInvariant, Yields
    <3>2. "lock" \in Committed \cup {"ended"}
      BY DEF Committed
    <3> QED
      BY <2>1, <2>3, <3>1, <3>2, Leaving
  <2>4. CASE Load # "ok" /\ End(<<"remote target", Load>>)
    BY <1>6, <1>7, <2>1, <2>4, EndsPlainly
  <2>5. CASE run' = [run EXCEPT !.pc = "lock"]
    BY <1>6, <2>1, <2>5, Goes
  <2> QED
    BY <1>14, <2>2, <2>3, <2>4, <2>5 DEF ConfirmPush
<1>15. CASE LockDestination
  <2> DEFINE e == First(<<When(Bad(world, "cache", "locked"), "Lock")>>)
  <2>1. e \in {"ok", "Lock"}
    <3> DEFINE Y == {"ok", "Lock"}
    <3>1. "ok" \in Y /\ "Lock" \in Y
      OBVIOUS
    <3> HIDE DEF Y
    <3>2. e \in Y
      BY <3>1, WhenIn, InOne, Zenon
    <3> QED
      BY <3>2 DEF Y
  <2>2. Try("push", e, "ensure") /\ run.pc = "lock"
    BY <1>15, Zenon DEF LockDestination, Looking, Running
  <2>3. "ensure" \in Way[run.line.name] \cup {"ended"} /\ "ensure" \in Committed
    BY <1>5, <2>2 DEF Leads, Committed
  <2>4. CASE e = "ok"
    BY <2>2, <2>3, <2>4, Goes DEF Try
  <2>5. CASE e # "ok"
    <3>1. End(<<"push", "Lock">>) /\ <<"push", "Lock">> \in Errors
      BY <1>1, <1>4, <2>1, <2>2, <2>5 DEF Try
    <3> QED
      BY <1>7, <3>1, EndsPlainly
  <2> QED
    BY <2>4, <2>5
<1> QED
  BY <1>8, <1>9, <1>10, <1>11, <1>12, <1>13, <1>14, <1>15

LEMMA SetupKeeps ==
  ASSUME RunInvariant,
         \/ ResetConfiguration \/ DiscoverTargets \/ StartContainer \/ ReplaceTarget
         \/ ConfigureTarget
  PROVE  RunInvariant'
<1> DEFINE X == PromptErrors \cup {"ok"}
           S == SetupErrors \cup {"ok"}
           D == DiscoveryErrors \cup {"ok"}
<1>1. /\ "ok" \in X /\ "IncompleteNonInteractive" \in X /\ "Unavailable" \in X
      /\ "NonInteractiveTargetNotRunning" \in X
  BY DEF PromptErrors
<1>2. /\ "ok" \in S /\ "NoCandidates" \in S /\ "InvalidField" \in S /\ "Config" \in S
      /\ Load \in S /\ \A w : VerifyTarget(w, TRUE) \in S
  BY VerifierAnswers DEF SetupErrors, Load, When
<1>3. "ok" \in D /\ Discover(world) \in D
  BY DiscoverAnswers
<1>4. /\ \A e \in X \ {"ok"} : <<"prompt", e>> \in Errors
      /\ \A e \in S \ {"ok"} : <<"setup", e>> \in Errors
      /\ \A e \in D \ {"ok"} : <<"discovery", e>> \in Errors
  BY ErrorsAre
<1>5. /\ Leads("reset", "discover") /\ Leads("discover", "start") /\ Leads("start", "replace")
      /\ Leads("replace", "configure")
  BY StagesTell DEF RunInvariant
<1>6. Early => run.done \subseteq Recoverable
  BY EarlyIsHarmless
<1>7. Prompt \in X
  BY <1>1, WhenIn DEF Prompt
<1> HIDE DEF X, S, D
<1>8. CASE ResetConfiguration
  <2>1. Early /\ "discover" \in Way[run.line.name] \cup {"ended"}
    BY <1>5, <1>8 DEF ResetConfiguration, Running, Leads, Early, Committed
  <2>2. {"configuration reset"} \subseteq MayLeave[run.line.name]
    BY <1>8, StagesYield DEF ResetConfiguration, Running, RunInvariant, Yields
  <2>3. run.done \cup {"configuration reset"} \subseteq Recoverable
    BY <1>6, <2>1 DEF Recoverable
  <2> QED
    BY <1>8, <2>1, <2>2, <2>3, Leaving DEF ResetConfiguration
<1>9. CASE DiscoverTargets
  <2> DEFINE asked == IF Flag("non-interactive")
                      THEN When(~Flag("complete"), "IncompleteNonInteractive")
                      ELSE Prompt
  <2>1. Early /\ "start" \in Way[run.line.name] \cup {"ended"}
    BY <1>5, <1>9 DEF DiscoverTargets, Running, Leads, Early, Committed
  <2>2. CASE Looking("discovery", <<Discover(world)>>, "start")
    <3>1. First(<<Discover(world)>>) \in D
      BY <1>3, InOne, Zenon
    <3> QED
      BY <1>4, <2>1, <2>2, <3>1, Tries, Zenon DEF Looking
  <2>3. CASE Looking("setup", <<"NoCandidates">>, "start")
    <3>1. First(<<"NoCandidates">>) \in S
      BY <1>2, InOne, Zenon
    <3> QED
      BY <1>4, <2>1, <2>3, <3>1, Tries, Zenon DEF Looking
  <2>4. CASE Looking("prompt", <<asked>>, "start")
    <3>1. asked \in X
      BY <1>1, <1>7, WhenIn
    <3> HIDE DEF asked
    <3>2. First(<<asked>>) \in X
      BY <1>1, <3>1, InOne, Zenon
    <3> QED
      BY <1>4, <2>1, <2>4, <3>2, Tries, Zenon DEF Looking
  <2> QED
    BY <1>9, <2>2, <2>3, <2>4, Zenon DEF DiscoverTargets
<1>10. CASE StartContainer
  <2>1. Early /\ "replace" \in Way[run.line.name] \cup {"ended"}
    BY <1>5, <1>10 DEF StartContainer, Running, Leads, Early, Committed
  <2>2. CASE Looking("prompt",
                     <<When(Flag("non-interactive"), "NonInteractiveTargetNotRunning"),
                       Prompt>>, "ended")
    <3>1. First(<<When(Flag("non-interactive"), "NonInteractiveTargetNotRunning"), Prompt>>)
            \in X
      BY <1>1, <1>7, WhenIn, InTwo, Zenon
    <3>2. "ended" \in Way[run.line.name] \cup {"ended"}
      OBVIOUS
    <3> QED
      BY <1>4, <2>1, <2>2, <3>1, <3>2, Tries, Zenon DEF Looking
  <2>3. CASE Leave({"container started"}, "replace")
    <3>1. {"container started"} \subseteq MayLeave[run.line.name]
      BY <1>10, StagesYield DEF StartContainer, Running, RunInvariant, Yields
    <3>2. run.done \cup {"container started"} \subseteq Recoverable
      BY <1>6, <2>1 DEF Recoverable
    <3> QED
      BY <2>1, <2>3, <3>1, <3>2, Leaving
  <2>4. CASE Looking("prompt", <<>>, "replace")
    <3>1. First(<<>>) \in X
      BY <1>1, FirstOk
    <3> QED
      BY <1>4, <2>1, <2>4, <3>1, Tries, Zenon DEF Looking
  <2> QED
    BY <1>10, <2>2, <2>3, <2>4, Zenon DEF StartContainer
<1>11. CASE ReplaceTarget
  <2> DEFINE asked == IF Flag("non-interactive")
                      THEN When(HasTarget(world) /\ ~Flag("yes"), "IncompleteNonInteractive")
                      ELSE Prompt
  <2>1. Early
    BY <1>11 DEF ReplaceTarget, Running, Early, Committed
  <2>2. CASE Load # "ok"
    <3>1. End(<<"setup", Load>>) /\ <<"setup", Load>> \in Errors
      BY <1>2, <1>4, <1>11, <2>2 DEF ReplaceTarget
    <3> QED
      BY <1>6, <2>1, <3>1, EndsPlainly
  <2>3. CASE Load = "ok"
    <3>1. PICK next \in {"configure", "ended"} : Try("prompt", First(<<asked>>), next)
      BY <1>11, <2>3 DEF ReplaceTarget, Answer
    <3>2. asked \in X
      BY <1>1, <1>7, WhenIn
    <3>3. next \in Way[run.line.name] \cup {"ended"}
      BY <1>5, <1>11, <3>1 DEF ReplaceTarget, Running, Leads
    <3> HIDE DEF asked
    <3>4. First(<<asked>>) \in X
      BY <1>1, <3>2, InOne, Zenon
    <3> QED
      BY <1>4, <2>1, <3>1, <3>3, <3>4, Tries, Zenon
  <2> QED
    BY <2>2, <2>3
<1>12. CASE ConfigureTarget
  <2>1. Early
    BY <1>12 DEF ConfigureTarget, Running, Early, Committed
  <2>2. PICK found, pulled :
          LET e == First(<<Load,
                           When(/\ HasContext(world)
                                /\ Bad(world, "docker", "other context"),
                                "InvalidField"),
                           VerifyTarget(found, TRUE)>>)
          IN run' = [run EXCEPT
                       !.pc = "ended",
                       !.why = IF e = "ok" THEN Ok ELSE <<"setup", e>>,
                       !.done = @ \cup (IF pulled = {} THEN {} ELSE {"image pulled"})
                                  \cup (IF e = "ok" THEN {"target saved"} ELSE {})]
    BY <1>12, Zenon DEF ConfigureTarget
  <2> DEFINE e == First(<<Load,
                          When(/\ HasContext(world)
                               /\ Bad(world, "docker", "other context"),
                               "InvalidField"),
                          VerifyTarget(found, TRUE)>>)
             why == IF e = "ok" THEN Ok ELSE <<"setup", e>>
             one == IF pulled = {} THEN {} ELSE {"image pulled"}
             two == IF e = "ok" THEN {"target saved"} ELSE {}
  <2>3. e \in S
    BY <1>2, WhenIn, InThree, Zenon
  <2> HIDE DEF e
  <2>4. why = Ok \/ why \in Errors
    BY <1>4, <2>3
  <2>5. one \cup two \subseteq MayLeave[run.line.name]
    BY <1>12, StagesYield, ZenonT(60) DEF ConfigureTarget, Running, RunInvariant, Yields
  <2>6. run.done \cup (one \cup two) \subseteq Recoverable \/ NoUsage(why)
    <3>1. CASE e = "ok"
      BY <3>1 DEF NoUsage
    <3>2. CASE e # "ok"
      BY <1>6, <2>1, <3>2 DEF Recoverable
    <3> QED
      BY <3>1, <3>2
  <2>7. run' = [run EXCEPT !.pc = "ended", !.why = why, !.done = @ \cup (one \cup two)]
    <3>1. run' = [run EXCEPT !.pc = "ended", !.why = why, !.done = @ \cup one \cup two]
      BY <2>2, Zenon DEF e
    <3> HIDE DEF one, two, why
    <3>2. run.done \cup one \cup two = run.done \cup (one \cup two)
      OBVIOUS
    <3> QED
      BY <3>1, <3>2
  <2> HIDE DEF one, two, why
  <2> QED
    BY <2>4, <2>5, <2>6, <2>7, Ends
<1> QED
  BY <1>8, <1>9, <1>10, <1>11, <1>12

LEMMA ProfilesKeep ==
  ASSUME RunInvariant,
         NameAvailable \/ CollectProfile \/ AddProfile \/ AskRemoval \/ RemoveProfile
  PROVE  RunInvariant'
<1> DEFINE X == PromptErrors \cup {"ok"}
           P == ProfileErrors \cup {"ok"}
<1>1. "ok" \in X /\ "IncompleteNonInteractive" \in X /\ "Unavailable" \in X
  BY DEF PromptErrors
<1>2. /\ "ok" \in P /\ "InvalidField" \in P /\ "Config" \in P /\ "AlreadyExists" \in P
      /\ "NotFound" \in P /\ "TlsRequiredButNotNegotiated" \in P
      /\ Load \in P /\ \A w : VerifySource(w, TRUE) \in P
  BY VerifierAnswers DEF ProfileErrors, SourceErrors, Load, When
<1>3. /\ \A e \in X \ {"ok"} : <<"prompt", e>> \in Errors
      /\ \A e \in P \ {"ok"} : <<"profile", e>> \in Errors
  BY ErrorsAre
<1>4. Leads("available", "collect") /\ Leads("collect", "add") /\ Leads("ask", "remove")
  BY StagesTell DEF RunInvariant
<1>5. Early => run.done \subseteq Recoverable
  BY EarlyIsHarmless
<1>6. Prompt \in X
  BY <1>1, WhenIn DEF Prompt
<1> HIDE DEF X, P
<1>7. CASE NameAvailable
  <2>1. First(<<Load>> \o <<When(Flag("taken") /\ ~Empty(world), "AlreadyExists")>>) \in P
    BY <1>2, WhenIn, LoadThenOne, Zenon
  <2>2. Early /\ "collect" \in Way[run.line.name] \cup {"ended"}
    BY <1>4, <1>7 DEF NameAvailable, Running, Leads, Early, Committed
  <2> QED
    BY <1>3, <1>7, <2>1, <2>2, Tries, Zenon DEF NameAvailable, Loading
<1>8. CASE CollectProfile
  <2> DEFINE asked == IF Flag("non-interactive")
                      THEN When(~Flag("complete"), "IncompleteNonInteractive")
                      ELSE Prompt
  <2>1. asked \in X
    BY <1>1, <1>6, WhenIn
  <2>2. Looking("prompt", <<asked>>, "add")
    BY <1>8 DEF CollectProfile
  <2> HIDE DEF asked
  <2>3. First(<<asked>>) \in X
    BY <1>1, <2>1, InOne, Zenon
  <2>4. Early /\ "add" \in Way[run.line.name] \cup {"ended"}
    BY <1>4, <1>8 DEF CollectProfile, Running, Leads, Early, Committed
  <2> QED
    BY <1>3, <2>2, <2>3, <2>4, Tries, Zenon DEF Looking
<1>9. CASE AddProfile
  <2>1. Early
    BY <1>9 DEF AddProfile, Running, Early, Committed
  <2>2. PICK typed, pulled :
          LET e == First(<<Load,
                           VerifySource(typed, TRUE),
                           When(RequiresTls(typed, "source") /\ ~Encrypted(typed, "source"),
                                "TlsRequiredButNotNegotiated"),
                           When(/\ HasContext(world)
                                /\ Bad(world, "docker", "other context"),
                                "InvalidField")>>)
          IN run' = [run EXCEPT
                       !.pc = "ended",
                       !.why = IF e = "ok" THEN Ok ELSE <<"profile", e>>,
                       !.done = @ \cup (IF pulled = {} THEN {} ELSE {"image pulled"})
                                  \cup (IF e = "ok" THEN {"profile saved"} ELSE {})]
    BY <1>9, Zenon DEF AddProfile
  <2> DEFINE e == First(<<Load,
                          VerifySource(typed, TRUE),
                          When(RequiresTls(typed, "source") /\ ~Encrypted(typed, "source"),
                               "TlsRequiredButNotNegotiated"),
                          When(/\ HasContext(world)
                               /\ Bad(world, "docker", "other context"),
                               "InvalidField")>>)
             why == IF e = "ok" THEN Ok ELSE <<"profile", e>>
             one == IF pulled = {} THEN {} ELSE {"image pulled"}
             two == IF e = "ok" THEN {"profile saved"} ELSE {}
  <2>3. e \in P
    BY <1>2, WhenIn, InFour, Zenon
  <2> HIDE DEF e
  <2>4. why = Ok \/ why \in Errors
    BY <1>3, <2>3
  <2>5. one \cup two \subseteq MayLeave[run.line.name]
    BY <1>9, StagesYield DEF AddProfile, Running, RunInvariant, Yields
  <2>6. run.done \cup (one \cup two) \subseteq Recoverable \/ NoUsage(why)
    <3>1. CASE e = "ok"
      BY <3>1 DEF NoUsage
    <3>2. CASE e # "ok"
      BY <1>5, <2>1, <3>2 DEF Recoverable
    <3> QED
      BY <3>1, <3>2
  <2>7. run' = [run EXCEPT !.pc = "ended", !.why = why, !.done = @ \cup (one \cup two)]
    <3>1. run' = [run EXCEPT !.pc = "ended", !.why = why, !.done = @ \cup one \cup two]
      BY <2>2, Zenon DEF e
    <3> HIDE DEF one, two, why
    <3>2. run.done \cup one \cup two = run.done \cup (one \cup two)
      OBVIOUS
    <3> QED
      BY <3>1, <3>2
  <2> HIDE DEF one, two, why
  <2> QED
    BY <2>4, <2>5, <2>6, <2>7, Ends
<1>10. CASE AskRemoval
  <2> DEFINE asked == IF Flag("yes") THEN "ok" ELSE Prompt
  <2>1. PICK next \in {"remove", "ended"} : Looking("prompt", <<asked>>, next)
    BY <1>10 DEF AskRemoval, Answer
  <2>2. asked \in X
    BY <1>1, <1>6
  <2> HIDE DEF asked
  <2>3. First(<<asked>>) \in X
    BY <1>1, <2>2, InOne, Zenon
  <2>4. Early /\ next \in Way[run.line.name] \cup {"ended"}
    BY <1>4, <1>10, <2>1 DEF AskRemoval, Running, Leads, Early, Committed
  <2> QED
    BY <1>3, <2>1, <2>3, <2>4, Tries, Zenon DEF Looking
<1>11. CASE RemoveProfile
  <2> DEFINE e == First(<<Load, When(~HasProfile(world), "NotFound")>>)
  <2>1. Early
    BY <1>11 DEF RemoveProfile, Running, Early, Committed
  <2>2. e \in P
    BY <1>2, WhenIn, InTwo, Zenon
  <2>3. \/ e # "ok" /\ End(<<"profile", e>>)
        \/ Leave({"profile removed"}, "ended")
    BY <1>11, Zenon DEF RemoveProfile
  <2> HIDE DEF e
  <2>4. CASE e # "ok" /\ End(<<"profile", e>>)
    BY <1>3, <1>5, <2>1, <2>2, <2>4, EndsPlainly
  <2>5. CASE Leave({"profile removed"}, "ended")
    <3>1. {"profile removed"} \subseteq MayLeave[run.line.name]
      BY <1>11, StagesYield DEF RemoveProfile, Running, RunInvariant, Yields
    <3> QED
      BY <2>5, <3>1, Leaving
  <2> QED
    BY <2>3, <2>4, <2>5
<1> QED
  BY <1>7, <1>8, <1>9, <1>10, <1>11

LEMMA PruneKeeps ==
  ASSUME RunInvariant, PlanPrune \/ AgreePrune \/ ExecutePrune
  PROVE  RunInvariant'
<1>1. Leads("plan", "agree") /\ Leads("agree", "prune")
  BY StagesTell DEF RunInvariant
<1>2. CASE PlanPrune
  <2>1. PICK next \in {"ended", "agree"} : Looking("cache", <<>>, next)
    BY <1>2 DEF PlanPrune
  <2>2. Early /\ next \in Way[run.line.name] \cup {"ended"}
    BY <1>1, <1>2, <2>1 DEF PlanPrune, Running, Leads, Early, Committed
  <2>3. First(<<>>) \in {"ok"} /\ \A e \in {"ok"} \ {"ok"} : <<"cache", e>> \in Errors
    BY FirstOk
  <2> QED
    BY <2>1, <2>2, <2>3, Tries, Zenon DEF Looking
<1>3. CASE AgreePrune
  <2> DEFINE Y == {"ok", "NonInteractivePrune"}
             asked == IF Flag("yes") THEN "ok"
                      ELSE When(~Interactive, "NonInteractivePrune")
  <2>1. PICK next \in {"prune", "ended"} : Looking("prune", <<asked>>, next)
    BY <1>3 DEF AgreePrune, Answer
  <2>2. "ok" \in Y /\ asked \in Y /\ \A e \in Y \ {"ok"} : <<"prune", e>> \in Errors
    BY ErrorsAre DEF When
  <2> HIDE DEF asked, Y
  <2>3. First(<<asked>>) \in Y
    BY <2>2, InOne, Zenon
  <2>4. Early /\ next \in Way[run.line.name] \cup {"ended"}
    BY <1>1, <1>3, <2>1 DEF AgreePrune, Running, Leads, Early, Committed
  <2> QED
    BY <2>1, <2>2, <2>3, <2>4, Tries, Zenon DEF Looking
<1>4. CASE ExecutePrune
  <2>1. {"dumps pruned"} \subseteq MayLeave[run.line.name]
    BY <1>4, StagesYield DEF ExecutePrune, Running, RunInvariant, Yields
  <2> QED
    BY <1>4, <2>1, Leaving DEF ExecutePrune
<1> QED
  BY <1>2, <1>3, <1>4

(* A report without a failure is a success; otherwise doctor ends with the *)
(* kind of one of its failures.                                            *)
LEMMA FailureKindIs ==
  ASSUME NEW report
  PROVE  FirstFailureKind(report) \in Kinds \cup {"ok"}
<1> DEFINE answers == [i \in DOMAIN Order |->
                         IF report[Order[i]] \in Kinds THEN report[Order[i]] ELSE "ok"]
<1>1. DOMAIN Order = 1 .. 12
  BY DEF Order
<1>2. answers \in Seq(Kinds \cup {"ok"}) /\ Len(answers) <= 12
  <2>1. answers \in [1 .. 12 -> Kinds \cup {"ok"}]
    BY <1>1
  <2> HIDE DEF answers
  <2>2. answers \in Seq(Kinds \cup {"ok"})
    BY <2>1, SeqDef
  <2>3. Len(answers) = 12
    BY <2>1, <2>2
  <2> QED
    BY <2>2, <2>3
<1>3. First(answers) \in Kinds \cup {"ok"}
  <2> HIDE DEF answers
  <2> QED
    BY <1>2, FirstIn
<1> QED
  BY <1>3 DEF FirstFailureKind

LEMMA RunDoctorKeeps ==
  ASSUME RunInvariant, RunDoctor
  PROVE  RunInvariant'
<1> DEFINE kind == FirstFailureKind(doctor'.report)
           why == IF kind = "ok" THEN Ok ELSE <<"doctor", kind>>
<1>1. run' = run \/ run' = [run EXCEPT !.pc = "ended", !.why = why]
  BY Zenon DEF RunDoctor
<1>2. CASE run' = run
  BY <1>2 DEF RunInvariant, IsRun, StillHarmless
<1>3. CASE run' = [run EXCEPT !.pc = "ended", !.why = why]
  <2>1. kind \in Kinds \cup {"ok"}
    BY FailureKindIs
  <2>2. why = Ok \/ why \in Errors
    BY <2>1, ErrorsAre
  <2>3. run.done \subseteq Recoverable
    BY EarlyIsHarmless DEF RunDoctor, Running, Early, Committed
  <2>4. run' = [run EXCEPT !.pc = "ended", !.why = why, !.done = @ \cup {}]
    <3> HIDE DEF why
    <3>1. run.done \cup {} = run.done /\ run.done = run.done
      OBVIOUS
    <3> QED
      BY <1>3, <3>1 DEF RunInvariant, IsRun, Fields
  <2>5. {} \subseteq MayLeave[run.line.name] /\ run.done \cup {} \subseteq Recoverable
    BY <2>3
  <2> HIDE DEF why
  <2> QED
    BY <2>2, <2>4, <2>5, Ends
<1> QED
  BY <1>1, <1>2, <1>3

LEMMA StartKeeps ==
  ASSUME script \in Seq(Lines), Start
  PROVE  RunInvariant' /\ script' \in Seq(Lines)
<1> DEFINE line == Head(script)
           bad == "bad" \in line.flags
           pc == IF bad THEN "ended" ELSE Entry(line)
           why == IF bad THEN <<"value", "invalid">> ELSE Ok
<1>1. line \in Lines /\ script' \in Seq(Lines)
  BY DEF Start
<1>2. run' = [NoRun EXCEPT !.line = line, !.pc = pc, !.why = why]
  BY DEF Start
<1>3. why = Ok \/ why \in Errors
  BY ErrorsAre
<1>4. pc \in {"idle", "ended"} \cup Way[line.name]
  <2>1. line.name \in Names
    BY <1>1, LineIs
  <2> DEFINE name == line.name
  <2>2. \/ name = "preview" \/ name = "list" \/ name = "dump" \/ name = "restore"
        \/ name = "pull" \/ name = "push" \/ name = "setup" \/ name = "add"
        \/ name = "remove" \/ name = "prune" \/ name = "doctor"
    BY <2>1, NamesAre
  <2>3. CASE name \in {"preview", "list", "setup", "add", "remove", "prune", "doctor"}
    BY <2>3, WaysAre DEF Entry
  <2>4. CASE name \in {"dump", "restore", "pull", "push"}
    BY <2>4, WaysAre, ZenonT(60) DEF Entry, Dumping, Restoring
  <2> QED
    BY <2>2, <2>3, <2>4
<1> HIDE DEF line, pc, why
<1>5. /\ IsRun' /\ run'.pc = pc /\ run'.line = line /\ run'.why = why /\ run'.done = {}
      /\ run'.steady = TRUE /\ run'.interrupted = FALSE
  BY <1>2 DEF NoRun, IsRun, Fields
<1>6. StillHarmless'
  BY <1>5 DEF StillHarmless
<1> QED
  BY <1>1, <1>3, <1>4, <1>5, <1>6 DEF RunInvariant

LEMMA OthersKeep ==
  ASSUME RunInvariant, CtrlC \/ Environment \/ UNCHANGED vars
  PROVE  RunInvariant'
<1>1. /\ IsRun' /\ run'.pc = run.pc /\ run'.line = run.line /\ run'.why = run.why
      /\ run'.done = run.done /\ run'.steady \in BOOLEAN /\ run'.interrupted \in BOOLEAN
  <2>1. CASE CtrlC
    BY <2>1 DEF CtrlC, RunInvariant, IsRun, Fields
  <2>2. CASE Environment
    BY <2>2 DEF Environment, RunInvariant, IsRun, Fields
  <2>3. CASE UNCHANGED vars
    BY <2>3 DEF vars, RunInvariant, IsRun, Fields
  <2> QED
    BY <2>1, <2>2, <2>3
<1>2. StillHarmless'
  BY <1>1 DEF RunInvariant, StillHarmless, NoUsage
<1> QED
  BY <1>1, <1>2 DEF RunInvariant

LEMMA ScriptKept ==
  ASSUME [Next]_vars, ~Start
  PROVE  script' = script
<1>1. CASE CtrlC \/ Environment \/ RunDoctor \/ UNCHANGED vars
  BY <1>1 DEF CtrlC, Environment, RunDoctor, vars
<1>2. CASE \/ ListDatabases \/ ReadDatabases \/ CreateDump \/ Assess \/ Export \/ Publish
           \/ ChooseDump \/ ValidateDump \/ LoadTarget \/ AttestTarget
  BY <1>2 DEF ListDatabases, ReadDatabases, CreateDump, Assess, Export, Publish,
              ChooseDump, ValidateDump, LoadTarget, AttestTarget, Looking, Loading, Quietly
<1>3. CASE \/ StartRestore \/ RecreateDatabase \/ ImportDump
           \/ SelectTarget \/ LookUp \/ SelectDatabase
  BY <1>3 DEF StartRestore, RecreateDatabase, ImportDump, SelectTarget, LookUp,
              SelectDatabase, Looking, Loading, Execute, Quietly
<1>4. CASE \/ ChooseDestination \/ AskConsent \/ VerifyDestination \/ ChoosePushDump
           \/ ValidatePushDump \/ AskDowngrade \/ ConfirmPush \/ LockDestination
           \/ EnsureDatabase \/ ImportRemote
  BY <1>4 DEF ChooseDestination, AskConsent, VerifyDestination, ChoosePushDump,
              ValidatePushDump, AskDowngrade, ConfirmPush, LockDestination,
              EnsureDatabase, ImportRemote, Looking, Loading, Execute, Quietly
<1>5. CASE \/ ResetConfiguration \/ DiscoverTargets \/ StartContainer \/ ReplaceTarget
           \/ ConfigureTarget \/ NameAvailable \/ CollectProfile \/ AddProfile
           \/ AskRemoval \/ RemoveProfile \/ PlanPrune \/ AgreePrune \/ ExecutePrune
  BY <1>5 DEF ResetConfiguration, DiscoverTargets, StartContainer, ReplaceTarget,
              ConfigureTarget, NameAvailable, CollectProfile, AddProfile, AskRemoval,
              RemoveProfile, PlanPrune, AgreePrune, ExecutePrune, Looking, Loading, Quietly
<1> QED
  BY <1>1, <1>2, <1>3, <1>4, <1>5 DEF Next

(* Wherever a run is, it is on the way of its command, has left behind no  *)
(* more than its command may, and has lost or granted nothing before its   *)
(* last question.                                                          *)
THEOREM RunInvariantHolds == Spec => [](RunInvariant /\ script \in Seq(Lines))
<1>1. Init => RunInvariant /\ script \in Seq(Lines)
  <2> SUFFICES ASSUME Init PROVE RunInvariant /\ script \in Seq(Lines)
    OBVIOUS
  <2>1. script \in Seq(Lines)
    BY ScriptsAssumption DEF Init
  <2>2. NoLine \in Lines
    <3>1. NoLine.name \in Names /\ NoLine.name = "preview"
      BY DEF NoLine, Names, Options
    <3>2. NoLine \in [name: Names, flags: SUBSET UNION {Options[n] : n \in Names},
                      tty: SUBSET Streams]
      BY <3>1 DEF NoLine, Terminal
    <3>3. Parses(NoLine)
      BY <3>1 DEF NoLine, Parses, Terminal, Options
    <3> QED
      BY <3>2, <3>3 DEF Lines
  <2>3. /\ run = [f \in Fields |-> run[f]] /\ run.pc = "idle" /\ run.line = NoLine
        /\ run.why = Ok /\ run.done = {} /\ run.steady = TRUE /\ run.interrupted = FALSE
    BY DEF Init, NoRun, Fields
  <2> QED
    BY <2>1, <2>2, <2>3 DEF RunInvariant, IsRun, StillHarmless
<1>2. RunInvariant /\ script \in Seq(Lines) /\ [Next]_vars
      => (RunInvariant /\ script \in Seq(Lines))'
  <2> SUFFICES ASSUME RunInvariant, script \in Seq(Lines), [Next]_vars
               PROVE  (RunInvariant /\ script \in Seq(Lines))'
    OBVIOUS
  <2>1. CASE Start
    BY <2>1, StartKeeps
  <2>2. CASE ~Start
    <3>1. script' = script
      BY <2>2, ScriptKept
    <3>2. RunInvariant'
      BY <2>2, ListKeeps, DumpKeeps, RestoreKeeps, PullKeeps, ExecutorsKeep, PushKeeps,
         SetupKeeps, ProfilesKeep, PruneKeeps, RunDoctorKeeps, OthersKeep DEF Next
    <3> QED
      BY <3>1, <3>2
  <2> QED
    BY <2>1, <2>2
<1> QED
  BY <1>1, <1>2, PTL DEF Spec

(* What is found out about the command line or the terminal is found out   *)
(* before anything is lost or granted: the steps after the last question   *)
(* fail with errors of their own, and 130 is not 2.                        *)
THEOREM UsageHolds == Spec => []UsageErrorIsHarmless
<1>1. RunInvariant => UsageErrorIsHarmless
  <2> SUFFICES ASSUME RunInvariant, run.pc = "ended", Exit = ExitCode["Usage"]
               PROVE  run.done \subseteq Recoverable
    BY DEF UsageErrorIsHarmless, Running, Recoverable
  <2>1. ~run.interrupted /\ run.why # Ok
    BY DEF Exit, ExitCode
  <2>2. Exit = ExitCode[Category(run.why)]
    BY <2>1 DEF Exit
  <2>3. Category(run.why) \in Categories
    BY <2>1, ErrorsHaveCategories DEF RunInvariant
  <2>4. \A c \in Categories : ExitCode[c] = ExitCode["Usage"] => c = "Usage"
    BY DEF Categories, ExitCode
  <2>5. Category(run.why) = "Usage"
    BY <2>2, <2>3, <2>4
  <2> QED
    BY <2>1, <2>5 DEF RunInvariant, StillHarmless, Committed, NoUsage
<1> QED
  BY <1>1, RunInvariantHolds, PTL
-----------------------------------------------------------------------------
(* The types of the rest.                                                  *)
All == AllFaults \cup AllTraits

(* What the steps of a run may add to the world: faults, and the series of *)
(* a source that was added anew.                                           *)
Added == AllFaults \cup {<<"source", "8.0">>}

LEMMA AddedAre ==
  /\ Nothing \subseteq Added /\ <<"source", "8.0">> \in Added
  /\ <<"source", "none">> \in Added /\ <<"cache", "empty">> \in Added
<1>1. /\ \A part \in {"source", "target", "destination"} : <<part, "none">> \in AllFaults
      /\ <<"config", "no context">> \in AllFaults /\ <<"cache", "empty">> \in AllFaults
  BY Zenon DEF AllFaults
<1> QED
  BY <1>1 DEF Added, Nothing

LEMMA LoadsMigrate ==
  ASSUME world' \in Migrations(world)
  PROVE  world' \subseteq world
  BY DEF Migrations

LEMMA WorldGrows ==
  ASSUME [Next]_vars
  PROVE  world' \subseteq world \cup Added
<1>1. CASE CtrlC \/ Start \/ UNCHANGED vars
  BY <1>1 DEF CtrlC, Start, vars
<1>2. CASE Environment
  <2>1. PICK f \in Changing : world' = IF f \in world THEN world \ {f} ELSE world \cup {f}
    BY <1>2 DEF Environment, Change
  <2>2. f \in Added
    BY ChangingAssumption DEF Added
  <2> QED
    BY <2>1, <2>2
<1>3. CASE RunDoctor
  <2>1. world' \in {world, world \ {<<"config", "old schema">>}}
    BY <1>3, DoctorStepIsHarmless DEF RunDoctor
  <2> QED
    BY <2>1
<1>4. CASE \/ ListDatabases \/ ReadDatabases \/ CreateDump \/ Assess \/ Export \/ Publish
           \/ ChooseDump \/ ValidateDump \/ LoadTarget \/ AttestTarget
  BY <1>4, LoadsMigrate
     DEF ListDatabases, ReadDatabases, CreateDump, Assess, Export, Publish,
         ChooseDump, ValidateDump, LoadTarget, AttestTarget, Looking, Loading
<1>5. CASE \/ StartRestore \/ RecreateDatabase \/ ImportDump
           \/ SelectTarget \/ LookUp \/ SelectDatabase
  BY <1>5, LoadsMigrate
     DEF StartRestore, RecreateDatabase, ImportDump, SelectTarget, LookUp,
         SelectDatabase, Looking, Loading, Execute
<1>6. CASE \/ ChooseDestination \/ AskConsent \/ VerifyDestination \/ ChoosePushDump
           \/ ValidatePushDump \/ AskDowngrade \/ ConfirmPush \/ LockDestination
           \/ EnsureDatabase \/ ImportRemote
  BY <1>6, LoadsMigrate
     DEF ChooseDestination, AskConsent, VerifyDestination, ChoosePushDump,
         ValidatePushDump, AskDowngrade, ConfirmPush, LockDestination,
         EnsureDatabase, ImportRemote, Looking, Loading, Execute
<1>7. CASE \/ DiscoverTargets \/ StartContainer \/ ReplaceTarget
           \/ NameAvailable \/ CollectProfile \/ AskRemoval \/ PlanPrune \/ AgreePrune
  BY <1>7, LoadsMigrate
     DEF DiscoverTargets, StartContainer, ReplaceTarget, NameAvailable, CollectProfile,
         AskRemoval, PlanPrune, AgreePrune, Looking, Loading
<1>8. CASE ResetConfiguration \/ RemoveProfile \/ ExecutePrune
  <2> HIDE DEF Added
  <2>1. CASE ResetConfiguration
    BY <2>1, AddedAre DEF ResetConfiguration
  <2>2. CASE RemoveProfile
    BY <2>2, AddedAre DEF RemoveProfile
  <2>3. CASE ExecutePrune
    BY <2>3, AddedAre DEF ExecutePrune
  <2> QED
    BY <1>8, <2>1, <2>2, <2>3
<1>9. ASSUME NEW w, w \subseteq world
      PROVE  WithContext(Present(w)) \subseteq world \cup Added
  <2> HIDE DEF Added
  <2>1. Present(w) \subseteq world \cup Added
    BY <1>9, AddedAre DEF Present
  <2> QED
    BY <2>1 DEF WithContext
<1>10. CASE ConfigureTarget
  <2>1. PICK typed \in Typed("target") :
          \E e, pulled : world' = (IF e = "ok"
                                   THEN WithContext(Present(Awaited(typed \ {<<"target", "recreated">>})))
                                          \ {<<"target", "none">>, <<"target", "no key">>}
                                   ELSE world) \ pulled
    BY <1>10, Zenon DEF ConfigureTarget
  <2> DEFINE found == Awaited(typed \ {<<"target", "recreated">>})
  <2>2. found \subseteq world
    BY DEF Typed, Awaited
  <2> HIDE DEF found
  <2>3. WithContext(Present(found)) \subseteq world \cup Added
    BY <1>9, <2>2
  <2>4. \E e, pulled : world' = (IF e = "ok"
                                 THEN WithContext(Present(found))
                                        \ {<<"target", "none">>, <<"target", "no key">>}
                                 ELSE world) \ pulled
    BY <2>1 DEF found
  <2> QED
    BY <2>3, <2>4
<1>11. CASE AddProfile
  <2>1. PICK typed \in Typed("source") :
          \E e, pulled : world' = (IF e = "ok"
                                   THEN Recorded(WithContext(Present(typed)))
                                          \ {<<"source", "none">>, <<"source", "no key">>}
                                   ELSE world) \ pulled
    BY <1>11, Zenon DEF AddProfile
  <2>2. typed \subseteq world
    BY DEF Typed
  <2>3. WithContext(Present(typed)) \subseteq world \cup Added
    BY <1>9, <2>2
  <2>4. Recorded(WithContext(Present(typed))) \subseteq world \cup Added
    <3> DEFINE w == WithContext(Present(typed))
    <3> HIDE DEF w
    <3>1. w \subseteq world \cup Added
      BY <2>3 DEF w
    <3>2. Recorded(w) \subseteq world \cup Added
      BY <3>1, AddedAre DEF Recorded
    <3> QED
      BY <3>2 DEF w
  <2> QED
    BY <2>1, <2>4
<1> QED
  BY <1>1, <1>2, <1>3, <1>4, <1>5, <1>6, <1>7, <1>8, <1>10, <1>11 DEF Next

(* SourceProfileConfig::validate, as the steps of a run leave it.          *)
Verifies(w) == ~({<<"source", "production">>, <<"source", "TLS optional">>} \subseteq w)

WorldInvariant == world \subseteq All /\ Verifies(world)

LEMMA InitialWorld ==
  ASSUME WorldInit
  PROVE  WorldInvariant
<1>1. PICK k \in 0 .. MaxFaults, traits \in Traits : \E faults \in [1 .. k -> Faults] :
        world = {faults[i] : i \in 1 .. k} \cup traits
  BY DEF WorldInit
<1>2. PICK faults \in [1 .. k -> Faults] : world = {faults[i] : i \in 1 .. k} \cup traits
  BY <1>1
<1>3. {faults[i] : i \in 1 .. k} \subseteq AllFaults
  BY FaultsAssumption
<1>4. traits \subseteq AllTraits /\ Verifies(traits)
  BY TraitsAssumption DEF Verifies
<1>5. <<"source", "production">> \notin AllFaults
  BY DEF AllFaults, ServerFaults, Contents
<1>6. <<"source", "TLS optional">> \notin AllFaults
  BY DEF AllFaults, ServerFaults, Contents
<1> HIDE DEF AllFaults, AllTraits
<1> QED
  BY <1>2, <1>3, <1>4, <1>5, <1>6 DEF WorldInvariant, Verifies, All

LEMMA WorldKept ==
  ASSUME WorldInvariant, [Next]_vars
  PROVE  WorldInvariant'
<1>1. world' \subseteq world \cup Added
  BY WorldGrows
<1>2. Added \subseteq All
  <2>1. <<"source", "8.0">> \in AllTraits
    BY Zenon DEF AllTraits
  <2> QED
    BY <2>1 DEF Added, All
<1>3. <<"source", "production">> \notin Added
  BY DEF Added, AllFaults, ServerFaults, Contents
<1>4. <<"source", "TLS optional">> \notin Added
  BY DEF Added, AllFaults, ServerFaults, Contents
<1> QED
  BY <1>1, <1>2, <1>3, <1>4 DEF WorldInvariant, Verifies

Places == {"idle", "load", "credentials", "inspect", "source", "target", "done"}

DoctorType ==
  doctor \in [pc: Places, view: SUBSET All, report: [Labels -> Status], steady: BOOLEAN]

(* Every answer of a check is a status.                                    *)
LEMMA StatusesAre ==
  /\ {"none", "passed", "warning", "skipped"} \cup Kinds \subseteq Status
  /\ "Configuration" \in Kinds /\ "Credential" \in Kinds /\ "Dependency" \in Kinds
  /\ "SourceConnection" \in Kinds /\ "Docker" \in Kinds /\ "Filesystem" \in Kinds
  /\ "none" \notin Kinds /\ "passed" \notin Kinds /\ "warning" \notin Kinds
  /\ "skipped" \notin Kinds
  BY DEF Status, Kinds

LEMMA ReportTyped ==
  ASSUME DoctorType, NEW pc \in Places, NEW label \in Labels, NEW status \in Status,
         Report(pc, label, status)
  PROVE  DoctorType'
  BY DEF DoctorType, Report

LEMMA ConnectionsTyped ==
  /\ \A e : SourceFailureKind(e) \in Kinds /\ TargetFailureKind(e) \in Kinds
  /\ \A w : SourceConnection(w) \in Status /\ TargetConnection(w) \in Status
<1>1. \A e : SourceFailureKind(e) \in Kinds /\ TargetFailureKind(e) \in Kinds
  BY StatusesAre DEF SourceFailureKind, TargetFailureKind
<1>2. \A w : SourceConnection(w) \in Kinds \cup {"passed", "warning"}
  BY <1>1, StatusesAre DEF SourceConnection
<1>3. \A w : TargetConnection(w) \in Kinds \cup {"passed"}
  BY <1>1, StatusesAre DEF TargetConnection
<1> QED
  BY <1>1, <1>2, <1>3, StatusesAre

LEMMA DoctorStepTyped ==
  ASSUME WorldInvariant, DoctorType, DoctorStep
  PROVE  DoctorType' /\ changes' = changes
<1>1. CASE DoctorLoad
  <2>1. changes' = changes
    BY <1>1 DEF DoctorLoad
  <2>2. world' \in SUBSET All
    BY <1>1, LoadsMigrate DEF DoctorLoad, WorldInvariant
  <2>3. PICK a, b, c, d \in Status :
          doctor' = [doctor EXCEPT !.pc = "credentials", !.view = world', !.report =
                       [NoReport EXCEPT
                          !["configuration"] = a, !["cache filesystem"] = b,
                          !["active profile"] = c, !["local target configuration"] = d]]
    <3> DEFINE read == ~Unreadable(world)
               checked(present) == IF read /\ present THEN "passed" ELSE "Configuration"
               a == IF ~read THEN "Configuration" ELSE IF Empty(world) THEN "warning" ELSE "passed"
               b == IF Bad(world, "disk", "low") THEN "Filesystem" ELSE "passed"
               c == checked(HasProfile(world))
               d == checked(HasTarget(world))
    <3>1. a \in Status /\ b \in Status /\ c \in Status /\ d \in Status
      BY StatusesAre
    <3>2. doctor' = [doctor EXCEPT !.pc = "credentials", !.view = world', !.report =
                       [NoReport EXCEPT
                          !["configuration"] = a, !["cache filesystem"] = b,
                          !["active profile"] = c, !["local target configuration"] = d]]
      BY <1>1 DEF DoctorLoad
    <3> HIDE DEF a, b, c, d
    <3> QED
      BY <3>1, <3>2
  <2>4. [NoReport EXCEPT
           !["configuration"] = a, !["cache filesystem"] = b,
           !["active profile"] = c, !["local target configuration"] = d]
          \in [Labels -> Status]
    BY StatusesAre DEF NoReport
  <2>5. "credentials" \in Places
    BY DEF Places
  <2> QED
    BY <2>1, <2>2, <2>3, <2>4, <2>5 DEF DoctorType
<1>2. CASE DoctorCredentials
  <2>1. \A entry, part : Credential(entry, part) \in Status
    BY StatusesAre DEF Credential
  <2>2. "inspect" \in Places
    BY DEF Places
  <2> QED
    BY <1>2, <2>1, <2>2 DEF DoctorCredentials, DoctorType
<1>3. CASE DoctorInspect
  <2>1. Identity(world) \in Status
    BY StatusesAre DEF Identity
  <2>2. "source" \in Places
    BY DEF Places
  <2>3. PICK a, b \in Status :
          doctor' = [doctor EXCEPT
                       !.pc = "source", !.report["Docker"] = a,
                       !.report["Docker context identity"] = b,
                       !.report["target container identity"] = Identity(world)]
    BY <1>3, StatusesAre, Zenon DEF DoctorInspect
  <2> DEFINE report == [doctor.report EXCEPT
                          !["Docker"] = a, !["Docker context identity"] = b,
                          !["target container identity"] = Identity(world)]
  <2>4. report \in [Labels -> Status]
    BY <2>1, <2>3 DEF DoctorType
  <2>5. doctor' = [doctor EXCEPT !.pc = "source", !.report = report]
    BY <2>3 DEF DoctorType
  <2> HIDE DEF report
  <2>6. changes' = changes
    BY <1>3 DEF DoctorInspect
  <2> QED
    BY <2>2, <2>4, <2>5, <2>6 DEF DoctorType
<1>4. CASE DoctorSource
  <2>1. "target" \in Places /\ "source connection" \in Labels /\ "source TLS" \in Labels
    BY LabelsAre DEF Places
  <2>2. \E label \in {"source connection", "source TLS"}, status \in Status :
          Report("target", label, status)
    BY <1>4, ConnectionsTyped, StatusesAre, Zenon DEF DoctorSource
  <2> QED
    BY <1>4, <2>1, <2>2, ReportTyped DEF DoctorSource
<1>5. CASE DoctorTarget
  <2>1. "done" \in Places /\ "target connection" \in Labels
    BY LabelsAre DEF Places
  <2>2. \E status \in Status : Report("done", "target connection", status)
    BY <1>5, ConnectionsTyped, StatusesAre DEF DoctorTarget
  <2> QED
    BY <1>5, <2>1, <2>2, ReportTyped DEF DoctorTarget
<1> QED
  BY <1>1, <1>2, <1>3, <1>4, <1>5 DEF DoctorStep

LEMMA DoctorTyped ==
  ASSUME WorldInvariant, DoctorType, [Next]_vars
  PROVE  DoctorType'
<1>1. CASE RunDoctor
  BY <1>1, DoctorStepTyped DEF RunDoctor
<1>2. CASE Start
  <2>1. NoReport \in [Labels -> Status] /\ "load" \in Places
    BY StatusesAre DEF NoReport, Places
  <2>2. [NoDoctor EXCEPT !.pc = "load"]
          \in [pc: Places, view: SUBSET All, report: [Labels -> Status], steady: BOOLEAN]
    BY <2>1 DEF NoDoctor
  <2>3. doctor' \in {doctor, [NoDoctor EXCEPT !.pc = "load"]}
    BY <1>2 DEF Start
  <2> QED
    BY <2>2, <2>3 DEF DoctorType
<1>3. CASE Environment
  BY <1>3 DEF Environment, Change, DoctorType
<1>4. CASE ~RunDoctor /\ ~Start /\ ~Environment
  <2>1. doctor' = doctor \/ doctor' = [doctor EXCEPT !.steady = FALSE]
    BY <1>4, CommandsLeaveDoctor
  <2> QED
    BY <2>1 DEF DoctorType
<1> QED
  BY <1>1, <1>2, <1>3, <1>4

(* The steps that change what a check of doctor looks at.                  *)
Meddles ==
  \/ Environment \/ ResetConfiguration \/ StartContainer \/ ConfigureTarget
  \/ AddProfile \/ RemoveProfile

LEMMA CountersKept ==
  ASSUME [Next]_vars
  PROVE  /\ interrupts' = interrupts \/ CtrlC
         /\ ~Meddles => repaired' = repaired
         /\ repaired' \in {repaired, "nothing", "source", "target", "container"}
<1>1. CASE CtrlC \/ Environment \/ RunDoctor \/ Start \/ UNCHANGED vars
  BY <1>1 DEF CtrlC, Environment, RunDoctor, Start, vars, Meddles
<1>2. CASE \/ ListDatabases \/ ReadDatabases \/ CreateDump \/ Assess \/ Export \/ Publish
           \/ ChooseDump \/ ValidateDump \/ LoadTarget \/ AttestTarget
  BY <1>2 DEF ListDatabases, ReadDatabases, CreateDump, Assess, Export, Publish,
              ChooseDump, ValidateDump, LoadTarget, AttestTarget, Looking, Loading, Quietly
<1>3. CASE \/ StartRestore \/ RecreateDatabase \/ ImportDump
           \/ SelectTarget \/ LookUp \/ SelectDatabase
  BY <1>3 DEF StartRestore, RecreateDatabase, ImportDump, SelectTarget, LookUp,
              SelectDatabase, Looking, Loading, Execute, Quietly
<1>4. CASE \/ ChooseDestination \/ AskConsent \/ VerifyDestination \/ ChoosePushDump
           \/ ValidatePushDump \/ AskDowngrade \/ ConfirmPush \/ LockDestination
           \/ EnsureDatabase \/ ImportRemote
  BY <1>4 DEF ChooseDestination, AskConsent, VerifyDestination, ChoosePushDump,
              ValidatePushDump, AskDowngrade, ConfirmPush, LockDestination,
              EnsureDatabase, ImportRemote, Looking, Loading, Execute, Quietly
<1>5. CASE \/ ResetConfiguration \/ DiscoverTargets \/ StartContainer \/ ReplaceTarget
           \/ NameAvailable \/ CollectProfile \/ AskRemoval \/ RemoveProfile
           \/ PlanPrune \/ AgreePrune \/ ExecutePrune
  BY <1>5 DEF ResetConfiguration, DiscoverTargets, StartContainer, ReplaceTarget,
              NameAvailable, CollectProfile, AskRemoval, RemoveProfile, PlanPrune,
              AgreePrune, ExecutePrune, Looking, Loading, Quietly, Meddles
<1>6. CASE ConfigureTarget
  <2>1. interrupts' = interrupts
    BY <1>6 DEF ConfigureTarget
  <2>2. PICK e : repaired' = IF e # "ok" THEN repaired
                             ELSE IF run.steady THEN "target" ELSE "container"
    BY <1>6, ZenonT(60) DEF ConfigureTarget
  <2> QED
    BY <1>6, <2>1, <2>2 DEF Meddles
<1>7. CASE AddProfile
  <2>1. interrupts' = interrupts /\ \E e : repaired' = IF e = "ok" THEN "source" ELSE repaired
    BY <1>7, Zenon DEF AddProfile
  <2> QED
    BY <1>7, <2>1 DEF Meddles
<1> QED
  BY <1>1, <1>2, <1>3, <1>4, <1>5, <1>6, <1>7 DEF Next

Counters ==
  /\ changes \in 0 .. MaxChanges
  /\ interrupts \in 0 .. MaxInterrupts
  /\ repaired \in {"nothing", "source", "target", "container"}

(* What the proofs know of everything but the run itself.                  *)
RestInvariant == WorldInvariant /\ DoctorType /\ Counters

LEMMA RestInvariantHolds == Spec => []RestInvariant
<1>1. Init => RestInvariant
  <2> SUFFICES ASSUME Init PROVE RestInvariant
    OBVIOUS
  <2>1. WorldInvariant
    BY InitialWorld DEF Init
  <2>2. DoctorType
    <3>1. NoReport \in [Labels -> Status] /\ "idle" \in Places
      BY StatusesAre DEF NoReport, Places
    <3> QED
      BY <3>1 DEF Init, NoDoctor, DoctorType
  <2>3. Counters
    BY MaxChangesAssumption, MaxInterruptsAssumption DEF Init, Counters
  <2> QED
    BY <2>1, <2>2, <2>3 DEF RestInvariant
<1>2. RestInvariant /\ [Next]_vars => RestInvariant'
  <2> SUFFICES ASSUME RestInvariant, [Next]_vars PROVE RestInvariant'
    OBVIOUS
  <2>1. WorldInvariant'
    BY WorldKept DEF RestInvariant
  <2>2. DoctorType'
    BY DoctorTyped DEF RestInvariant
  <2>3. changes' \in 0 .. MaxChanges
    <3>1. CASE Environment
      <4>1. changes < MaxChanges /\ changes' = changes + 1 /\ changes \in 0 .. MaxChanges
        BY <3>1 DEF Environment, Change, RestInvariant, Counters
      <4> QED
        BY <4>1, MaxChangesAssumption
    <3>2. CASE ~Environment
      BY <3>2, OthersCountNothing DEF RestInvariant, Counters
    <3> QED
      BY <3>1, <3>2
  <2>4. interrupts' \in 0 .. MaxInterrupts
    <3>1. CASE CtrlC
      <4>1. /\ interrupts < MaxInterrupts /\ interrupts' = interrupts + 1
            /\ interrupts \in 0 .. MaxInterrupts
        BY <3>1 DEF CtrlC, RestInvariant, Counters
      <4> QED
        BY <4>1, MaxInterruptsAssumption
    <3>2. CASE ~CtrlC
      BY <3>2, CountersKept DEF RestInvariant, Counters
    <3> QED
      BY <3>1, <3>2
  <2>5. repaired' \in {"nothing", "source", "target", "container"}
    BY CountersKept DEF RestInvariant, Counters
  <2> QED
    BY <2>1, <2>2, <2>3, <2>4, <2>5 DEF RestInvariant, Counters
<1> QED
  BY <1>1, <1>2, PTL DEF Spec

(* Every stage and every effect that a command knows of is one of those    *)
(* listed, every error has a category, and the checks of doctor report     *)
(* nothing but statuses.                                                   *)
THEOREM TypeCorrect == Spec => []TypeOK
<1>1. RunInvariant /\ RestInvariant => TypeOK
  <2> SUFFICES ASSUME RunInvariant, RestInvariant PROVE TypeOK
    OBVIOUS
  <2>1. DoctorTypeOK
    BY DEF RestInvariant, WorldInvariant, DoctorType, Counters, DoctorTypeOK, Places, All
  <2>2. run.line \in Lines /\ Parses(run.line) /\ run.line.name \in Names
    BY LineIs DEF RunInvariant, Lines
  <2>3. run.pc \in Stages
    <3>1. \A n \in Names : Way[n] \subseteq Stages
      <4> SUFFICES ASSUME NEW n \in Names PROVE Way[n] \subseteq Stages
        OBVIOUS
      <4> QED
        BY NamesAre, WaysAre, ZenonT(60) DEF Stages, Dumping, Restoring
    <3>2. "idle" \in Stages /\ "ended" \in Stages
      BY DEF Stages
    <3> QED
      BY <2>2, <3>1, <3>2 DEF RunInvariant
  <2>4. run.done \subseteq Effects
    <3>1. \A n \in Names : MayLeave[n] \subseteq Effects
      <4> SUFFICES ASSUME NEW n \in Names PROVE MayLeave[n] \subseteq Effects
        OBVIOUS
      <4> QED
        BY NamesAre, LeftAre DEF Effects, OfRestore
    <3> QED
      BY <2>2, <3>1 DEF RunInvariant
  <2>5. run.why = Ok \/ (run.why \in Errors /\ Category(run.why) \in Categories)
    BY ErrorsHaveCategories DEF RunInvariant
  <2> QED
    BY <2>1, <2>2, <2>3, <2>4, <2>5 DEF TypeOK, RunInvariant, RestInvariant, Counters
<1> QED
  BY <1>1, RunInvariantHolds, RestInvariantHolds, PTL

-----------------------------------------------------------------------------
(* What the questions find out: each is answered with "ok" if and only if  *)
(* nothing that it asks about is wrong.                                    *)
LEMMA SeriesAre ==
  /\ Other("8.0") = "8.4" /\ Other("8.4") = "8.0" /\ Series = {"8.0", "8.4"}
  /\ "other" \notin Series
<1>1. \A s \in Series : s # "8.0" <=> s = "8.4"
  BY DEF Series
<1>2. \A s \in Series : s # "8.4" <=> s = "8.0"
  BY DEF Series
<1> QED
  BY <1>1, <1>2 DEF Other, Series

LEMMA ReportedIs ==
  ASSUME NEW w, NEW part
  PROVE  /\ Configured(w, part) \in Series
         /\ Approved(Reported(w, part)) <=> ~Bad(w, part, "unsupported") /\ ~Bad(w, part, "mariadb")
         /\ Reported(w, part) = Configured(w, part)
              <=> /\ ~Bad(w, part, "unsupported") /\ ~Bad(w, part, "mariadb")
                  /\ ~Bad(w, part, "moved")
<1>1. Configured(w, part) \in Series /\ Configured(w, part) \in {"8.0", "8.4"}
  BY SeriesAre DEF Configured
<1>2. Other(Configured(w, part)) \in Series /\ Other(Configured(w, part)) # Configured(w, part)
  BY <1>1, SeriesAre
<1> QED
  BY <1>1, <1>2, SeriesAre DEF Reported, Approved

LEMMA DiscoverOk ==
  ASSUME NEW w
  PROVE  Discover(w) = "ok" <=>
           /\ ~Bad(w, "docker", "missing") /\ ~Bad(w, "docker", "remote")
           /\ ~Bad(w, "docker", "down") /\ ~Bad(w, "docker", "odd container")
<1> DEFINE a == When(Bad(w, "docker", "missing"), "Process")
           b == When(Bad(w, "docker", "remote"), "RemoteContext")
           c == When(Bad(w, "docker", "down"), "DockerUnavailable")
           d == When(Bad(w, "docker", "odd container"), "InvalidMetadata")
<1>1. /\ a = "ok" <=> ~Bad(w, "docker", "missing")
      /\ b = "ok" <=> ~Bad(w, "docker", "remote")
      /\ c = "ok" <=> ~Bad(w, "docker", "down")
      /\ d = "ok" <=> ~Bad(w, "docker", "odd container")
  BY DEF When
<1>2. LocalContext(w) = First(<<a, b>>) /\ Candidates(w) = First(<<c, d>>)
  BY DEF LocalContext, Candidates
<1> HIDE DEF a, b, c, d
<1>3. LocalContext(w) = "ok" <=> a = "ok" /\ b = "ok"
  BY <1>2, FirstOfTwo
<1>4. Candidates(w) = "ok" <=> c = "ok" /\ d = "ok"
  BY <1>2, FirstOfTwo
<1>5. Discover(w) = "ok" <=> LocalContext(w) = "ok" /\ Candidates(w) = "ok"
  BY FirstOfTwo DEF Discover
<1> QED
  BY <1>1, <1>3, <1>4, <1>5

LEMMA PrepareOk ==
  ASSUME NEW w, NEW series
  PROVE  PrepareExisting(w, series) = "ok" <=>
           /\ ~Bad(w, "docker", "missing") /\ ~Bad(w, "docker", "down")
           /\ ~Bad(w, series, "missing") /\ ~Bad(w, series, "wrong digest")
<1> DEFINE a == When(Bad(w, "docker", "missing"), "Process")
           b == When(Bad(w, "docker", "down"), "DockerUnavailable")
           c == When(Bad(w, series, "missing"), "ImageUnavailable")
           d == VerifyImage(w, series)
<1>1. /\ a = "ok" <=> ~Bad(w, "docker", "missing")
      /\ b = "ok" <=> ~Bad(w, "docker", "down")
      /\ c = "ok" <=> ~Bad(w, series, "missing")
      /\ d = "ok" <=> ~Bad(w, series, "wrong digest")
  BY DEF When, VerifyImage
<1>2. PrepareExisting(w, series) = First(<<a, b, c, d>>)
  BY DEF PrepareExisting
<1> HIDE DEF a, b, c, d
<1>3. First(<<a, b, c, d>>) = "ok" <=> a = "ok" /\ b = "ok" /\ c = "ok" /\ d = "ok"
  BY FirstOfFour
<1> QED
  BY <1>1, <1>2, <1>3

LEMMA ProbeOk ==
  ASSUME NEW w, NEW part
  PROVE  Probe(w, part) = "ok" <=>
           /\ ~Bad(w, part, "stopped") /\ ~Bad(w, part, "recreated")
           /\ ~Bad(w, part, "unreachable") /\ ~Bad(w, part, "warming")
           /\ ~(Bad(w, part, "no TLS") /\ RequiresTls(w, part))
           /\ ~(Bad(w, part, "untrusted") /\ VerifiesCertificate(w, part))
           /\ ~Bad(w, part, "rejects") /\ ~Bad(w, part, "busy")
<1> DEFINE tls == \/ Bad(w, part, "no TLS") /\ RequiresTls(w, part)
                  \/ Bad(w, part, "untrusted") /\ VerifiesCertificate(w, part)
           a == Reach(w, part)
           b == When(tls, "TlsValidationFailed")
           c == When(Bad(w, part, "rejects"), "AuthenticationFailed")
           d == When(Bad(w, part, "busy"), "ConnectionProbeFailed")
<1>1. a = "ok" <=> /\ ~Bad(w, part, "stopped") /\ ~Bad(w, part, "recreated")
                   /\ ~Bad(w, part, "unreachable") /\ ~Bad(w, part, "warming")
  BY FirstOfTwo DEF Reach, When
<1>2. /\ b = "ok" <=> ~tls
      /\ c = "ok" <=> ~Bad(w, part, "rejects")
      /\ d = "ok" <=> ~Bad(w, part, "busy")
  BY DEF When
<1>3. Probe(w, part) = First(<<a, b, c, d>>)
  BY DEF Probe
<1> HIDE DEF a, b, c, d
<1>4. First(<<a, b, c, d>>) = "ok" <=> a = "ok" /\ b = "ok" /\ c = "ok" /\ d = "ok"
  BY FirstOfFour
<1> QED
  BY <1>1, <1>2, <1>3, <1>4

LEMMA VerificationOk ==
  ASSUME NEW w, NEW part
  PROVE  Verification(w, part, FALSE) = "ok" <=>
           /\ PrepareExisting(w, Discovery) = "ok"
           /\ ~Bad(w, "disk", "no temporary file")
           /\ Probe(w, part) = "ok"
           /\ ~Bad(w, part, "unsupported") /\ ~Bad(w, part, "mariadb")
           /\ PrepareExisting(w, Reported(w, part)) = "ok"
<1> DEFINE a == PrepareExisting(w, Discovery)
           b == OptionFile(w)
           c == Probe(w, part)
           d == When(~Approved(Reported(w, part)), "UnsupportedServerSeries")
           e == PrepareExisting(w, Reported(w, part))
<1>1. b = "ok" <=> ~Bad(w, "disk", "no temporary file")
  BY DEF OptionFile, When
<1>2. d = "ok" <=> ~Bad(w, part, "unsupported") /\ ~Bad(w, part, "mariadb")
  BY ReportedIs DEF When
<1>3. Verification(w, part, FALSE) = First(<<a, b, c, d, e>>)
  BY DEF Verification, PrepareClient
<1> HIDE DEF a, b, c, d, e
<1>4. First(<<a, b, c, d, e>>) = "ok"
        <=> a = "ok" /\ b = "ok" /\ c = "ok" /\ d = "ok" /\ e = "ok"
  BY FirstOfFive
<1>5. Verification(w, part, FALSE) = "ok"
        <=> a = "ok" /\ b = "ok" /\ c = "ok" /\ d = "ok" /\ e = "ok"
  BY <1>3, <1>4
<1> QED
  BY <1>1, <1>2, <1>5 DEF a, c, e

LEMMA VerifySourceOk ==
  ASSUME NEW w
  PROVE  VerifySource(w, FALSE) = "ok" <=>
           ~Bad(w, "docker", "missing") /\ Verification(w, "source", FALSE) = "ok"
<1>1. \A e : SourceError(e) = "ok" <=> e = "ok"
  BY DEF SourceError, ImageErrors
<1>2. CurrentContext(w) = "ok" <=> ~Bad(w, "docker", "missing")
  BY DEF CurrentContext, When
<1> QED
  BY <1>1, <1>2, FirstOfTwo DEF VerifySource

LEMMA VerifyTargetOk ==
  ASSUME NEW w
  PROVE  VerifyTarget(w, FALSE) = "ok" <=> Verification(w, "target", FALSE) = "ok"
<1>1. \A e : TargetError(e) = "ok" <=> e = "ok"
  BY DEF TargetError, ImageErrors
<1> QED
  BY <1>1 DEF VerifyTarget

-----------------------------------------------------------------------------
(* The faults that a check is there for, and what it reports.              *)
There(w, label) == Causes(w, label) \cap w # {}

Fails(w, part) ==
  \/ Bad(w, part, "unreachable") \/ Bad(w, part, "rejects") \/ Bad(w, part, "busy")
  \/ Bad(w, part, "unsupported") \/ Bad(w, part, "mariadb") \/ Bad(w, part, "moved")
  \/ Bad(w, part, "warming")
  \/ Bad(w, part, "no TLS") /\ RequiresTls(w, part)
  \/ Bad(w, "disk", "no temporary file")
  \/ Bad(w, Discovery, "missing") \/ Bad(w, Discovery, "wrong digest")
  \/ Bad(w, Reported(w, part), "missing") \/ Bad(w, Reported(w, part), "wrong digest")

LEMMA PairsMeet ==
  ASSUME NEW A, NEW B, NEW w
  PROVE  (A \X B) \cap w # {} <=> \E a \in A, b \in B : <<a, b>> \in w
<1>1. ASSUME NEW f \in A \X B, f \in w
      PROVE  \E a \in A, b \in B : <<a, b>> \in w
  <2>1. f = <<f[1], f[2]>> /\ f[1] \in A /\ f[2] \in B
    BY <1>1
  <2> QED
    BY <1>1, <2>1, Zenon
<1>2. ASSUME NEW a \in A, NEW b \in B, <<a, b>> \in w
      PROVE  (A \X B) \cap w # {}
  <2>1. <<a, b>> \in A \X B
    OBVIOUS
  <2> QED
    BY <1>2, <2>1, Zenon
<1> QED
  BY <1>1, <1>2

LEMMA FailsForAFault ==
  ASSUME NEW w, NEW part
  PROVE  ConnectionFaults(w, part) \cap w # {} <=> Fails(w, part)
<1> DEFINE whats == {"unreachable", "rejects", "busy", "unsupported", "mariadb",
                     "moved", "warming"}
           series == Reported(w, part)
<1>1. ({part} \X whats) \cap w # {}
        <=> \/ Bad(w, part, "unreachable") \/ Bad(w, part, "rejects") \/ Bad(w, part, "busy")
            \/ Bad(w, part, "unsupported") \/ Bad(w, part, "mariadb") \/ Bad(w, part, "moved")
            \/ Bad(w, part, "warming")
  <2>1. ({part} \X whats) \cap w # {} <=> \E what \in whats : Bad(w, part, what)
    BY DEF Bad
  <2> QED
    BY <2>1
<1>2. ImageFaults(w, part) \cap w # {}
        <=> \/ Bad(w, Discovery, "missing") \/ Bad(w, Discovery, "wrong digest")
            \/ Bad(w, series, "missing") \/ Bad(w, series, "wrong digest")
  <2> HIDE DEF series
  <2>1. ({Discovery, series} \X {"missing", "wrong digest"}) \cap w # {}
          <=> \E s \in {Discovery, series}, what \in {"missing", "wrong digest"} : Bad(w, s, what)
    <3> DEFINE S == {Discovery, series}
               F == {"missing", "wrong digest"}
    <3> HIDE DEF S, F
    <3>1. (S \X F) \cap w # {} <=> \E s \in S, what \in F : <<s, what>> \in w
      BY PairsMeet, Zenon
    <3> QED
      BY <3>1, Zenon DEF S, F, Bad
  <2>2. ({Discovery, series} \X {"missing", "wrong digest"}) \cap w # {}
          <=> \/ Bad(w, Discovery, "missing") \/ Bad(w, Discovery, "wrong digest")
              \/ Bad(w, series, "missing") \/ Bad(w, series, "wrong digest")
    BY <2>1
  <2> QED
    BY <2>2 DEF ImageFaults, series
<1>3. (IF RequiresTls(w, part) THEN {<<part, "no TLS">>} ELSE {}) \cap w # {}
        <=> Bad(w, part, "no TLS") /\ RequiresTls(w, part)
  BY DEF Bad
<1>4. {<<"disk", "no temporary file">>} \cap w # {} <=> Bad(w, "disk", "no temporary file")
  BY DEF Bad
<1> DEFINE a == {part} \X whats
           b == IF RequiresTls(w, part) THEN {<<part, "no TLS">>} ELSE {}
           c == {<<"disk", "no temporary file">>}
           d == ImageFaults(w, part)
<1>5. ConnectionFaults(w, part) = a \cup b \cup c \cup d
  BY DEF ConnectionFaults
<1>6. ConnectionFaults(w, part) \cap w # {}
        <=> a \cap w # {} \/ b \cap w # {} \/ c \cap w # {} \/ d \cap w # {}
  <2> HIDE DEF a, b, c, d
  <2> QED
    BY <1>5
<1> QED
  BY <1>1, <1>2, <1>3, <1>4, <1>6 DEF Fails

(* The parts that a source and a target do not have.                       *)
LEMMA NotInAll ==
  /\ <<"source", "stopped">> \notin All /\ <<"source", "recreated">> \notin All
  /\ <<"source", "warming">> \notin All
  /\ <<"target", "moved">> \notin All /\ <<"target", "mariadb">> \notin All
  /\ <<"target", "untrusted">> \notin All /\ <<"target", "production">> \notin All
  /\ <<"target", "TLS optional">> \notin All
<1>1. <<"source", "stopped">> \notin All
  BY DEF All, AllFaults, AllTraits, ServerFaults, Contents
<1>2. <<"source", "recreated">> \notin All
  BY DEF All, AllFaults, AllTraits, ServerFaults, Contents
<1>3. <<"source", "warming">> \notin All
  BY DEF All, AllFaults, AllTraits, ServerFaults, Contents
<1>4. <<"target", "moved">> \notin All
  BY DEF All, AllFaults, AllTraits, ServerFaults, Contents
<1>5. <<"target", "mariadb">> \notin All
  BY DEF All, AllFaults, AllTraits, ServerFaults, Contents
<1>6. <<"target", "untrusted">> \notin All
  BY DEF All, AllFaults, AllTraits, ServerFaults, Contents
<1>7. <<"target", "production">> \notin All
  BY DEF All, AllFaults, AllTraits, ServerFaults, Contents
<1>8. <<"target", "TLS optional">> \notin All
  BY DEF All, AllFaults, AllTraits, ServerFaults, Contents
<1> QED
  BY <1>1, <1>2, <1>3, <1>4, <1>5, <1>6, <1>7, <1>8

(* With Docker there, a verification fails just for these faults.          *)
LEMMA VerificationFails ==
  ASSUME NEW w, NEW part, ~Bad(w, "docker", "missing"), ~Bad(w, "docker", "down"),
         ~Bad(w, part, "stopped"), ~Bad(w, part, "recreated")
  PROVE  Verification(w, part, FALSE) = "ok" /\ ~Bad(w, part, "moved")
           <=> ~Fails(w, part) /\ ~(Bad(w, part, "untrusted") /\ Bad(w, part, "production"))
<1>1. PrepareExisting(w, Discovery) = "ok"
        <=> ~Bad(w, Discovery, "missing") /\ ~Bad(w, Discovery, "wrong digest")
  BY PrepareOk
<1>2. PrepareExisting(w, Reported(w, part)) = "ok"
        <=> /\ ~Bad(w, Reported(w, part), "missing")
            /\ ~Bad(w, Reported(w, part), "wrong digest")
  BY PrepareOk
<1>3. Probe(w, part) = "ok" <=>
        /\ ~Bad(w, part, "unreachable") /\ ~Bad(w, part, "warming")
        /\ ~(Bad(w, part, "no TLS") /\ RequiresTls(w, part))
        /\ ~(Bad(w, part, "untrusted") /\ Bad(w, part, "production"))
        /\ ~Bad(w, part, "rejects") /\ ~Bad(w, part, "busy")
  BY ProbeOk DEF VerifiesCertificate
<1> QED
  BY <1>1, <1>2, <1>3, VerificationOk DEF Fails

LEMMA SourceFaultsAre ==
  ASSUME NEW w
  PROVE  There(w, "source connection") <=>
           \/ Fails(w, "source")
           \/ Bad(w, "source", "hides cipher") /\ Bad(w, "source", "production")
           \/ Bad(w, "source", "untrusted") /\ Bad(w, "source", "production")
<1> DEFINE others == IF Bad(w, "source", "production")
                     THEN {<<"source", "hides cipher">>, <<"source", "untrusted">>} ELSE {}
           faults == ConnectionFaults(w, "source")
           more == \/ Bad(w, "source", "hides cipher") /\ Bad(w, "source", "production")
                   \/ Bad(w, "source", "untrusted") /\ Bad(w, "source", "production")
<1>1. Causes(w, "source connection") = faults \cup others
  BY DEF Causes
<1>2. others \cap w # {} <=> more
  BY DEF Bad
<1>3. faults \cap w # {} <=> Fails(w, "source")
  BY FailsForAFault
<1>4. There(w, "source connection") <=> Fails(w, "source") \/ more
  <2> HIDE DEF faults, others, more
  <2> QED
    BY <1>1, <1>2, <1>3 DEF There
<1> QED
  BY <1>4

LEMMA TargetFaultsAre ==
  ASSUME NEW w
  PROVE  There(w, "target connection")
           <=> Fails(w, "target") \/ Bad(w, "target", "hides cipher")
<1> DEFINE others == {<<"target", "hides cipher">>}
           faults == ConnectionFaults(w, "target")
<1>1. Causes(w, "target connection") = faults \cup others
  BY DEF Causes
<1>2. others \cap w # {} <=> Bad(w, "target", "hides cipher")
  BY DEF Bad
<1>3. faults \cap w # {} <=> Fails(w, "target")
  BY FailsForAFault
<1> HIDE DEF faults, others
<1> QED
  BY <1>1, <1>2, <1>3 DEF There

LEMMA SourceExact ==
  ASSUME NEW w \in SUBSET All, Verifies(w), ~Bad(w, "docker", "missing"), ~Bad(w, "docker", "down")
  PROVE  SourceConnection(w) \in Kinds <=> There(w, "source connection")
<1> DEFINE e == VerifySource(w, FALSE)
           more == \/ Bad(w, "source", "hides cipher") /\ Bad(w, "source", "production")
                   \/ Bad(w, "source", "untrusted") /\ Bad(w, "source", "production")
<1>1. There(w, "source connection") <=> Fails(w, "source") \/ more
  BY SourceFaultsAre
<1>2. ~Bad(w, "source", "stopped") /\ ~Bad(w, "source", "recreated")
  BY NotInAll DEF Bad
<1>3. e = "ok" /\ ~Bad(w, "source", "moved")
        <=> ~Fails(w, "source") /\ ~(Bad(w, "source", "untrusted") /\ Bad(w, "source", "production"))
  BY <1>2, VerificationFails, VerifySourceOk
<1>4. SourceConnection(w) \in Kinds
        <=> \/ e # "ok"
            \/ Reported(w, "source") # Configured(w, "source")
            \/ ~Encrypted(w, "source") /\ Bad(w, "source", "production")
  BY ConnectionsTyped, StatusesAre DEF SourceConnection
<1>5. e = "ok" => ~Bad(w, "source", "unsupported") /\ ~Bad(w, "source", "mariadb")
  BY VerifySourceOk, VerificationOk
<1>6. SourceConnection(w) \in Kinds
        <=> \/ e # "ok"
            \/ Bad(w, "source", "moved")
            \/ ~Encrypted(w, "source") /\ Bad(w, "source", "production")
  BY <1>4, <1>5, ReportedIs
<1>7. ~Encrypted(w, "source") /\ Bad(w, "source", "production")
        => Fails(w, "source") \/ more
  BY DEF Encrypted, Fails, RequiresTls, Verifies, Bad
<1>8. Bad(w, "source", "hides cipher") => ~Encrypted(w, "source")
  BY DEF Encrypted
<1> HIDE DEF e
<1> QED
  BY <1>1, <1>3, <1>6, <1>7, <1>8

LEMMA TargetExact ==
  ASSUME NEW w \in SUBSET All, ~Bad(w, "docker", "missing"), ~Bad(w, "docker", "down"),
         ~Bad(w, "target", "stopped"), ~Bad(w, "target", "recreated")
  PROVE  TargetConnection(w) \in Kinds <=> There(w, "target connection")
<1> DEFINE e == VerifyTarget(w, FALSE)
<1>1. There(w, "target connection")
        <=> Fails(w, "target") \/ Bad(w, "target", "hides cipher")
  BY TargetFaultsAre
<1>2. ~Bad(w, "target", "moved") /\ ~Bad(w, "target", "production") /\ RequiresTls(w, "target")
  BY NotInAll DEF Bad, RequiresTls
<1>3. e = "ok" <=> ~Fails(w, "target")
  BY <1>2, VerificationFails, VerifyTargetOk
<1>4. TargetConnection(w) \in Kinds <=> e # "ok" \/ ~Encrypted(w, "target")
  BY ConnectionsTyped, StatusesAre DEF TargetConnection
<1>5. ~Encrypted(w, "target") <=> Bad(w, "target", "no TLS") \/ Bad(w, "target", "hides cipher")
  BY DEF Encrypted
<1>6. Bad(w, "target", "no TLS") => Fails(w, "target")
  BY <1>2 DEF Fails
<1> HIDE DEF e
<1> QED
  BY <1>1, <1>3, <1>4, <1>5, <1>6

(* What changes in the world without anyone telling doctor: a load saves   *)
(* what it migrates, a dump fills the cache, prune empties it, and a push  *)
(* is allowed.  No check looks at any of it.                               *)
Inert ==
  {<<"config", "old schema">>, <<"cache", "empty">>, <<"cache", "corrupt">>,
   <<"destination", "never allowed">>}

Unseen == {"old schema", "empty", "corrupt", "never allowed"}

LEMMA BadSame ==
  ASSUME NEW v, NEW w, v \ Inert = w \ Inert, NEW part, NEW what, what \notin Unseen
  PROVE  Bad(v, part, what) <=> Bad(w, part, what)
<1>1. <<part, what>> \notin Inert
  BY DEF Inert, Unseen
<1> HIDE DEF Inert
<1> QED
  BY <1>1 DEF Bad

LEMMA CausesSame ==
  ASSUME NEW v, NEW w, v \ Inert = w \ Inert, NEW l \in Labels
  PROVE  Causes(v, l) = Causes(w, l)
<1>1. /\ "TLS optional" \notin Unseen /\ "production" \notin Unseen
      /\ "unsupported" \notin Unseen /\ "mariadb" \notin Unseen
      /\ "moved" \notin Unseen /\ "8.0" \notin Unseen
  BY DEF Unseen
<1>2. ASSUME NEW part
      PROVE  /\ RequiresTls(v, part) <=> RequiresTls(w, part)
             /\ Bad(v, part, "production") <=> Bad(w, part, "production")
             /\ Reported(v, part) = Reported(w, part)
  <2>1. /\ Bad(v, part, "TLS optional") <=> Bad(w, part, "TLS optional")
        /\ Bad(v, part, "production") <=> Bad(w, part, "production")
        /\ Bad(v, part, "unsupported") <=> Bad(w, part, "unsupported")
        /\ Bad(v, part, "mariadb") <=> Bad(w, part, "mariadb")
        /\ Bad(v, part, "moved") <=> Bad(w, part, "moved")
        /\ Bad(v, part, "8.0") <=> Bad(w, part, "8.0")
    BY <1>1, BadSame
  <2>2. Configured(v, part) = Configured(w, part)
    BY <2>1 DEF Configured
  <2> QED
    BY <2>1, <2>2 DEF RequiresTls, Reported
<1>3. \A part : ConnectionFaults(v, part) = ConnectionFaults(w, part)
  BY <1>2 DEF ConnectionFaults, ImageFaults
<1>4. CASE l = "source connection"
  <2> DEFINE others(x) == IF Bad(x, "source", "production")
                          THEN {<<"source", "hides cipher">>, <<"source", "untrusted">>}
                          ELSE {}
  <2>1. others(v) = others(w)
    BY <1>2
  <2>2. /\ Causes(v, l) = ConnectionFaults(v, "source") \cup others(v)
        /\ Causes(w, l) = ConnectionFaults(w, "source") \cup others(w)
    BY <1>4 DEF Causes
  <2> HIDE DEF others
  <2> QED
    BY <1>3, <2>1, <2>2
<1>5. CASE l = "target connection"
  BY <1>3, <1>5 DEF Causes
<1>6. CASE l # "source connection" /\ l # "target connection"
  BY <1>6 DEF Causes
<1> QED
  BY <1>4, <1>5, <1>6

LEMMA CausesAreSeen ==
  ASSUME NEW w, NEW l \in Labels, NEW part, NEW what \in Unseen
  PROVE  <<part, what>> \notin Causes(w, l)
<1>1. \A p : <<part, what>> \notin ConnectionFaults(w, p)
  BY DEF ConnectionFaults, ImageFaults, Unseen
<1>2. CASE l = "source connection"
  <2>1. Causes(w, l) \subseteq ConnectionFaults(w, "source")
                               \cup {<<"source", "hides cipher">>, <<"source", "untrusted">>}
    BY <1>2 DEF Causes
  <2>2. <<part, what>> \notin {<<"source", "hides cipher">>, <<"source", "untrusted">>}
    BY DEF Unseen
  <2> QED
    BY <1>1, <2>1, <2>2
<1>3. CASE l = "target connection"
  <2>1. Causes(w, l) = ConnectionFaults(w, "target") \cup {<<"target", "hides cipher">>}
    BY <1>3 DEF Causes
  <2>2. <<part, what>> \notin {<<"target", "hides cipher">>}
    BY DEF Unseen
  <2> QED
    BY <1>1, <2>1, <2>2
<1>4. CASE l \in {"configuration", "cache filesystem", "active profile",
                  "local target configuration"}
  BY <1>4 DEF Causes, Unseen
<1>5. CASE l \in {"source credential", "target credential", "Docker",
                  "Docker context identity", "target container identity", "source TLS"}
  BY <1>5 DEF Causes, Unseen
<1> QED
  BY <1>2, <1>3, <1>4, <1>5, LabelsAreAll

LEMMA ThereSame ==
  ASSUME NEW v, NEW w, v \ Inert = w \ Inert, NEW l \in Labels
  PROVE  There(v, l) <=> There(w, l)
<1>1. Causes(v, l) = Causes(w, l)
  BY CausesSame
<1>2. Causes(v, l) \cap Inert = {}
  <2>1. /\ "old schema" \in Unseen /\ "empty" \in Unseen /\ "corrupt" \in Unseen
        /\ "never allowed" \in Unseen
    BY DEF Unseen
  <2>2. /\ <<"config", "old schema">> \notin Causes(v, l)
        /\ <<"cache", "empty">> \notin Causes(v, l)
        /\ <<"cache", "corrupt">> \notin Causes(v, l)
        /\ <<"destination", "never allowed">> \notin Causes(v, l)
    BY <2>1, CausesAreSeen
  <2> QED
    BY <2>2 DEF Inert
<1> HIDE DEF Inert
<1> QED
  BY <1>1, <1>2 DEF There

(* Whoever changes anything else says so.                                  *)
LEMMA MostAreInert ==
  ASSUME [Next]_vars, ~Meddles
  PROVE  world' \ Inert = world \ Inert
<1>1. ASSUME world' \in Migrations(world)
      PROVE  world' \ Inert = world \ Inert
  <2>1. world' \in {world, world \ {<<"config", "old schema">>}}
    BY <1>1 DEF Migrations
  <2>2. <<"config", "old schema">> \in Inert
    BY DEF Inert
  <2> HIDE DEF Inert
  <2> QED
    BY <2>1, <2>2
<1>2. CASE CtrlC \/ Start \/ UNCHANGED vars
  BY <1>2 DEF CtrlC, Start, vars
<1>3. CASE RunDoctor
  <2>1. world' \in {world, world \ {<<"config", "old schema">>}}
    BY <1>3, DoctorStepIsHarmless DEF RunDoctor
  <2>2. <<"config", "old schema">> \in Inert
    BY DEF Inert
  <2> HIDE DEF Inert
  <2> QED
    BY <2>1, <2>2
<1>4. CASE \/ ListDatabases \/ ReadDatabases \/ CreateDump \/ Assess \/ Export
           \/ ChooseDump \/ ValidateDump \/ LoadTarget \/ AttestTarget
  BY <1>1, <1>4
     DEF ListDatabases, ReadDatabases, CreateDump, Assess, Export,
         ChooseDump, ValidateDump, LoadTarget, AttestTarget, Looking, Loading
<1>5. CASE Publish
  <2>1. world' = world \ {<<"cache", "empty">>, <<"cache", "corrupt">>}
    BY <1>5 DEF Publish
  <2>2. {<<"cache", "empty">>, <<"cache", "corrupt">>} \subseteq Inert
    BY DEF Inert
  <2> HIDE DEF Inert
  <2> QED
    BY <2>1, <2>2
<1>6. CASE \/ StartRestore \/ RecreateDatabase \/ ImportDump
           \/ SelectTarget \/ LookUp \/ SelectDatabase
  BY <1>1, <1>6
     DEF StartRestore, RecreateDatabase, ImportDump, SelectTarget, LookUp,
         SelectDatabase, Looking, Loading, Execute
<1>7. CASE \/ ChooseDestination \/ AskConsent \/ VerifyDestination \/ ChoosePushDump
           \/ ValidatePushDump \/ AskDowngrade \/ LockDestination
           \/ EnsureDatabase \/ ImportRemote
  BY <1>1, <1>7
     DEF ChooseDestination, AskConsent, VerifyDestination, ChoosePushDump,
         ValidatePushDump, AskDowngrade, LockDestination,
         EnsureDatabase, ImportRemote, Looking, Loading, Execute
<1>8. CASE ConfirmPush
  <2>1. world' \in {world, world \ {<<"destination", "never allowed">>}}
    BY <1>8 DEF ConfirmPush, Looking
  <2>2. <<"destination", "never allowed">> \in Inert
    BY DEF Inert
  <2> HIDE DEF Inert
  <2> QED
    BY <2>1, <2>2
<1>9. CASE \/ DiscoverTargets \/ ReplaceTarget \/ NameAvailable
           \/ CollectProfile \/ AskRemoval \/ PlanPrune \/ AgreePrune
  BY <1>1, <1>9
     DEF DiscoverTargets, ReplaceTarget, NameAvailable,
         CollectProfile, AskRemoval, PlanPrune, AgreePrune, Looking, Loading
<1>10. CASE ExecutePrune
  <2>1. world' \in {world, world \cup {<<"cache", "empty">>}}
    BY <1>10 DEF ExecutePrune
  <2>2. <<"cache", "empty">> \in Inert
    BY DEF Inert
  <2> HIDE DEF Inert
  <2> QED
    BY <2>1, <2>2
<1> QED
  BY <1>2, <1>3, <1>4, <1>5, <1>6, <1>7, <1>8, <1>9, <1>10 DEF Next, Meddles

LEMMA WorldSteady ==
  ASSUME DoctorType, [Next]_vars, doctor'.steady
  PROVE  world' \ Inert = world \ Inert
<1>1. doctor' # [doctor EXCEPT !.steady = FALSE]
  BY DEF DoctorType
<1>2. ~ResetConfiguration
  BY <1>1 DEF ResetConfiguration
<1>3. ~ConfigureTarget
  BY <1>1, Zenon DEF ConfigureTarget
<1>4. ~AddProfile
  BY <1>1, Zenon DEF AddProfile
<1>5. ~Environment
  BY <1>1 DEF Environment, Change
<1>6. RemoveProfile => world' = world
  BY <1>1, Zenon DEF RemoveProfile
<1>7. StartContainer => world' = world
  BY <1>1 DEF StartContainer, Looking
<1> QED
  BY <1>2, <1>3, <1>4, <1>5, <1>6, <1>7, MostAreInert DEF Meddles

-----------------------------------------------------------------------------
(* A status is fair if it is a failure only for a fault that the check is  *)
(* there for, and passes over no such fault.                               *)
Fair(status, w, label) ==
  /\ status \in Kinds /\ label # "source TLS" => There(w, label)
  /\ There(w, label) => status \in Kinds \cup {"skipped", "none"}

ReportInvariant ==
  /\ doctor.report["source TLS"] \in Kinds \cup {"none"}
  /\ Passed("target container identity") => Passed("Docker")
  /\ doctor.steady => \A l \in Labels : Fair(doctor.report[l], world, l)

LEMMA LeftOutIsFair ==
  ASSUME NEW w, NEW label
  PROVE  Fair("none", w, label) /\ Fair("skipped", w, label)
  BY StatusesAre DEF Fair

LEMMA FairSame ==
  ASSUME NEW v, NEW w, v \ Inert = w \ Inert, NEW status, NEW l \in Labels,
         Fair(status, v, l)
  PROVE  Fair(status, w, l)
  BY ThereSame DEF Fair

LEMMA TlsIsFair ==
  ASSUME NEW w, NEW status
  PROVE  Fair(status, w, "source TLS")
  BY DEF Fair, There, Causes

(* What the load finds out.                                                *)
LEMMA LoadIsFair ==
  ASSUME NEW w
  PROVE  /\ Fair(IF Unreadable(w) THEN "Configuration"
                 ELSE IF Empty(w) THEN "warning" ELSE "passed", w, "configuration")
         /\ Fair(IF Bad(w, "disk", "low") THEN "Filesystem" ELSE "passed", w, "cache filesystem")
         /\ Fair(IF ~Unreadable(w) /\ HasProfile(w) THEN "passed" ELSE "Configuration",
                 w, "active profile")
         /\ Fair(IF ~Unreadable(w) /\ HasTarget(w) THEN "passed" ELSE "Configuration",
                 w, "local target configuration")
<1>1. /\ There(w, "configuration") <=> Unreadable(w)
      /\ There(w, "cache filesystem") <=> Bad(w, "disk", "low")
  BY DEF There, Causes, Unreadable, Bad
<1>2. There(w, "active profile") <=> Unreadable(w) \/ ~HasProfile(w)
  BY DEF There, Causes, Unreadable, HasProfile, Empty, Bad
<1>3. There(w, "local target configuration") <=> Unreadable(w) \/ ~HasTarget(w)
  BY DEF There, Causes, Unreadable, HasTarget, Empty, Bad
<1> QED
  BY <1>1, <1>2, <1>3, StatusesAre DEF Fair

LEMMA CredentialIsFair ==
  /\ Fair(Credential("active profile", "source"), world, "source credential")
  /\ Fair(Credential("local target configuration", "target"), world, "target credential")
<1>1. /\ There(world, "source credential") <=> Bad(world, "source", "no key")
      /\ There(world, "target credential") <=> Bad(world, "target", "no key")
  BY DEF There, Causes, Bad
<1> QED
  BY <1>1, StatusesAre DEF Fair, Credential

LEMMA ThereOfDocker ==
  ASSUME NEW w
  PROVE  There(w, "Docker") <=> ~Inspected(w)
<1>1. There(w, "Docker")
        <=> \E part \in {"docker"}, what \in {"missing", "down", "remote", "odd container"} :
              <<part, what>> \in w
  <2>1. Causes(w, "Docker") = {"docker"} \X {"missing", "down", "remote", "odd container"}
    BY DEF Causes
  <2> DEFINE A == {"docker"}
             B == {"missing", "down", "remote", "odd container"}
  <2> HIDE DEF A, B
  <2>2. Causes(w, "Docker") = A \X B
    BY <2>1 DEF A, B
  <2>3. There(w, "Docker") <=> \E part \in A, what \in B : <<part, what>> \in w
    BY <2>2, PairsMeet DEF There
  <2> QED
    BY <2>3 DEF A, B
<1>2. There(w, "Docker")
        <=> \/ Bad(w, "docker", "missing") \/ Bad(w, "docker", "down")
            \/ Bad(w, "docker", "remote") \/ Bad(w, "docker", "odd container")
  BY <1>1 DEF Bad
<1> QED
  BY <1>2, DiscoverOk DEF Inspected

LEMMA InspectionIsFair ==
  /\ Fair(IF Inspected(world) THEN "passed" ELSE "Docker", world, "Docker")
  /\ ~ContextMatches(doctor.view, world) => Fair("Docker", world, "Docker context identity")
  /\ Fair(Identity(world), world, "target container identity")
<1>1. There(world, "Docker context identity") <=> Bad(world, "docker", "other context")
  BY DEF There, Causes, Bad
<1>2. There(world, "target container identity")
        <=> ~Exact(world) \/ Bad(world, "target", "stopped")
  BY DEF There, Causes, Bad, Exact
<1>3. Fair(IF Inspected(world) THEN "passed" ELSE "Docker", world, "Docker")
  BY ThereOfDocker, StatusesAre DEF Fair
<1>4. ~ContextMatches(doctor.view, world) => Fair("Docker", world, "Docker context identity")
  BY <1>1, StatusesAre DEF Fair, ContextMatches
<1>5. Fair(Identity(world), world, "target container identity")
  BY <1>2, LeftOutIsFair, StatusesAre DEF Fair, Identity
<1> QED
  BY <1>3, <1>4, <1>5

LEMMA SourceIsFair ==
  ASSUME WorldInvariant, Inspected(world)
  PROVE  Fair(SourceConnection(world), world, "source connection")
<1>1. ~Bad(world, "docker", "missing") /\ ~Bad(world, "docker", "down")
  BY DiscoverOk DEF Inspected
<1>2. SourceConnection(world) \in Kinds <=> There(world, "source connection")
  BY <1>1, SourceExact DEF WorldInvariant
<1> QED
  BY <1>2 DEF Fair

LEMMA TargetIsFair ==
  ASSUME WorldInvariant, Inspected(world), ~There(world, "target container identity")
  PROVE  Fair(TargetConnection(world), world, "target connection")
<1>1. ~Bad(world, "docker", "missing") /\ ~Bad(world, "docker", "down")
  BY DiscoverOk DEF Inspected
<1>2. ~Bad(world, "target", "stopped") /\ ~Bad(world, "target", "recreated")
  BY DEF There, Causes, Bad
<1>3. TargetConnection(world) \in Kinds <=> There(world, "target connection")
  BY <1>1, <1>2, TargetExact DEF WorldInvariant
<1> QED
  BY <1>3 DEF Fair

(* One more check in the report.                                           *)
LEMMA ReportStaysFair ==
  ASSUME DoctorType, ReportInvariant, NEW pc, NEW label \in Labels, NEW status,
         Report(pc, label, status), world' = world,
         label = "source TLS" => status \in Kinds,
         label \notin {"Docker", "target container identity"},
         doctor.steady => Fair(status, world, label)
  PROVE  ReportInvariant'
<1>1. /\ doctor'.steady = doctor.steady /\ doctor'.report[label] = status
      /\ \A l \in Labels \ {label} : doctor'.report[l] = doctor.report[l]
  BY DEF DoctorType, Report
<1>2. doctor'.report["source TLS"] \in Kinds \cup {"none"}
  BY <1>1, LabelsAre DEF ReportInvariant
<1>3. Passed("target container identity")' => Passed("Docker")'
  BY <1>1, LabelsAre DEF ReportInvariant, Passed
<1>4. ASSUME doctor'.steady, NEW l \in Labels
      PROVE  Fair(doctor'.report[l], world', l)
  BY <1>1, <1>4 DEF ReportInvariant
<1> QED
  BY <1>2, <1>3, <1>4 DEF ReportInvariant

LEMMA LoadStaysFair ==
  ASSUME DoctorType, DoctorLoad
  PROVE  ReportInvariant'
<1> DEFINE read == ~Unreadable(world)
           first == IF Unreadable(world) THEN "Configuration"
                    ELSE IF Empty(world) THEN "warning" ELSE "passed"
           second == IF Bad(world, "disk", "low") THEN "Filesystem" ELSE "passed"
           third == IF ~Unreadable(world) /\ HasProfile(world) THEN "passed" ELSE "Configuration"
           fourth == IF ~Unreadable(world) /\ HasTarget(world) THEN "passed" ELSE "Configuration"
           report == [NoReport EXCEPT !["configuration"] = first,
                                      !["cache filesystem"] = second,
                                      !["active profile"] = third,
                                      !["local target configuration"] = fourth]
<1>1. doctor' = [doctor EXCEPT !.pc = "credentials", !.view = world', !.report = report]
  BY DEF DoctorLoad
<1>2. /\ Fair(first, world, "configuration") /\ Fair(second, world, "cache filesystem")
      /\ Fair(third, world, "active profile")
      /\ Fair(fourth, world, "local target configuration")
  BY LoadIsFair
<1> HIDE DEF first, second, third, fourth
<1>3. /\ report["configuration"] = first /\ report["cache filesystem"] = second
      /\ report["active profile"] = third /\ report["local target configuration"] = fourth
      /\ \A l \in Labels \ {"configuration", "cache filesystem", "active profile",
                              "local target configuration"} : report[l] = "none"
  BY LabelsAre DEF NoReport
<1>4. doctor'.report = report
  BY <1>1 DEF DoctorType
<1> HIDE DEF report
<1>5. \A l \in Labels : Fair(report[l], world, l)
  BY <1>2, <1>3, LeftOutIsFair
<1>6. world \ Inert = world' \ Inert
  <2>1. world' \in {world, world \ {<<"config", "old schema">>}}
    BY DEF DoctorLoad, Migrations
  <2>2. <<"config", "old schema">> \in Inert
    BY DEF Inert
  <2> HIDE DEF Inert
  <2> QED
    BY <2>1, <2>2
<1>7. \A l \in Labels : Fair(report[l], world', l)
  BY <1>5, <1>6, FairSame
<1>8. report["source TLS"] = "none" /\ report["target container identity"] = "none"
  BY <1>3, LabelsAre
<1> QED
  BY <1>4, <1>7, <1>8, StatusesAre DEF ReportInvariant, Passed

LEMMA CredentialsStayFair ==
  ASSUME DoctorType, ReportInvariant, DoctorCredentials
  PROVE  ReportInvariant'
<1> DEFINE source == Credential("active profile", "source")
           target == Credential("local target configuration", "target")
           report == [doctor.report EXCEPT !["source credential"] = source,
                                           !["target credential"] = target]
<1>1. doctor' = [doctor EXCEPT !.pc = "inspect", !.report = report] /\ world' = world
  BY DEF DoctorCredentials, DoctorType
<1>2. Fair(source, world, "source credential") /\ Fair(target, world, "target credential")
  BY CredentialIsFair
<1> HIDE DEF source, target
<1>3. /\ report["source credential"] = source /\ report["target credential"] = target
      /\ \A l \in Labels \ {"source credential", "target credential"} :
           report[l] = doctor.report[l]
  BY LabelsAre DEF DoctorType
<1>4. doctor'.report = report /\ doctor'.steady = doctor.steady
  BY <1>1 DEF DoctorType
<1> HIDE DEF report
<1>5. doctor'.report["source TLS"] \in Kinds \cup {"none"}
  BY <1>3, <1>4, LabelsAre DEF ReportInvariant
<1>6. Passed("target container identity")' => Passed("Docker")'
  BY <1>3, <1>4, LabelsAre DEF ReportInvariant, Passed
<1>7. ASSUME doctor'.steady, NEW l \in Labels
      PROVE  Fair(doctor'.report[l], world', l)
  BY <1>1, <1>2, <1>3, <1>4, <1>7 DEF ReportInvariant
<1> QED
  BY <1>5, <1>6, <1>7 DEF ReportInvariant

LEMMA InspectStaysFair ==
  ASSUME DoctorType, ReportInvariant, DoctorInspect
  PROVE  ReportInvariant'
<1> DEFINE mismatch == /\ ~Unreadable(doctor.view)
                       /\ Inspected(world)
                       /\ ~ContextMatches(doctor.view, world)
           docker == IF Inspected(world) THEN "passed" ELSE "Docker"
           context == IF mismatch THEN "Docker" ELSE "none"
           identity == Identity(world)
           report == [doctor.report EXCEPT !["Docker"] = docker,
                                           !["Docker context identity"] = context,
                                           !["target container identity"] = identity]
<1>1. doctor' = [doctor EXCEPT !.pc = "source", !.report = report] /\ world' = world
  BY DEF DoctorInspect, DoctorType
<1>2. /\ Fair(docker, world, "Docker") /\ Fair(context, world, "Docker context identity")
      /\ Fair(identity, world, "target container identity")
  BY InspectionIsFair, LeftOutIsFair
<1>3. identity = "passed" => docker = "passed"
  BY DEF Identity, DockerReady
<1> HIDE DEF docker, context, identity
<1>4. /\ report["Docker"] = docker /\ report["Docker context identity"] = context
      /\ report["target container identity"] = identity
      /\ \A l \in Labels \ {"Docker", "Docker context identity",
                              "target container identity"} : report[l] = doctor.report[l]
  BY LabelsAre DEF DoctorType
<1>5. doctor'.report = report /\ doctor'.steady = doctor.steady
  BY <1>1 DEF DoctorType
<1> HIDE DEF report
<1>6. doctor'.report["source TLS"] \in Kinds \cup {"none"}
  BY <1>4, <1>5, LabelsAre DEF ReportInvariant
<1>7. Passed("target container identity")' => Passed("Docker")'
  BY <1>3, <1>4, <1>5 DEF Passed
<1>8. ASSUME doctor'.steady, NEW l \in Labels
      PROVE  Fair(doctor'.report[l], world', l)
  BY <1>1, <1>2, <1>4, <1>5, <1>8 DEF ReportInvariant
<1> QED
  BY <1>6, <1>7, <1>8 DEF ReportInvariant

LEMMA SourceStaysFair ==
  ASSUME WorldInvariant, DoctorType, ReportInvariant, DoctorSource
  PROVE  ReportInvariant'
<1>1. world' = world /\ "source connection" \in Labels /\ "source TLS" \in Labels
  BY LabelsAre DEF DoctorSource
<1> DEFINE ready == /\ Passed("source credential")
                    /\ Passed("Docker")
                    /\ doctor.report["Docker context identity"] = "none"
<1>2. CASE ~ready
  <2>1. Report("target", "source connection", "skipped")
    BY <1>2 DEF DoctorSource
  <2> QED
    BY <1>1, <2>1, LeftOutIsFair, ReportStaysFair
<1>3. CASE ready
  <2>1. doctor.steady => Fair(SourceConnection(world), world, "source connection")
    <3> SUFFICES ASSUME doctor.steady
                 PROVE  Fair(SourceConnection(world), world, "source connection")
      OBVIOUS
    <3>1. Fair("passed", world, "Docker")
      BY <1>3, LabelsAre DEF ReportInvariant, Passed
    <3>2. Inspected(world)
      BY <3>1, ThereOfDocker, StatusesAre DEF Fair
    <3> QED
      BY <3>2, SourceIsFair
  <2>2. \/ Report("target", "source TLS", "SourceConnection")
        \/ Report("target", "source connection", SourceConnection(world))
    BY <1>3 DEF DoctorSource
  <2>3. CASE Report("target", "source TLS", "SourceConnection")
    BY <1>1, <2>3, TlsIsFair, StatusesAre, ReportStaysFair
  <2>4. CASE Report("target", "source connection", SourceConnection(world))
    BY <1>1, <2>1, <2>4, ReportStaysFair
  <2> QED
    BY <2>2, <2>3, <2>4
<1> QED
  BY <1>2, <1>3

LEMMA TargetStaysFair ==
  ASSUME WorldInvariant, DoctorType, ReportInvariant, DoctorTarget
  PROVE  ReportInvariant'
<1>1. world' = world /\ "target connection" \in Labels
  BY LabelsAre DEF DoctorTarget
<1> DEFINE ready == Passed("target credential") /\ Passed("target container identity")
<1>2. CASE ~ready
  <2>1. Report("done", "target connection", "skipped")
    BY <1>2 DEF DoctorTarget
  <2> QED
    BY <1>1, <2>1, LeftOutIsFair, ReportStaysFair
<1>3. CASE ready
  <2>1. Report("done", "target connection", TargetConnection(world))
    BY <1>3 DEF DoctorTarget
  <2>2. doctor.steady => Fair(TargetConnection(world), world, "target connection")
    <3> SUFFICES ASSUME doctor.steady
                 PROVE  Fair(TargetConnection(world), world, "target connection")
      OBVIOUS
    <3>1. Fair("passed", world, "Docker") /\ Fair("passed", world, "target container identity")
      BY <1>3, LabelsAre DEF ReportInvariant, Passed
    <3>2. Inspected(world) /\ ~There(world, "target container identity")
      BY <3>1, ThereOfDocker, StatusesAre DEF Fair
    <3> QED
      BY <3>2, TargetIsFair
  <2> QED
    BY <1>1, <2>1, <2>2, ReportStaysFair
<1> QED
  BY <1>2, <1>3

LEMMA ReportInvariantHolds == Spec => []ReportInvariant
<1>1. Init => ReportInvariant
  <2> SUFFICES ASSUME Init PROVE ReportInvariant
    OBVIOUS
  <2>1. \A l \in Labels : doctor.report[l] = "none"
    BY DEF Init, NoDoctor, NoReport
  <2> QED
    BY <2>1, LabelsAre, LeftOutIsFair, StatusesAre DEF ReportInvariant, Passed
<1>2. RestInvariant /\ ReportInvariant /\ [Next]_vars => ReportInvariant'
  <2> SUFFICES ASSUME RestInvariant, ReportInvariant, [Next]_vars
               PROVE  ReportInvariant'
    OBVIOUS
  <2>1. WorldInvariant /\ DoctorType
    BY DEF RestInvariant
  <2>2. CASE RunDoctor
    BY <2>1, <2>2, LoadStaysFair, CredentialsStayFair, InspectStaysFair, SourceStaysFair,
       TargetStaysFair DEF RunDoctor, DoctorStep
  <2>3. ASSUME doctor'.report = doctor.report, doctor'.steady => doctor.steady
        PROVE  ReportInvariant'
    <3>1. ASSUME doctor'.steady, NEW l \in Labels
          PROVE  Fair(doctor'.report[l], world', l)
      <4>1. world \ Inert = world' \ Inert
        BY <2>1, <3>1, WorldSteady
      <4>2. Fair(doctor.report[l], world, l)
        BY <2>3, <3>1 DEF ReportInvariant
      <4> QED
        BY <2>3, <4>1, <4>2, FairSame
    <3> QED
      BY <2>3, <3>1 DEF ReportInvariant, Passed
  <2>4. CASE doctor' = doctor \/ doctor' = [doctor EXCEPT !.steady = FALSE]
    BY <2>1, <2>3, <2>4 DEF DoctorType
  <2>5. CASE Environment
    BY <2>4, <2>5 DEF Environment, Change
  <2>6. CASE Start
    <3>1. CASE doctor' = [NoDoctor EXCEPT !.pc = "load"]
      <4>1. doctor'.report = NoReport
        BY <3>1 DEF NoDoctor
      <4>2. \A l \in Labels : doctor'.report[l] = "none"
        BY <4>1 DEF NoReport
      <4> QED
        BY <4>2, LabelsAre, LeftOutIsFair, StatusesAre DEF ReportInvariant, Passed
    <3> QED
      BY <2>4, <2>6, <3>1 DEF Start
  <2> QED
    BY <2>2, <2>4, <2>5, <2>6, CommandsLeaveDoctor
<1> QED
  BY <1>1, <1>2, RestInvariantHolds, PTL DEF Spec

(* In a world that does not change a check fails only for a fault that it  *)
(* is there for, and passes over none: every question that it asks is      *)
(* answered with "ok" if and only if nothing that it asks about is wrong,  *)
(* once the checks before it have ruled out what it does not answer for.   *)
THEOREM ReportHolds == Spec => []ReportIsExact
<1>1. ReportInvariant => ReportIsExact
  <2> SUFFICES ASSUME ReportInvariant, doctor.steady, NEW l \in Labels
               PROVE  LET there == Causes(world, l) \cap world # {}
                      IN /\ doctor.report[l] \in Kinds /\ l # "source TLS" => there
                         /\ there => Result(l) \in Kinds \cup {"skipped", "none"}
    BY DEF ReportIsExact
  <2>1. Fair(doctor.report[l], world, l)
    BY DEF ReportInvariant
  <2>2. Result(l) \in Kinds \cup {doctor.report[l]}
    BY DEF Result, ReportInvariant
  <2> QED
    BY <2>1, <2>2 DEF Fair, There
<1> QED
  BY <1>1, ReportInvariantHolds, PTL

-----------------------------------------------------------------------------
(* What a setup or a profile add has put right stays right, as long as     *)
(* nothing but reprodb changes the world.                                  *)

(* Nothing that the checks of the source are there for.                    *)
SourceIsRight(w) ==
  /\ ~Unreadable(w) /\ HasProfile(w) /\ ~Bad(w, "source", "no key")
  /\ ~Fails(w, "source")
  /\ ~(/\ Bad(w, "source", "production")
       /\ Bad(w, "source", "hides cipher") \/ Bad(w, "source", "untrusted"))

(* ... and those of the target, whatever cipher it reports.                *)
TargetIsRight(w) ==
  /\ ~Unreadable(w) /\ HasTarget(w) /\ ~Bad(w, "target", "no key")
  /\ ~Bad(w, "docker", "other context")
  /\ Exact(w) /\ ~Bad(w, "target", "stopped") /\ ~Fails(w, "target")

(* What goes and comes without a fault that is new: the images that were   *)
(* pulled, and a container that was started.                               *)
Gone == Unseen \cup {"stopped", "no key", "missing"}

Calm(v, w) ==
  /\ \A part, what : what \notin Unseen \cup {"none"} =>
       (Bad(w, part, what) => Bad(v, part, what))
  /\ \A part, what : what \notin Gone => (Bad(v, part, what) => Bad(w, part, what))
  /\ Bad(w, "target", "none") => Bad(v, "target", "none")

LEMMA CalmReports ==
  ASSUME NEW v, NEW w, Calm(v, w), NEW part
  PROVE  /\ Reported(v, part) = Reported(w, part)
         /\ RequiresTls(v, part) <=> RequiresTls(w, part)
         /\ Bad(v, part, "production") <=> Bad(w, part, "production")
<1>1. ASSUME NEW what, what \notin Gone \cup {"none"}
      PROVE  Bad(v, part, what) <=> Bad(w, part, what)
  BY <1>1 DEF Calm, Gone
<1>2. /\ "unsupported" \notin Gone \cup {"none"} /\ "mariadb" \notin Gone \cup {"none"}
      /\ "moved" \notin Gone \cup {"none"} /\ "8.0" \notin Gone \cup {"none"}
      /\ "TLS optional" \notin Gone \cup {"none"} /\ "production" \notin Gone \cup {"none"}
  BY DEF Gone, Unseen
<1>3. /\ Bad(v, part, "unsupported") <=> Bad(w, part, "unsupported")
      /\ Bad(v, part, "mariadb") <=> Bad(w, part, "mariadb")
      /\ Bad(v, part, "moved") <=> Bad(w, part, "moved")
      /\ Bad(v, part, "8.0") <=> Bad(w, part, "8.0")
      /\ Bad(v, part, "TLS optional") <=> Bad(w, part, "TLS optional")
      /\ Bad(v, part, "production") <=> Bad(w, part, "production")
  BY <1>1, <1>2
<1>4. Configured(v, part) = Configured(w, part)
  BY <1>3 DEF Configured
<1> QED
  BY <1>3, <1>4 DEF Reported, RequiresTls

LEMMA CalmFails ==
  ASSUME NEW v, NEW w, Calm(v, w), NEW part, Fails(w, part)
  PROVE  Fails(v, part)
<1>1. ASSUME NEW p, NEW what, what \notin Unseen \cup {"none"}, Bad(w, p, what)
      PROVE  Bad(v, p, what)
  BY <1>1 DEF Calm
<1>2. /\ "unreachable" \notin Unseen \cup {"none"} /\ "rejects" \notin Unseen \cup {"none"}
      /\ "busy" \notin Unseen \cup {"none"} /\ "unsupported" \notin Unseen \cup {"none"}
      /\ "mariadb" \notin Unseen \cup {"none"} /\ "moved" \notin Unseen \cup {"none"}
      /\ "warming" \notin Unseen \cup {"none"} /\ "no TLS" \notin Unseen \cup {"none"}
      /\ "no temporary file" \notin Unseen \cup {"none"}
      /\ "missing" \notin Unseen \cup {"none"} /\ "wrong digest" \notin Unseen \cup {"none"}
  BY DEF Unseen
<1>3. Reported(v, part) = Reported(w, part) /\ (RequiresTls(v, part) <=> RequiresTls(w, part))
  BY CalmReports
<1> QED
  BY <1>1, <1>2, <1>3 DEF Fails

LEMMA CalmKeeps ==
  ASSUME NEW v, NEW w, Calm(v, w)
  PROVE  /\ SourceIsRight(v) /\ ~Bad(w, "source", "none") => SourceIsRight(w)
         /\ TargetIsRight(v) => TargetIsRight(w)
         /\ Inspected(v) => Inspected(w)
<1>1. ASSUME NEW part, NEW what, what \notin Unseen \cup {"none"}, Bad(w, part, what)
      PROVE  Bad(v, part, what)
  BY <1>1 DEF Calm
<1>2. /\ "unreadable" \notin Unseen \cup {"none"} /\ "absent" \notin Unseen \cup {"none"}
      /\ "no key" \notin Unseen \cup {"none"} /\ "hides cipher" \notin Unseen \cup {"none"}
      /\ "untrusted" \notin Unseen \cup {"none"} /\ "stopped" \notin Unseen \cup {"none"}
      /\ "other context" \notin Unseen \cup {"none"}
      /\ "recreated" \notin Unseen \cup {"none"}
  BY DEF Unseen
<1>3. /\ "missing" \notin Unseen \cup {"none"} /\ "down" \notin Unseen \cup {"none"}
      /\ "remote" \notin Unseen \cup {"none"}
      /\ "odd container" \notin Unseen \cup {"none"}
  BY DEF Unseen
<1>4. /\ Unreadable(w) => Unreadable(v)
      /\ Empty(w) => Empty(v)
      /\ HasTarget(v) => HasTarget(w)
  BY <1>1, <1>2 DEF Unreadable, Empty, HasTarget, Calm
<1>5. SourceIsRight(v) /\ ~Bad(w, "source", "none") => SourceIsRight(w)
  <2> SUFFICES ASSUME SourceIsRight(v), ~Bad(w, "source", "none") PROVE SourceIsRight(w)
    OBVIOUS
  <2>1. ~Fails(w, "source")
    BY CalmFails DEF SourceIsRight
  <2>2. HasProfile(w)
    BY <1>4 DEF HasProfile, SourceIsRight
  <2>3. Bad(w, "source", "production") => Bad(v, "source", "production")
    BY CalmReports
  <2> QED
    BY <1>1, <1>2, <1>4, <2>1, <2>2, <2>3 DEF SourceIsRight
<1>6. TargetIsRight(v) => TargetIsRight(w)
  <2> SUFFICES ASSUME TargetIsRight(v) PROVE TargetIsRight(w)
    OBVIOUS
  <2>1. ~Fails(w, "target")
    BY CalmFails DEF TargetIsRight
  <2> QED
    BY <1>1, <1>2, <1>4, <2>1 DEF TargetIsRight, Exact
<1>7. Inspected(v) => Inspected(w)
  BY <1>1, <1>3, DiscoverOk DEF Inspected
<1> QED
  BY <1>5, <1>6, <1>7

LEMMA CalmSets ==
  ASSUME NEW v, NEW w, NEW new, NEW old, w \subseteq v \cup new, v \subseteq w \cup old,
         \A part, what : <<part, what>> \in new => what \in Unseen \cup {"none"},
         \A part, what : <<part, what>> \in old => what \in Gone,
         <<"target", "none">> \notin new
  PROVE  Calm(v, w)
  BY DEF Calm, Bad

LEMMA InertIsCalm ==
  ASSUME NEW v, NEW w, v \ Inert = w \ Inert
  PROVE  Calm(v, w) /\ (Bad(w, "source", "none") => Bad(v, "source", "none"))
<1>1. \A part, what : <<part, what>> \in Inert => what \in Unseen
  BY DEF Inert, Unseen
<1>2. w \subseteq v \cup Inert /\ v \subseteq w \cup Inert
  <2> HIDE DEF Inert
  <2> QED
    OBVIOUS
<1>3. <<"target", "none">> \notin Inert /\ <<"source", "none">> \notin Inert
  BY DEF Inert
<1> HIDE DEF Inert
<1>4. Unseen \subseteq Gone
  BY DEF Gone
<1>5. Calm(v, w)
  BY <1>1, <1>2, <1>3, <1>4, CalmSets
<1> QED
  BY <1>2, <1>3, <1>5 DEF Bad

LEMMA PulledAre ==
  ASSUME NEW w, NEW part, NEW f \in PulledBy(w, part)
  PROVE  \E s \in Series : f = <<s, "missing">>
<1> DEFINE found == /\ First(<<Prepare(w, Discovery), OptionFile(w), Probe(w, part)>>) = "ok"
                    /\ Approved(Reported(w, part))
           wanted == {Discovery} \cup IF found THEN {Reported(w, part)} ELSE {}
<1>1. PICK s \in wanted : f = <<s, "missing">>
  BY DEF PulledBy
<1>2. Discovery \in Series
  BY DEF Discovery, Series
<1>3. found => Reported(w, part) \in Series
  BY DEF Approved
<1> HIDE DEF found
<1>4. s \in Series
  BY <1>2, <1>3
<1> QED
  BY <1>1, <1>4

LEMMA PullingIsCalm ==
  ASSUME NEW v, NEW w, NEW part
  PROVE  Calm(v, v \ PulledBy(w, part))
<1> DEFINE old == PulledBy(w, part)
<1>1. ASSUME NEW p, NEW what, <<p, what>> \in old
      PROVE  what \in Gone
  <2>1. PICK s \in Series : <<p, what>> = <<s, "missing">>
    BY <1>1, PulledAre
  <2> QED
    BY <2>1 DEF Gone
<1> HIDE DEF old
<1>2. Calm(v, v \ old)
  BY <1>1 DEF Calm, Bad
<1> QED
  BY <1>2 DEF old

(* Every question of a verification that pulls has been answered, and what *)
(* it needed is there, or was pulled.                                      *)
LEMMA VerifiedIs ==
  ASSUME NEW w, NEW part, Verification(w, part, TRUE) = "ok"
  PROVE  /\ Probe(w, part) = "ok" /\ ~Bad(w, "disk", "no temporary file")
         /\ ~Bad(w, part, "unsupported") /\ ~Bad(w, part, "mariadb")
         /\ \A s \in {Discovery, Reported(w, part)} :
              /\ ~Bad(w, s, "wrong digest")
              /\ Bad(w, s, "missing") => <<s, "missing">> \in PulledBy(w, part)
<1> DEFINE a == Prepare(w, Discovery)
           b == OptionFile(w)
           c == Probe(w, part)
           d == When(~Approved(Reported(w, part)), "UnsupportedServerSeries")
           e == Prepare(w, Reported(w, part))
<1>1. Verification(w, part, TRUE) = First(<<a, b, c, d, e>>)
  BY DEF Verification, PrepareClient
<1>2. a = "ok" /\ b = "ok" /\ c = "ok" /\ d = "ok" /\ e = "ok"
  <2> HIDE DEF a, b, c, d, e
  <2>1. First(<<a, b, c, d, e>>) = "ok"
          => a = "ok" /\ b = "ok" /\ c = "ok" /\ d = "ok" /\ e = "ok"
    BY FirstOfFive
  <2> QED
    BY <1>1, <2>1
<1>3. ASSUME NEW s, Prepare(w, s) = "ok"
      PROVE  ~Bad(w, s, "wrong digest")
  <2> DEFINE p == When(Bad(w, "docker", "missing"), "Process")
             q == When(Bad(w, "docker", "down"), "DockerUnavailable")
             r == When(/\ Bad(w, s, "missing")
                       /\ Bad(w, "registry", "offline"), "ImagePullFailed")
             t == VerifyImage(w, s)
  <2>1. Prepare(w, s) = First(<<p, q, r, t>>)
    BY DEF Prepare
  <2>2. t = "ok" => ~Bad(w, s, "wrong digest")
    BY DEF VerifyImage, When
  <2> HIDE DEF p, q, r, t
  <2>3. First(<<p, q, r, t>>) = "ok" => t = "ok"
    BY FirstOfFour
  <2> QED
    BY <1>3, <2>1, <2>2, <2>3
<1>4. Approved(Reported(w, part))
  BY <1>2 DEF When
<1>5. First(<<a, b, c>>) = "ok"
  <2> HIDE DEF a, b, c
  <2> QED
    BY <1>2, FirstOk
<1>6. ASSUME NEW s \in {Discovery, Reported(w, part)}, Bad(w, s, "missing")
      PROVE  <<s, "missing">> \in PulledBy(w, part)
  <2>1. Prepare(w, s) = "ok"
    BY <1>2
  <2> QED
    BY <1>4, <1>5, <1>6, <2>1 DEF PulledBy
<1>7. ~Bad(w, part, "unsupported") /\ ~Bad(w, part, "mariadb")
  BY <1>4, ReportedIs
<1>8. ~Bad(w, "disk", "no temporary file")
  BY <1>2 DEF OptionFile, When
<1> QED
  BY <1>2, <1>3, <1>6, <1>7, <1>8

(* The document that is saved, over whatever there was.                    *)
Saved(w) == WithContext(Present(w))

LEMMA SavedIs ==
  ASSUME NEW w
  PROVE  /\ ~Empty(Saved(w))
         /\ (HasContext(w) => ~Bad(w, "docker", "other context"))
              => ~Bad(Saved(w), "docker", "other context")
         /\ \A part, what : what \notin {"none", "no context", "absent", "other context"} =>
              (Bad(Saved(w), part, what) <=> Bad(w, part, what))
<1> DEFINE p == Present(w)
<1>1. \A part, what : <<part, what>> \in Nothing => what \in {"none", "no context"}
  BY DEF Nothing
<1>2. <<"config", "no context">> \in Nothing /\ <<"config", "absent">> \notin Nothing
  BY DEF Nothing
<1>3. <<"config", "absent">> # <<"config", "no context">>
  OBVIOUS
<1>4. CASE ~Empty(w)
  <2>1. p = w
    BY <1>4 DEF Present
  <2> QED
    BY <1>4, <2>1 DEF Saved, WithContext, HasContext, Empty, Bad
<1>5. CASE Empty(w)
  <2>1. p = (w \ {<<"config", "absent">>}) \cup Nothing
    BY <1>5 DEF Present
  <2> HIDE DEF p
  <2>2. ~HasContext(p)
    BY <1>2, <2>1 DEF HasContext, Bad
  <2>3. Saved(w) = p \ {<<"config", "no context">>, <<"docker", "other context">>}
    BY <2>2 DEF Saved, WithContext, p
  <2>4. ~Empty(Saved(w)) /\ ~Bad(Saved(w), "docker", "other context")
    BY <1>2, <2>1, <2>3 DEF Empty, Bad
  <2>5. \A part, what : what \notin {"none", "no context", "absent", "other context"} =>
          (Bad(Saved(w), part, what) <=> Bad(w, part, what))
    BY <1>1, <2>1, <2>3 DEF Bad
  <2> QED
    BY <2>4, <2>5
<1> QED
  BY <1>4, <1>5

(* Docker and the servers are as they were when they were asked.           *)
Elsewhere == {"none", "no key", "no context", "absent", "other context", "missing"}

LEMMA TargetSaved ==
  ASSUME NEW w \in SUBSET All, Verification(w, "target", TRUE) = "ok", ~Unreadable(w),
         HasContext(w) => ~Bad(w, "docker", "other context"), NEW v,
         v = (Saved(w) \ {<<"target", "none">>, <<"target", "no key">>})
               \ PulledBy(w, "target")
  PROVE  TargetIsRight(v) /\ (Inspected(w) => Inspected(v))
<1>1. \A part, what : Bad(v, part, what) => Bad(Saved(w), part, what)
  BY DEF Bad
<1>2. \A part, what : what \notin {"none", "no context", "absent", "other context"} =>
        (Bad(v, part, what) => Bad(w, part, what))
  BY <1>1, SavedIs
<1>3. \A part, what : what \notin Elsewhere => (Bad(v, part, what) <=> Bad(w, part, what))
  <2>1. \A part, what : what # "missing" => <<part, what>> \notin PulledBy(w, "target")
    <3> SUFFICES ASSUME NEW part, NEW what, what # "missing",
                        <<part, what>> \in PulledBy(w, "target")
                 PROVE  FALSE
      OBVIOUS
    <3>1. \E s \in Series : <<part, what>> = <<s, "missing">>
      BY PulledAre
    <3> QED
      BY <3>1
  <2>2. \A part, what : what \notin Elsewhere => (Bad(Saved(w), part, what) <=> Bad(w, part, what))
    BY SavedIs DEF Elsewhere
  <2>3. \A part, what : what \notin Elsewhere =>
          <<part, what>> \notin {<<"target", "none">>, <<"target", "no key">>}
    BY DEF Elsewhere
  <2>4. "missing" \in Elsewhere
    BY DEF Elsewhere
  <2> QED
    BY <2>1, <2>2, <2>3, <2>4 DEF Bad
<1>4. /\ "unreachable" \notin Elsewhere /\ "rejects" \notin Elsewhere /\ "busy" \notin Elsewhere
      /\ "unsupported" \notin Elsewhere /\ "mariadb" \notin Elsewhere
      /\ "moved" \notin Elsewhere /\ "warming" \notin Elsewhere /\ "no TLS" \notin Elsewhere
      /\ "no temporary file" \notin Elsewhere /\ "wrong digest" \notin Elsewhere
      /\ "8.0" \notin Elsewhere /\ "unreadable" \notin Elsewhere
      /\ "stopped" \notin Elsewhere /\ "recreated" \notin Elsewhere
  BY DEF Elsewhere
<1>5. ~Bad(w, "target", "moved") /\ RequiresTls(w, "target")
  BY NotInAll DEF Bad, RequiresTls
<1>6. Reported(v, "target") = Reported(w, "target")
  <2>1. Configured(v, "target") = Configured(w, "target")
    BY <1>3, <1>4 DEF Configured
  <2> QED
    BY <1>3, <1>4, <2>1 DEF Reported
<1>7. ~Fails(v, "target")
  <2>1. /\ ~Bad(w, "target", "unreachable") /\ ~Bad(w, "target", "rejects")
        /\ ~Bad(w, "target", "busy") /\ ~Bad(w, "target", "warming")
        /\ ~Bad(w, "target", "no TLS")
    BY <1>5, VerifiedIs, ProbeOk
  <2>2. /\ ~Bad(w, "target", "unsupported") /\ ~Bad(w, "target", "mariadb")
        /\ ~Bad(w, "disk", "no temporary file")
    BY VerifiedIs
  <2>3. ASSUME NEW s \in {Discovery, Reported(w, "target")}
        PROVE  ~Bad(v, s, "missing") /\ ~Bad(v, s, "wrong digest")
    <3>1. /\ ~Bad(w, s, "wrong digest")
          /\ Bad(w, s, "missing") => <<s, "missing">> \in PulledBy(w, "target")
      BY VerifiedIs
    <3>2. Bad(v, s, "missing") => Bad(w, s, "missing")
      BY <1>2
    <3> QED
      BY <1>3, <1>4, <3>1, <3>2 DEF Bad
  <2> QED
    BY <1>3, <1>4, <1>5, <1>6, <2>1, <2>2, <2>3 DEF Fails
<1>8. ~Bad(v, "target", "stopped") /\ Exact(v)
  BY <1>3, <1>4, VerifiedIs, ProbeOk DEF Exact
<1>9. HasTarget(v) /\ ~Bad(v, "target", "no key") /\ ~Bad(v, "docker", "other context")
  <2>1. ~Empty(v) /\ ~Bad(v, "docker", "other context")
    BY <1>1, SavedIs DEF Empty
  <2> QED
    BY <2>1 DEF HasTarget, Bad
<1>10. ~Unreadable(v)
  BY <1>3, <1>4 DEF Unreadable
<1>11. Inspected(w) => Inspected(v)
  BY <1>2, DiscoverOk DEF Inspected
<1> QED
  BY <1>7, <1>8, <1>9, <1>10, <1>11 DEF TargetIsRight

(* The series that is recorded is the one the server reported.             *)
LEMMA RecordedIs ==
  ASSUME NEW w
  PROVE  /\ ~Bad(Recorded(w), "source", "moved")
         /\ Configured(Recorded(w), "source")
              = IF Bad(w, "source", "moved") THEN Other(Configured(w, "source"))
                ELSE Configured(w, "source")
         /\ \A part, what : what \notin {"moved", "8.0"} =>
              (Bad(Recorded(w), part, what) <=> Bad(w, part, what))
<1>1. <<"source", "8.0">> # <<"source", "moved">>
  OBVIOUS
<1>2. CASE ~Bad(w, "source", "moved")
  BY <1>2 DEF Recorded
<1>3. CASE Bad(w, "source", "moved") /\ Bad(w, "source", "8.0")
  <2>1. Recorded(w) = w \ {<<"source", "moved">>, <<"source", "8.0">>}
    BY <1>3 DEF Recorded
  <2> QED
    BY <1>3, <2>1, SeriesAre DEF Configured, Bad
<1>4. CASE Bad(w, "source", "moved") /\ ~Bad(w, "source", "8.0")
  <2>1. Recorded(w) = (w \ {<<"source", "moved">>}) \cup {<<"source", "8.0">>}
    BY <1>4 DEF Recorded
  <2> QED
    BY <1>1, <1>4, <2>1, SeriesAre DEF Configured, Bad
<1> QED
  BY <1>2, <1>3, <1>4

LEMMA SourceSaved ==
  ASSUME NEW w \in SUBSET All, Verifies(w), Verification(w, "source", TRUE) = "ok",
         ~Unreadable(w), RequiresTls(w, "source") => Encrypted(w, "source"), NEW v,
         v = (Recorded(Saved(w)) \ {<<"source", "none">>, <<"source", "no key">>})
               \ PulledBy(w, "source")
  PROVE  SourceIsRight(v)
<1> DEFINE Changed == Elsewhere \cup {"moved", "8.0"}
           r == Recorded(Saved(w))
<1>1. \A part, what : <<part, what>> \in PulledBy(w, "source") => what = "missing"
  <2> SUFFICES ASSUME NEW part, NEW what, <<part, what>> \in PulledBy(w, "source")
               PROVE  what = "missing"
    OBVIOUS
  <2>1. \E s \in Series : <<part, what>> = <<s, "missing">>
    BY PulledAre
  <2> QED
    BY <2>1
<1>2. \A part, what : what \notin {"missing", "none", "no key"} =>
        (Bad(v, part, what) <=> Bad(r, part, what))
  BY <1>1 DEF Bad
<1>3. \A part, what : Bad(v, part, what) => Bad(r, part, what)
  BY DEF Bad
<1> HIDE DEF r
<1>4. \A part, what : what \notin {"none", "no context", "absent", "other context", "moved", "8.0"} =>
        (Bad(r, part, what) <=> Bad(w, part, what))
  BY SavedIs, RecordedIs DEF r
<1>5. \A part, what : what \notin Changed => (Bad(v, part, what) <=> Bad(w, part, what))
  BY <1>2, <1>4 DEF Elsewhere
<1>6. /\ "unreachable" \notin Changed /\ "rejects" \notin Changed /\ "busy" \notin Changed
      /\ "unsupported" \notin Changed /\ "mariadb" \notin Changed /\ "warming" \notin Changed
      /\ "no TLS" \notin Changed /\ "no temporary file" \notin Changed
      /\ "wrong digest" \notin Changed /\ "unreadable" \notin Changed
      /\ "TLS optional" \notin Changed /\ "production" \notin Changed
      /\ "hides cipher" \notin Changed /\ "untrusted" \notin Changed
  BY DEF Elsewhere
<1> HIDE DEF Changed
<1>7. ~Bad(w, "source", "unsupported") /\ ~Bad(w, "source", "mariadb")
  BY VerifiedIs
<1>8. ~Bad(v, "source", "moved")
  BY <1>3, RecordedIs DEF r
<1>9. Reported(v, "source") = Reported(w, "source")
  <2>1. Reported(w, "source") = IF Bad(w, "source", "moved") THEN Other(Configured(w, "source"))
                                ELSE Configured(w, "source")
    BY <1>7 DEF Reported
  <2>2. Configured(Saved(w), "source") = Configured(w, "source")
    BY SavedIs DEF Configured
  <2>3. Bad(Saved(w), "source", "moved") <=> Bad(w, "source", "moved")
    BY SavedIs
  <2>4. Configured(r, "source") = Reported(w, "source")
    BY <2>1, <2>2, <2>3, RecordedIs DEF r
  <2>5. Configured(v, "source") = Configured(r, "source")
    BY <1>2 DEF Configured
  <2>6. Reported(v, "source") = Configured(v, "source")
    BY <1>5, <1>6, <1>7, <1>8 DEF Reported
  <2> QED
    BY <2>4, <2>5, <2>6
<1>10. /\ RequiresTls(v, "source") <=> RequiresTls(w, "source")
       /\ Bad(v, "source", "production") <=> Bad(w, "source", "production")
  BY <1>5, <1>6 DEF RequiresTls
<1>11. ~Fails(v, "source")
  <2>1. /\ ~Bad(w, "source", "unreachable") /\ ~Bad(w, "source", "rejects")
        /\ ~Bad(w, "source", "busy") /\ ~Bad(w, "source", "warming")
        /\ ~(Bad(w, "source", "no TLS") /\ RequiresTls(w, "source"))
    BY VerifiedIs, ProbeOk
  <2>2. ~Bad(w, "disk", "no temporary file")
    BY VerifiedIs
  <2>3. ASSUME NEW s \in {Discovery, Reported(w, "source")}
        PROVE  ~Bad(v, s, "missing") /\ ~Bad(v, s, "wrong digest")
    <3>1. /\ ~Bad(w, s, "wrong digest")
          /\ Bad(w, s, "missing") => <<s, "missing">> \in PulledBy(w, "source")
      BY VerifiedIs
    <3>2. Bad(v, s, "missing") => Bad(w, s, "missing")
      BY <1>3, <1>4
    <3> QED
      BY <1>5, <1>6, <3>1, <3>2 DEF Bad
  <2> QED
    BY <1>5, <1>6, <1>7, <1>8, <1>9, <1>10, <2>1, <2>2, <2>3 DEF Fails
<1>12. ~(/\ Bad(v, "source", "production")
         /\ Bad(v, "source", "hides cipher") \/ Bad(v, "source", "untrusted"))
  <2>1. Bad(w, "source", "production") => RequiresTls(w, "source")
    BY DEF Verifies, RequiresTls, Bad
  <2>2. ~(Bad(w, "source", "untrusted") /\ Bad(w, "source", "production"))
    BY VerifiedIs, ProbeOk DEF VerifiesCertificate
  <2> QED
    BY <1>5, <1>6, <2>1, <2>2 DEF Encrypted
<1>13. HasProfile(v) /\ ~Bad(v, "source", "no key")
  <2>1. Bad(v, "config", "absent") => Bad(Saved(w), "config", "absent")
    BY <1>3, RecordedIs DEF r
  <2>2. ~Empty(v)
    BY <2>1, SavedIs DEF Empty
  <2> QED
    BY <2>2 DEF HasProfile, Bad
<1> QED
  BY <1>5, <1>6, <1>11, <1>12, <1>13 DEF SourceIsRight, Unreadable

LEMMA FirstOfThree ==
  ASSUME NEW a, NEW b, NEW c, First(<<a, b, c>>) = "ok"
  PROVE  a = "ok" /\ b = "ok" /\ c = "ok"
<1> DEFINE s == <<a, b, c>>
<1>1. DOMAIN s = 1 .. 3 /\ s[1] = a /\ s[2] = b /\ s[3] = c
  OBVIOUS
<1>2. \A j \in 1 .. 3 : j = 1 \/ j = 2 \/ j = 3
  OBVIOUS
<1>3. ASSUME NEW i \in 1 .. 3, s[i] # "ok", \A j \in 1 .. 3 : j < i => s[j] = "ok"
      PROVE  FALSE
  <2> HIDE DEF s
  <2>1. First(s) = s[i]
    BY <1>1, <1>3, FirstIs
  <2> QED
    BY <1>3, <2>1 DEF s
<1>4. a = "ok"
  <2>1. \A j \in 1 .. 3 : j < 1 => s[j] = "ok"
    OBVIOUS
  <2> QED
    BY <1>1, <1>3, <2>1
<1>5. b = "ok"
  <2>1. \A j \in 1 .. 3 : j < 2 => s[j] = "ok"
    BY <1>1, <1>2, <1>4
  <2> QED
    BY <1>1, <1>3, <2>1
<1>6. c = "ok"
  <2>1. \A j \in 1 .. 3 : j < 3 => s[j] = "ok"
    BY <1>1, <1>2, <1>4, <1>5
  <2> QED
    BY <1>1, <1>3, <2>1
<1> QED
  BY <1>4, <1>5, <1>6

LEMMA TypedAre ==
  ASSUME NEW part, NEW typed \in Typed(part)
  PROVE  typed \subseteq world
         /\ \A p, what : what # "rejects" => (Bad(typed, p, what) <=> Bad(world, p, what))
  BY DEF Typed, Bad

LEMMA ConfigureRepairs ==
  ASSUME WorldInvariant, ConfigureTarget
  PROVE  \/ Calm(world, world') /\ world' \subseteq world /\ repaired' = repaired
         \/ /\ TargetIsRight(world')
            /\ Inspected(world) => Inspected(world')
            /\ repaired' = IF run.steady THEN "target" ELSE "container"
<1>1. PICK typed \in Typed("target") :
        LET found == typed \ {<<"target", "recreated">>}
            e == First(<<Load,
                         When(/\ HasContext(world)
                              /\ Bad(world, "docker", "other context"),
                              "InvalidField"),
                         VerifyTarget(found, TRUE)>>)
            asked == e \notin {"Config", "InvalidField"}
            pulled == IF asked THEN PulledBy(Awaited(found), "target") ELSE {}
            saved == WithContext(Present(Awaited(found)))
                       \ {<<"target", "none">>, <<"target", "no key">>}
        IN /\ world' = (IF e = "ok" THEN saved ELSE world) \ pulled
           /\ repaired' = IF e # "ok" THEN repaired
                          ELSE IF run.steady THEN "target" ELSE "container"
  BY ZenonT(60) DEF ConfigureTarget
<1> DEFINE found == typed \ {<<"target", "recreated">>}
           w == Awaited(found)
           context == When(/\ HasContext(world)
                           /\ Bad(world, "docker", "other context"), "InvalidField")
           verified == VerifyTarget(found, TRUE)
           e == First(<<Load, context, verified>>)
           pulled == IF e \notin {"Config", "InvalidField"} THEN PulledBy(w, "target") ELSE {}
<1>2. /\ world' = (IF e = "ok"
                   THEN Saved(w) \ {<<"target", "none">>, <<"target", "no key">>}
                   ELSE world) \ pulled
      /\ repaired' = IF e # "ok" THEN repaired
                     ELSE IF run.steady THEN "target" ELSE "container"
  BY <1>1 DEF Saved
<1>3. verified = "ok" => Verification(w, "target", TRUE) = "ok"
  <2>1. \A x : TargetError(x) = "ok" <=> x = "ok"
    BY DEF TargetError, ImageErrors
  <2>2. verified = TargetError(Verification(w, "target", TRUE))
    BY DEF VerifyTarget
  <2> HIDE DEF verified, w
  <2> QED
    BY <2>1, <2>2
<1>4. context = "ok" => (HasContext(world) => ~Bad(world, "docker", "other context"))
  BY DEF When
<1>5. /\ w \subseteq world
      /\ \A part, what : what \notin {"rejects", "recreated", "warming"} =>
           (Bad(w, part, what) <=> Bad(world, part, what))
  <2>1. found \subseteq world
        /\ \A part, what : what \notin {"rejects", "recreated"} =>
             (Bad(found, part, what) <=> Bad(world, part, what))
    BY TypedAre DEF Bad
  <2> HIDE DEF found
  <2> QED
    BY <2>1 DEF Awaited, Bad
<1>6. /\ Unreadable(w) <=> Unreadable(world)
      /\ HasContext(w) <=> HasContext(world)
      /\ Bad(w, "docker", "other context") <=> Bad(world, "docker", "other context")
      /\ Inspected(world) => Inspected(w)
  BY <1>5, DiscoverOk DEF Unreadable, HasContext, Empty, Inspected
<1> HIDE DEF w, context, verified
<1>7. CASE e # "ok"
  <2>1. world' = world \ pulled /\ repaired' = repaired
    BY <1>2, <1>7
  <2>2. Calm(world, world)
    BY DEF Calm
  <2>3. Calm(world, world \ pulled)
    BY <2>2, PullingIsCalm
  <2> QED
    BY <2>1, <2>3
<1>8. CASE e = "ok"
  <2>1. Load = "ok" /\ context = "ok" /\ verified = "ok"
    BY <1>8, FirstOfThree
  <2>2. world' = (Saved(w) \ {<<"target", "none">>, <<"target", "no key">>})
                   \ PulledBy(w, "target")
    BY <1>2, <1>8
  <2>3. ~Unreadable(w)
    BY <1>6, <2>1 DEF Load, When
  <2>4. HasContext(w) => ~Bad(w, "docker", "other context")
    BY <1>4, <1>6, <2>1
  <2>5. TargetIsRight(world') /\ (Inspected(w) => Inspected(world'))
    BY <1>3, <1>5, <2>1, <2>2, <2>3, <2>4, TargetSaved DEF WorldInvariant
  <2> QED
    BY <1>2, <1>6, <1>8, <2>5
<1> QED
  BY <1>7, <1>8

LEMMA AddRepairs ==
  ASSUME WorldInvariant, AddProfile
  PROVE  \/ Calm(world, world') /\ world' \subseteq world /\ repaired' = repaired
         \/ SourceIsRight(world') /\ repaired' = "source"
<1>1. PICK typed \in Typed("source") :
        LET verified == VerifySource(typed, TRUE)
            e == First(<<Load,
                         verified,
                         When(RequiresTls(typed, "source") /\ ~Encrypted(typed, "source"),
                              "TlsRequiredButNotNegotiated"),
                         When(/\ HasContext(world)
                              /\ Bad(world, "docker", "other context"),
                              "InvalidField")>>)
            pulled == IF Load = "ok" THEN PulledBy(typed, "source") ELSE {}
            saved == Recorded(WithContext(Present(typed)))
                       \ {<<"source", "none">>, <<"source", "no key">>}
        IN /\ world' = (IF e = "ok" THEN saved ELSE world) \ pulled
           /\ repaired' = IF e = "ok" THEN "source" ELSE repaired
  BY ZenonT(60) DEF AddProfile
<1> DEFINE verified == VerifySource(typed, TRUE)
           encrypted == When(RequiresTls(typed, "source") /\ ~Encrypted(typed, "source"),
                             "TlsRequiredButNotNegotiated")
           context == When(/\ HasContext(world)
                           /\ Bad(world, "docker", "other context"), "InvalidField")
           e == First(<<Load, verified, encrypted, context>>)
           pulled == IF Load = "ok" THEN PulledBy(typed, "source") ELSE {}
<1>2. /\ world' = (IF e = "ok"
                   THEN Recorded(Saved(typed)) \ {<<"source", "none">>, <<"source", "no key">>}
                   ELSE world) \ pulled
      /\ repaired' = IF e = "ok" THEN "source" ELSE repaired
  BY <1>1 DEF Saved
<1>3. verified = "ok" => Verification(typed, "source", TRUE) = "ok"
  <2>1. \A x : SourceError(x) = "ok" <=> x = "ok"
    BY DEF SourceError, ImageErrors
  <2>2. verified = First(<<SourceError(CurrentContext(typed)),
                           SourceError(Verification(typed, "source", TRUE))>>)
    BY DEF VerifySource
  <2> DEFINE x == SourceError(CurrentContext(typed))
             y == SourceError(Verification(typed, "source", TRUE))
  <2>3. y = "ok" => Verification(typed, "source", TRUE) = "ok"
    BY <2>1
  <2> HIDE DEF verified, x, y
  <2>4. First(<<x, y>>) = "ok" => y = "ok"
    BY FirstOfTwo
  <2> QED
    BY <2>2, <2>3, <2>4 DEF x, y
<1>4. encrypted = "ok" => (RequiresTls(typed, "source") => Encrypted(typed, "source"))
  BY DEF When
<1>5. typed \subseteq world /\ (Unreadable(typed) <=> Unreadable(world)) /\ Verifies(typed)
  BY TypedAre DEF Unreadable, WorldInvariant, Verifies
<1> HIDE DEF verified, encrypted, context
<1>6. CASE e # "ok"
  <2>1. world' = world \ pulled /\ repaired' = repaired
    BY <1>2, <1>6
  <2>2. Calm(world, world)
    BY DEF Calm
  <2>3. Calm(world, world \ pulled)
    BY <2>2, PullingIsCalm
  <2> QED
    BY <2>1, <2>3
<1>7. CASE e = "ok"
  <2>1. Load = "ok" /\ verified = "ok" /\ encrypted = "ok"
    <3>1. First(<<Load, verified, encrypted, context>>) = "ok"
            => Load = "ok" /\ verified = "ok" /\ encrypted = "ok"
      BY FirstOfFour
    <3> QED
      BY <1>7, <3>1
  <2>2. world' = (Recorded(Saved(typed)) \ {<<"source", "none">>, <<"source", "no key">>})
                   \ PulledBy(typed, "source")
    BY <1>2, <1>7, <2>1
  <2>3. ~Unreadable(typed)
    BY <1>5, <2>1 DEF Load, When
  <2>4. SourceIsRight(world')
    BY <1>3, <1>4, <1>5, <2>1, <2>2, <2>3, SourceSaved DEF WorldInvariant
  <2> QED
    BY <1>2, <1>7, <2>4
<1> QED
  BY <1>6, <1>7

(* The rest leaves what it does not verify as it was, or better.           *)
LEMMA StepsAreCalm ==
  ASSUME [Next]_vars, ~Environment, ~ResetConfiguration, ~ConfigureTarget, ~AddProfile
  PROVE  /\ Calm(world, world')
         /\ ~RemoveProfile => (Bad(world', "source", "none") => Bad(world, "source", "none"))
<1>1. CASE StartContainer
  <2>1. world' \in {world, world \ {<<"target", "stopped">>}}
    BY <1>1 DEF StartContainer, Looking
  <2>2. "stopped" \in Gone
    BY DEF Gone
  <2>3. \A part, what : what \notin Gone => (Bad(world, part, what) => Bad(world', part, what))
    BY <2>1, <2>2 DEF Bad
  <2> QED
    BY <2>1, <2>3 DEF Calm, Bad
<1>2. CASE RemoveProfile
  <2> DEFINE new == {<<"source", "none">>}
             old == {<<"source", "no key">>}
  <2>1. world' \subseteq world \cup new /\ world \subseteq world' \cup old
    BY <1>2 DEF RemoveProfile
  <2>2. /\ \A part, what : <<part, what>> \in new => what \in Unseen \cup {"none"}
        /\ \A part, what : <<part, what>> \in old => what \in Gone
        /\ <<"target", "none">> \notin new
    BY DEF Gone
  <2> HIDE DEF new, old
  <2>3. Calm(world, world')
    BY <2>1, <2>2, CalmSets
  <2> QED
    BY <1>2, <2>3
<1>3. CASE ~StartContainer /\ ~RemoveProfile
  <2>1. world \ Inert = world' \ Inert
    BY <1>3, MostAreInert DEF Meddles
  <2> QED
    BY <2>1, InertIsCalm
<1> QED
  BY <1>1, <1>2, <1>3

(* Where setup is while it asks, once it has found Docker in order.        *)
Asking == {"start", "replace", "configure"}

LEMMA TryGoes ==
  ASSUME IsRun, NEW layer, NEW e, NEW next, Try(layer, e, next)
  PROVE  run'.pc \in {next, "ended"}
  BY DEF Try, End, IsRun, Fields

LEMMA LookingGoes ==
  ASSUME IsRun, NEW layer, NEW errors, NEW next, Looking(layer, errors, next)
  PROVE  run'.pc \in {next, "ended"}
  BY TryGoes DEF Looking

LEMMA LoadingGoes ==
  ASSUME IsRun, NEW layer, NEW errors, NEW next, Loading(layer, errors, next)
  PROVE  run'.pc \in {next, "ended"}
  BY TryGoes DEF Loading

LEMMA LeaveGoes ==
  ASSUME IsRun, NEW effects, NEW next, Leave(effects, next)
  PROVE  run'.pc = next
  BY DEF Leave, IsRun, Fields

LEMMA EndGoes ==
  ASSUME IsRun, NEW why, End(why)
  PROVE  run'.pc = "ended"
  BY DEF End, IsRun, Fields

LEMMA ExecuteGoes ==
  ASSUME IsRun, NEW layer, NEW e, NEW effect, NEW next, Execute(layer, e, effect, next)
  PROVE  run'.pc \in {next, "ended"}
  BY LeaveGoes DEF Execute, IsRun, Fields

LEMMA OthersDoNotAsk ==
  ASSUME RunInvariant, script \in Seq(Lines), Next, run'.pc \in Asking
  PROVE  DiscoverTargets \/ StartContainer \/ ReplaceTarget \/ CtrlC \/ Environment
<1>1. IsRun
  BY DEF RunInvariant
<1>2. ~(\/ ListDatabases \/ ReadDatabases \/ CreateDump \/ Assess \/ Export)
  <2>1. ListDatabases => run'.pc \in {"read", "ended"}
    BY Zenon, <1>1, LoadingGoes DEF ListDatabases
  <2>2. ReadDatabases => run'.pc \in {"ended"}
    BY Zenon, <1>1, LookingGoes DEF ReadDatabases
  <2>3. CreateDump => run'.pc \in {"assess", "ended"}
    BY Zenon, <1>1, LoadingGoes DEF CreateDump
  <2>4. Assess => run'.pc \in {"export", "ended"}
    BY Zenon, <1>1, LookingGoes DEF Assess
  <2>5. Export => run'.pc \in {"publish", "ended"}
    BY Zenon, <1>1, LookingGoes DEF Export
  <2> QED
    BY <2>1, <2>2, <2>3, <2>4, <2>5 DEF Asking
<1>3. ~Publish
  <2> SUFFICES ASSUME Publish PROVE FALSE
    OBVIOUS
  <2>1. run.pc = "publish"
    BY DEF Publish, Running
  <2>2. run.line.name \in {"dump", "pull", "push"}
    BY <2>1, PublishTells DEF RunInvariant
  <2>3. run'.pc = CASE run.line.name = "dump" -> "ended"
                    [] run.line.name = "pull" -> "database"
                    [] run.line.name = "push" -> "artifact"
    BY Zenon, <1>1, LeaveGoes DEF Publish
  <2>4. run'.pc \in {"ended", "database", "artifact"}
    BY <2>2, <2>3
  <2> QED
    BY <2>4 DEF Asking
<1>4. ~(\/ ChooseDump \/ ValidateDump \/ LoadTarget \/ AttestTarget
        \/ StartRestore \/ RecreateDatabase \/ ImportDump \/ SelectTarget
        \/ LookUp \/ SelectDatabase)
  <2>1. ChooseDump => run'.pc \in {"validate", "ended"}
    BY Zenon, <1>1, LookingGoes DEF ChooseDump
  <2>2. ValidateDump => run'.pc \in {"gate", "ended"}
    BY Zenon, <1>1, LookingGoes DEF ValidateDump
  <2>3. LoadTarget => run'.pc \in {"attest", "ended"}
    BY Zenon, <1>1, LoadingGoes DEF LoadTarget
  <2>4. AttestTarget => run'.pc \in {"engine", "ended"}
    BY Zenon, <1>1, LookingGoes DEF AttestTarget
  <2>5. StartRestore => run'.pc \in {"recreate", "ended"}
    BY Zenon, <1>1, LookingGoes DEF StartRestore
  <2>6. RecreateDatabase => run'.pc \in {"import", "ended"}
    BY Zenon, <1>1, ExecuteGoes DEF RecreateDatabase
  <2>7. ImportDump => run'.pc \in {"ended"}
    BY Zenon, <1>1, ExecuteGoes DEF ImportDump
  <2>8. SelectTarget => run'.pc \in {"look up", "ended"}
    BY Zenon, <1>1, LoadingGoes DEF SelectTarget
  <2>9. LookUp => run'.pc \in {"create", "database", "ended"}
    BY Zenon, <1>1, LookingGoes DEF LookUp
  <2>10. SelectDatabase => run'.pc \in {"validate", "ended"}
    BY Zenon, <1>1, LookingGoes DEF SelectDatabase
  <2> QED
    BY <2>1, <2>2, <2>3, <2>4, <2>5, <2>6, <2>7, <2>8, <2>9, <2>10 DEF Asking
<1>5. ~(\/ ChooseDestination \/ AskConsent \/ VerifyDestination
        \/ ChoosePushDump \/ ValidatePushDump \/ AskDowngrade \/ ConfirmPush
        \/ LockDestination \/ EnsureDatabase \/ ImportRemote)
  <2>1. ChooseDestination => run'.pc \in {"consent", "destination", "ended"}
    BY Zenon, <1>1, EndGoes, TryGoes DEF ChooseDestination
  <2>2. AskConsent => run'.pc \in {"destination", "ended"}
    BY Zenon, <1>1, LookingGoes DEF AskConsent, Answer
  <2>3. VerifyDestination => run'.pc \in {"choice", "ended"}
    BY Zenon, <1>1, EndGoes, TryGoes DEF VerifyDestination
  <2>4. ChoosePushDump => run'.pc \in {"create", "artifact", "ended"}
    BY Zenon, <1>1, LookingGoes DEF ChoosePushDump
  <2>5. ValidatePushDump => run'.pc \in {"downgrade", "ended"}
    BY Zenon, <1>1, LookingGoes DEF ValidatePushDump
  <2>6. AskDowngrade => run'.pc \in {"confirm", "ended"}
    BY Zenon, <1>1, EndGoes, TryGoes DEF AskDowngrade, Answer
  <2>7. ConfirmPush => run'.pc \in {"lock", "ended"}
    BY Zenon, <1>1, LookingGoes, LeaveGoes, EndGoes DEF ConfirmPush, IsRun, Fields
  <2>8. LockDestination => run'.pc \in {"ensure", "ended"}
    BY Zenon, <1>1, LookingGoes DEF LockDestination
  <2>9. EnsureDatabase => run'.pc \in {"write", "ended"}
    BY Zenon, <1>1, ExecuteGoes DEF EnsureDatabase
  <2>10. ImportRemote => run'.pc \in {"ended"}
    BY Zenon, <1>1, ExecuteGoes DEF ImportRemote
  <2> QED
    BY <2>1, <2>2, <2>3, <2>4, <2>5, <2>6, <2>7, <2>8, <2>9, <2>10 DEF Asking
<1>6. ~(\/ ResetConfiguration \/ NameAvailable \/ CollectProfile \/ AskRemoval
        \/ RemoveProfile \/ PlanPrune \/ AgreePrune \/ ExecutePrune)
  <2>1. ResetConfiguration => run'.pc \in {"discover", "ended"}
    BY Zenon, <1>1, LeaveGoes DEF ResetConfiguration
  <2>2. NameAvailable => run'.pc \in {"collect", "ended"}
    BY Zenon, <1>1, LoadingGoes DEF NameAvailable
  <2>3. CollectProfile => run'.pc \in {"add", "ended"}
    BY Zenon, <1>1, LookingGoes DEF CollectProfile
  <2>4. AskRemoval => run'.pc \in {"remove", "ended"}
    BY Zenon, <1>1, LookingGoes DEF AskRemoval, Answer
  <2>5. RemoveProfile => run'.pc \in {"ended"}
    BY Zenon, <1>1, EndGoes, LeaveGoes DEF RemoveProfile
  <2>6. PlanPrune => run'.pc \in {"agree", "ended"}
    BY Zenon, <1>1, LookingGoes DEF PlanPrune
  <2>7. AgreePrune => run'.pc \in {"prune", "ended"}
    BY Zenon, <1>1, LookingGoes DEF AgreePrune, Answer
  <2>8. ExecutePrune => run'.pc \in {"ended"}
    BY Zenon, <1>1, LeaveGoes DEF ExecutePrune
  <2> QED
    BY <2>1, <2>2, <2>3, <2>4, <2>5, <2>6, <2>7, <2>8 DEF Asking
<1>7. ~ConfigureTarget
  <2>1. ConfigureTarget => \E why, done : run' = [run EXCEPT !.pc = "ended", !.why = why,
                                                             !.done = done]
    BY ZenonT(60) DEF ConfigureTarget
  <2> QED
    BY <1>1, <2>1 DEF IsRun, Fields, Asking
<1>8. ~AddProfile
  <2>1. AddProfile => \E why, done : run' = [run EXCEPT !.pc = "ended", !.why = why,
                                                        !.done = done]
    BY ZenonT(60) DEF AddProfile
  <2> QED
    BY <1>1, <2>1 DEF IsRun, Fields, Asking
<1>9. ~RunDoctor
  BY <1>1 DEF RunDoctor, Running, IsRun, Fields, Asking
<1>10. ~Start
  <2> SUFFICES ASSUME Start PROVE FALSE
    OBVIOUS
  <2> DEFINE line == Head(script)
             name == line.name
  <2>1. run'.pc \in {"ended", Entry(line)}
    BY DEF Start, NoRun
  <2>2. line \in Lines
    BY DEF Start
  <2>3. \/ name = "preview" \/ name = "list" \/ name = "dump" \/ name = "restore"
        \/ name = "pull" \/ name = "push" \/ name = "setup" \/ name = "add"
        \/ name = "remove" \/ name = "prune" \/ name = "doctor"
    BY <2>2, LineIs, NamesAre
  <2>4. Entry(line) \notin Asking
    BY <2>3 DEF Entry, Asking
  <2> QED
    BY <2>1, <2>4 DEF Asking
<1> QED
  BY <1>2, <1>3, <1>4, <1>5, <1>6, <1>7, <1>8, <1>9, <1>10 DEF Next

RepairInvariant ==
  /\ repaired = "source" => SourceIsRight(world)
  /\ repaired \in {"target", "container"} => TargetIsRight(world)
  /\ repaired = "target" => Inspected(world)
  /\ doctor.steady /\ doctor.report["source TLS"] \in Kinds
       => There(world, "source connection")
  /\ run.pc \in Asking /\ run.steady => Inspected(world)

(* Setup asks nothing unless it has found Docker in order.                 *)
LEMMA AskingInspected ==
  ASSUME RunInvariant, script \in Seq(Lines), RepairInvariant, [Next]_vars,
         run'.pc \in Asking, run'.steady
  PROVE  Inspected(world')
<1>1. IsRun
  BY DEF RunInvariant
<1>2. CASE UNCHANGED vars
  BY <1>2 DEF vars, RepairInvariant
<1>3. CASE CtrlC
  <2>1. run'.pc = run.pc /\ run'.steady = run.steady /\ world' = world
    BY <1>1, <1>3 DEF CtrlC, IsRun, Fields
  <2> QED
    BY <2>1 DEF RepairInvariant
<1>4. CASE Environment
  BY <1>1, <1>4 DEF Environment, IsRun, Fields
<1>5. CASE DiscoverTargets
  <2>1. CASE Discover(world) = "ok"
    <3>1. world' = world
      BY Zenon, <1>5 DEF DiscoverTargets, Looking
    <3> QED
      BY <2>1, <3>1 DEF Inspected
  <2>2. CASE Discover(world) # "ok"
    <3>1. Looking("discovery", <<Discover(world)>>, "start")
      BY Zenon, <1>5, <2>2 DEF DiscoverTargets
    <3>2. First(<<Discover(world)>>) # "ok"
      <4> DEFINE e == Discover(world)
      <4>1. e # "ok"
        BY <2>2
      <4> HIDE DEF e
      <4>2. First(<<e>>) = e
        BY <4>1, FirstOfAll
      <4> QED
        BY <4>1, <4>2 DEF e
    <3>3. run'.pc = "ended"
      BY Zenon, <1>1, <3>1, <3>2, EndGoes DEF Looking, Try
    <3> QED
      BY <3>3 DEF Asking
  <2> QED
    BY <2>1, <2>2
<1>6. CASE StartContainer \/ ReplaceTarget
  <2>1. run.pc \in {"start", "replace"}
    BY <1>6 DEF StartContainer, ReplaceTarget, Running
  <2>2. run'.steady = run.steady
    <3>1. CASE StartContainer
      BY <1>1, <3>1 DEF StartContainer, Looking, Try, End, Leave, IsRun, Fields
    <3>2. CASE ReplaceTarget
      BY <1>1, <3>2 DEF ReplaceTarget, Try, End, IsRun, Fields
    <3> QED
      BY <1>6, <3>1, <3>2
  <2>3. Inspected(world)
    BY <2>1, <2>2 DEF RepairInvariant, Asking
  <2>4. world' \subseteq world
    BY <1>6, LoadsMigrate DEF StartContainer, ReplaceTarget, Looking
  <2> QED
    BY <2>3, <2>4, DiscoverOk DEF Inspected, Bad
<1> QED
  BY <1>2, <1>3, <1>4, <1>5, <1>6, OthersDoNotAsk

(* Whoever finds that TLS is refused finds a fault.                        *)
LEMMA TlsIsThere ==
  ASSUME WorldInvariant, DoctorType, ReportInvariant, RepairInvariant, [Next]_vars,
         doctor'.steady, doctor'.report["source TLS"] \in Kinds
  PROVE  There(world', "source connection")
<1>1. world \ Inert = world' \ Inert
  BY WorldSteady
<1>2. There(world, "source connection") => There(world', "source connection")
  BY <1>1, ThereSame, LabelsAre
<1>3. ASSUME doctor.steady, doctor'.report["source TLS"] = doctor.report["source TLS"]
      PROVE  There(world', "source connection")
  BY <1>2, <1>3 DEF RepairInvariant
<1>4. CASE doctor' = doctor
  BY <1>3, <1>4
<1>5. CASE RunDoctor
  <2>1. CASE DoctorLoad
    <3>1. doctor'.report["source TLS"] = "none"
      BY <2>1, LabelsAre DEF DoctorLoad, DoctorType, NoReport
    <3> QED
      BY <3>1, StatusesAre
  <2>2. CASE DoctorCredentials
    BY <1>3, <2>2, LabelsAre DEF DoctorCredentials, DoctorType
  <2>3. CASE DoctorInspect
    BY <1>3, <2>3, LabelsAre DEF DoctorInspect, DoctorType
  <2>4. CASE DoctorTarget
    BY <1>3, <2>4, LabelsAre DEF DoctorTarget, Report, DoctorType
  <2>5. CASE DoctorSource
    <3> DEFINE ready == /\ Passed("source credential")
                        /\ Passed("Docker")
                        /\ doctor.report["Docker context identity"] = "none"
               tls == VerifySource(world, FALSE) = "TlsRequiredButNotNegotiated"
    <3>1. doctor'.steady = doctor.steady
      BY <2>5 DEF DoctorSource, Report, DoctorType
    <3>2. CASE ~ready \/ ~tls
      <4>1. \/ Report("target", "source connection", "skipped")
            \/ Report("target", "source connection", SourceConnection(world))
        BY <2>5, <3>2, Zenon DEF DoctorSource
      <4>2. doctor'.report["source TLS"] = doctor.report["source TLS"]
        BY <4>1, LabelsAre, ZenonT(60) DEF Report, DoctorType
      <4> QED
        BY <1>3, <3>1, <4>2
    <3>3. CASE ready /\ tls
      <4>1. Fair("passed", world, "Docker")
        BY <3>1, <3>3, LabelsAre DEF ReportInvariant, Passed
      <4>2. ~Bad(world, "docker", "missing") /\ ~Bad(world, "docker", "down")
        BY <4>1, ThereOfDocker, StatusesAre, DiscoverOk DEF Fair, Inspected
      <4>3. SourceConnection(world) \in Kinds
        BY <3>3, ConnectionsTyped DEF SourceConnection
      <4>4. There(world, "source connection")
        BY <4>2, <4>3, SourceExact DEF WorldInvariant
      <4> QED
        BY <1>2, <4>4
    <3> QED
      BY <3>2, <3>3
  <2> QED
    BY <1>5, <2>1, <2>2, <2>3, <2>4, <2>5 DEF RunDoctor, DoctorStep
<1>6. CASE Start
  <2>1. doctor' \in {doctor, [NoDoctor EXCEPT !.pc = "load"]}
    BY <1>6 DEF Start
  <2>2. [NoDoctor EXCEPT !.pc = "load"].report["source TLS"] = "none"
    BY LabelsAre DEF NoDoctor, NoReport
  <2> QED
    BY <1>4, <2>1, <2>2, StatusesAre
<1>7. CASE ~RunDoctor /\ ~Start
  <2>1. doctor' # [doctor EXCEPT !.steady = FALSE]
    BY DEF DoctorType
  <2>2. ~Environment
    BY <2>1 DEF Environment, Change
  <2> QED
    BY <1>4, <1>7, <2>1, <2>2, CommandsLeaveDoctor
<1> QED
  BY <1>5, <1>6, <1>7

LEMMA RepairsKept ==
  ASSUME WorldInvariant, RepairInvariant, [Next]_vars
  PROVE  /\ repaired' = "source" => SourceIsRight(world')
         /\ repaired' \in {"target", "container"} => TargetIsRight(world')
         /\ repaired' = "target" => Inspected(world')
<1>1. CASE Environment \/ ResetConfiguration
  <2>1. repaired' = "nothing"
    BY <1>1 DEF Environment, ResetConfiguration
  <2> QED
    BY <2>1
<1>2. ASSUME Calm(world, world'), repaired' = repaired,
             repaired = "source" => (Bad(world', "source", "none") => Bad(world, "source", "none"))
      PROVE  /\ repaired' = "source" => SourceIsRight(world')
             /\ repaired' \in {"target", "container"} => TargetIsRight(world')
             /\ repaired' = "target" => Inspected(world')
  <2>1. repaired = "source" => ~Bad(world', "source", "none")
    BY <1>2 DEF RepairInvariant, SourceIsRight, HasProfile
  <2> QED
    BY <1>2, <2>1, CalmKeeps DEF RepairInvariant
<1>3. CASE ConfigureTarget
  <2>1. CASE Calm(world, world') /\ world' \subseteq world /\ repaired' = repaired
    BY <1>2, <2>1 DEF Bad
  <2>2. CASE /\ TargetIsRight(world')
             /\ Inspected(world) => Inspected(world')
             /\ repaired' = IF run.steady THEN "target" ELSE "container"
    <3>1. repaired' = "target" => Inspected(world)
      BY <1>3, <2>2 DEF ConfigureTarget, Running, RepairInvariant, Asking
    <3> QED
      BY <2>2, <3>1
  <2> QED
    BY <1>3, <2>1, <2>2, ConfigureRepairs
<1>4. CASE AddProfile
  <2>1. CASE Calm(world, world') /\ world' \subseteq world /\ repaired' = repaired
    BY <1>2, <2>1 DEF Bad
  <2>2. CASE SourceIsRight(world') /\ repaired' = "source"
    BY <2>2
  <2> QED
    BY <1>4, <2>1, <2>2, AddRepairs
<1>5. CASE RemoveProfile /\ ~Environment
  <2>1. CASE First(<<Load, When(~HasProfile(world), "NotFound")>>) # "ok"
    <3>1. world' = world /\ repaired' = repaired
      BY Zenon, <1>5, <2>1 DEF RemoveProfile
    <3>2. Calm(world, world)
      BY DEF Calm
    <3> QED
      BY <1>2, <3>1, <3>2
  <2>2. CASE First(<<Load, When(~HasProfile(world), "NotFound")>>) = "ok"
    <3>1. repaired' = IF repaired = "source" THEN "nothing" ELSE repaired
      BY Zenon, <1>5, <2>2 DEF RemoveProfile
    <3>2. CASE repaired = "source"
      BY <3>1, <3>2
    <3>3. CASE repaired # "source"
      <4>1. ~ResetConfiguration /\ ~ConfigureTarget /\ ~AddProfile
        <5>1. run.pc = "remove"
          BY <1>5 DEF RemoveProfile, Running
        <5> QED
          BY <5>1 DEF ResetConfiguration, ConfigureTarget, AddProfile, Running
      <4>2. Calm(world, world')
        BY <1>5, <4>1, StepsAreCalm
      <4> QED
        BY <1>2, <3>1, <3>3, <4>2
    <3> QED
      BY <3>2, <3>3
  <2> QED
    BY <2>1, <2>2
<1>6. CASE /\ ~Environment /\ ~ResetConfiguration /\ ~ConfigureTarget /\ ~AddProfile
           /\ ~RemoveProfile
  <2>1. repaired' = repaired
    <3>1. CASE StartContainer
      BY <3>1 DEF StartContainer, Looking, Quietly
    <3>2. CASE ~StartContainer
      BY <1>6, <3>2, CountersKept DEF Meddles
    <3> QED
      BY <3>1, <3>2
  <2> QED
    BY <1>2, <1>6, <2>1, StepsAreCalm
<1> QED
  BY <1>1, <1>3, <1>4, <1>5, <1>6

LEMMA RepairInvariantHolds == Spec => []RepairInvariant
<1>1. Init => RepairInvariant
  <2> SUFFICES ASSUME Init PROVE RepairInvariant
    OBVIOUS
  <2>1. doctor.report["source TLS"] = "none"
    BY LabelsAre DEF Init, NoDoctor, NoReport
  <2> QED
    BY <2>1, StatusesAre DEF Init, NoRun, Asking, RepairInvariant
<1>2. /\ RunInvariant /\ script \in Seq(Lines) /\ RestInvariant /\ ReportInvariant
      /\ RepairInvariant /\ [Next]_vars
      => RepairInvariant'
  <2> SUFFICES ASSUME RunInvariant, script \in Seq(Lines), RestInvariant, ReportInvariant,
                      RepairInvariant, [Next]_vars
               PROVE  RepairInvariant'
    OBVIOUS
  <2>1. WorldInvariant /\ DoctorType
    BY DEF RestInvariant
  <2>2. /\ repaired' = "source" => SourceIsRight(world')
        /\ repaired' \in {"target", "container"} => TargetIsRight(world')
        /\ repaired' = "target" => Inspected(world')
    BY <2>1, RepairsKept
  <2>3. doctor'.steady /\ doctor'.report["source TLS"] \in Kinds
          => There(world', "source connection")
    BY <2>1, TlsIsThere
  <2>4. run'.pc \in Asking /\ run'.steady => Inspected(world')
    BY AskingInspected
  <2> QED
    BY <2>2, <2>3, <2>4 DEF RepairInvariant
<1> QED
  BY <1>1, <1>2, RunInvariantHolds, RestInvariantHolds, ReportInvariantHolds, PTL DEF Spec

(* What setup or profile add has verified and saved is what doctor finds:  *)
(* the world that they leave has none of the faults that the checks of     *)
(* their section are there for, no later step of reprodb brings one back,  *)
(* and doctor reports no other failure.                                    *)
THEOREM RepairsHold == Spec => []RepairsStick
<1>1. RestInvariant /\ ReportInvariant /\ RepairInvariant => RepairsStick
  <2> SUFFICES ASSUME RestInvariant, ReportInvariant, RepairInvariant, doctor.steady,
                      ~Bad(world, "target", "hides cipher"),
                      NEW l \in Section[repaired], l \in Failures(doctor.report)
               PROVE  FALSE
    BY DEF RepairsStick, Diagnosed
  <2>1. l \in Labels /\ doctor.report[l] \in Kinds
    BY DEF Failures
  <2>2. l # "source TLS" => There(world, l)
    BY <2>1 DEF ReportInvariant, Fair
  <2>3. repaired \in {"nothing", "source", "target", "container"}
    BY DEF RestInvariant, Counters
  <2>4. CASE repaired = "nothing"
    BY <2>4 DEF Section
  <2>5. CASE repaired = "source"
    <3>1. l \in {"active profile", "source credential", "source connection", "source TLS"}
      BY <2>5 DEF Section
    <3>2. SourceIsRight(world)
      BY <2>5 DEF RepairInvariant
    <3>3. ~There(world, "source connection")
      BY <3>2, SourceFaultsAre DEF SourceIsRight
    <3>4. ~There(world, "active profile")
      BY <3>2 DEF There, Causes, SourceIsRight, Unreadable, HasProfile, Empty, Bad
    <3>5. ~There(world, "source credential")
      BY <3>2 DEF There, Causes, SourceIsRight, Bad
    <3>6. l = "source TLS" => There(world, "source connection")
      BY <2>1 DEF RepairInvariant
    <3> QED
      BY <2>2, <3>1, <3>3, <3>4, <3>5, <3>6
  <2>6. CASE repaired \in {"target", "container"}
    <3>1. /\ l \in {"Docker", "Docker context identity", "local target configuration",
                    "target credential", "target container identity", "target connection"}
          /\ l = "Docker" => repaired = "target"
      <4>1. CASE repaired = "target"
        BY <4>1 DEF Section
      <4>2. CASE repaired = "container"
        BY <4>2 DEF Section
      <4> QED
        BY <2>6, <4>1, <4>2
    <3>2. TargetIsRight(world)
      BY <2>6 DEF RepairInvariant
    <3>3. ~There(world, "target connection")
      BY <3>2, TargetFaultsAre DEF TargetIsRight
    <3>4. ~There(world, "local target configuration")
      BY <3>2 DEF There, Causes, TargetIsRight, Unreadable, HasTarget, Empty, Bad
    <3>5. ~There(world, "target credential") /\ ~There(world, "Docker context identity")
      BY <3>2 DEF There, Causes, TargetIsRight, Bad
    <3>6. ~There(world, "target container identity")
      BY <3>2 DEF There, Causes, TargetIsRight, Exact, Bad
    <3>7. repaired = "target" => ~There(world, "Docker")
      BY ThereOfDocker DEF RepairInvariant
    <3> QED
      BY <2>2, <3>1, <3>3, <3>4, <3>5, <3>6, <3>7
  <2> QED
    BY <2>3, <2>4, <2>5, <2>6
<1> QED
  BY <1>1, RestInvariantHolds, ReportInvariantHolds, RepairInvariantHolds, PTL

-----------------------------------------------------------------------------
(* A doctor without a failure.                                             *)

(* What the inspection made of the context holds as long as nothing but    *)
(* reprodb changes the world.                                              *)
ContextInvariant ==
  doctor.steady =>
    /\ doctor.pc \in {"credentials", "inspect"} => doctor.view \ Inert = world \ Inert
    /\ /\ doctor.pc \in {"source", "target", "done"}
       /\ Passed("Docker") /\ Passed("local target configuration")
       /\ doctor.report["Docker context identity"] = "none"
       => ContextMatches(world, world)

LEMMA ContextSame ==
  ASSUME NEW v, NEW w, v \ Inert = w \ Inert
  PROVE  /\ Unreadable(v) <=> Unreadable(w)
         /\ ContextMatches(v, w) <=> ContextMatches(w, w)
         /\ ContextMatches(v, v) <=> ContextMatches(w, w)
<1>1. {"unreadable", "absent", "no context", "other context"} \cap Unseen = {}
  BY DEF Unseen
<1>2. /\ Bad(v, "config", "unreadable") <=> Bad(w, "config", "unreadable")
      /\ Bad(v, "config", "absent") <=> Bad(w, "config", "absent")
      /\ Bad(v, "config", "no context") <=> Bad(w, "config", "no context")
      /\ Bad(v, "docker", "other context") <=> Bad(w, "docker", "other context")
  BY <1>1, BadSame
<1> QED
  BY <1>2 DEF Unreadable, ContextMatches, HasContext, Empty

LEMMA ContextInvariantHolds == Spec => []ContextInvariant
<1>1. Init => ContextInvariant
  BY DEF Init, NoDoctor, ContextInvariant
<1>2. RestInvariant /\ DoctorInvariant /\ ContextInvariant /\ [Next]_vars => ContextInvariant'
  <2> SUFFICES ASSUME RestInvariant, DoctorInvariant, ContextInvariant, [Next]_vars,
                      doctor'.steady
               PROVE  ContextInvariant'
    BY DEF ContextInvariant
  <2>1. DoctorType
    BY DEF RestInvariant
  <2>2. world' \ Inert = world \ Inert
    BY <2>1, WorldSteady
  <2>3. ASSUME doctor.steady, doctor'.pc = doctor.pc, doctor'.view = doctor.view,
               \A l \in {"Docker", "Docker context identity", "local target configuration"} :
                 doctor'.report[l] = doctor.report[l]
        PROVE  ContextInvariant'
    BY <2>2, <2>3, ContextSame DEF ContextInvariant, Passed
  <2>4. CASE doctor' = doctor
    BY <2>3, <2>4
  <2>5. CASE Start
    BY <2>4, <2>5 DEF Start, NoDoctor, ContextInvariant
  <2>6. CASE Environment
    BY <2>1, <2>6 DEF Environment, Change, DoctorType
  <2>7. CASE RunDoctor
    <3>1. CASE DoctorLoad
      <4>1. doctor'.pc = "credentials" /\ doctor'.view = world'
        BY <2>1, <3>1 DEF DoctorLoad, DoctorType
      <4> QED
        BY <4>1 DEF ContextInvariant
    <3>2. CASE DoctorCredentials
      <4>1. /\ doctor.steady /\ doctor.pc = "credentials" /\ doctor'.pc = "inspect"
            /\ doctor'.view = doctor.view
        BY <2>1, <3>2 DEF DoctorCredentials, DoctorType, At
      <4> QED
        BY <2>2, <4>1 DEF ContextInvariant
    <3>3. CASE DoctorInspect
      <4> DEFINE mismatch == /\ ~Unreadable(doctor.view)
                             /\ Inspected(world)
                             /\ ~ContextMatches(doctor.view, world)
                 docker == IF Inspected(world) THEN "passed" ELSE "Docker"
                 context == IF mismatch THEN "Docker" ELSE "none"
                 identity == Identity(world)
      <4>1. PICK report : report = [doctor.report EXCEPT !["Docker"] = docker,
                                                         !["Docker context identity"] = context,
                                                         !["target container identity"] = identity]
        OBVIOUS
      <4>2. doctor' = [doctor EXCEPT !.pc = "source", !.report = report]
        BY <3>3, <4>1 DEF DoctorInspect
      <4>3. /\ report["Docker"] = docker /\ report["Docker context identity"] = context
            /\ report["local target configuration"]
                 = doctor.report["local target configuration"]
        <5> HIDE DEF docker, context, identity
        <5> QED
          BY <2>1, <4>1, LabelsAre DEF DoctorType
      <4>4. /\ doctor'.pc = "source" /\ doctor'.report = report
            /\ doctor'.steady = doctor.steady
        BY <2>1, <4>2 DEF DoctorType
      <4>5. doctor.pc = "inspect" /\ world' = world
        BY <3>3 DEF DoctorInspect, At
      <4>6. ASSUME docker = "passed", context = "none",
                   doctor.report["local target configuration"] = "passed"
            PROVE  ContextMatches(world, world)
        <5>1. ~Unreadable(doctor.view)
          BY <4>5, <4>6 DEF DoctorInvariant, Loaded, Passed
        <5>2. ContextMatches(doctor.view, world)
          BY <4>6, <5>1
        <5>3. doctor.view \ Inert = world \ Inert
          BY <4>4, <4>5 DEF ContextInvariant
        <5> QED
          BY <5>2, <5>3, ContextSame
      <4> HIDE DEF docker, context, identity
      <4> QED
        BY <4>3, <4>4, <4>5, <4>6 DEF ContextInvariant, Passed
    <3>4. CASE DoctorSource \/ DoctorTarget
      <4>1. PICK pc, label, status :
              /\ Report(pc, label, status)
              /\ label \in {"source connection", "source TLS", "target connection"}
        BY <3>4, Zenon DEF DoctorSource, DoctorTarget
      <4>2. doctor.pc \in {"source", "target"}
        BY <3>4 DEF DoctorSource, DoctorTarget, At
      <4>3. /\ doctor'.steady = doctor.steady
            /\ \A l \in {"Docker", "Docker context identity", "local target configuration"} :
                 doctor'.report[l] = doctor.report[l]
        BY <2>1, <4>1, LabelsAre DEF Report, DoctorType
      <4>4. doctor'.pc \in {"target", "done"}
        BY <2>1, <3>4 DEF DoctorSource, DoctorTarget, Report, DoctorType
      <4> QED
        BY <2>2, <4>2, <4>3, <4>4, ContextSame DEF ContextInvariant, Passed
    <3> QED
      BY <2>7, <3>1, <3>2, <3>3, <3>4 DEF RunDoctor, DoctorStep
  <2>8. CASE ~RunDoctor /\ ~Start /\ ~Environment
    <3>1. doctor' # [doctor EXCEPT !.steady = FALSE]
      BY <2>1 DEF DoctorType
    <3> QED
      BY <2>4, <2>8, <3>1, CommandsLeaveDoctor
  <2> QED
    BY <2>5, <2>6, <2>7, <2>8
<1> QED
  BY <1>1, <1>2, RestInvariantHolds, DoctorInvariantHolds, PTL DEF Spec

(* A report without a failure is one of a world in which there is nothing  *)
(* for its checks to find: each of them was made.                          *)
LEMMA NothingFound ==
  ASSUME WorldInvariant, DoctorInvariant, ReportInvariant, ContextInvariant,
         Diagnosed, Failures(doctor.report) = {}
  PROVE  /\ SourceIsRight(world) /\ Inspected(world)
         /\ HasContext(world) => TargetIsRight(world)
<1>1. \A l \in Labels : doctor.report[l] \notin Kinds
  BY DEF Failures
<1>2. Loaded /\ Resolved /\ DockerKnown /\ SourceKnown /\ TargetKnown
  BY DEF DoctorInvariant, Diagnosed, At
<1>3. Passed("active profile") /\ Passed("local target configuration")
  BY <1>1, <1>2, LabelsAre, StatusesAre DEF Loaded, Given, Passed
<1>4. Passed("source credential") /\ Passed("target credential")
  BY <1>1, <1>2, <1>3, LabelsAre, StatusesAre DEF Resolved, Given, Passed
<1>5. Passed("Docker") /\ doctor.report["Docker context identity"] = "none"
  BY <1>1, <1>2, LabelsAre, StatusesAre DEF DockerKnown, Given, Passed
<1>6. Passed("target container identity")
  BY <1>1, <1>2, <1>3, <1>5, LabelsAre, StatusesAre DEF DockerKnown, Given, Passed
<1>7. doctor.report["source connection"] \notin {"skipped", "none"}
  BY <1>1, <1>2, <1>3, <1>4, <1>5, LabelsAre, StatusesAre DEF SourceKnown, Given, Passed
<1>8. doctor.report["target connection"] \notin {"skipped", "none"}
  BY <1>1, <1>2, <1>3, <1>4, <1>5, <1>6, LabelsAre, StatusesAre DEF TargetKnown, Given, Passed
<1>9. ASSUME NEW l \in Labels, doctor.report[l] \notin {"skipped", "none"}
      PROVE  ~There(world, l)
  BY <1>1, <1>9 DEF ReportInvariant, Diagnosed, Fair
<1>10. /\ ~There(world, "active profile") /\ ~There(world, "local target configuration")
       /\ ~There(world, "source credential") /\ ~There(world, "target credential")
       /\ ~There(world, "Docker") /\ ~There(world, "target container identity")
       /\ ~There(world, "source connection") /\ ~There(world, "target connection")
  BY <1>3, <1>4, <1>5, <1>6, <1>7, <1>8, <1>9, LabelsAre DEF Passed
<1>11. ~Unreadable(world) /\ HasProfile(world)
  BY <1>10 DEF There, Causes, Unreadable, HasProfile, Empty, Bad
<1>12. HasTarget(world)
  BY <1>10 DEF There, Causes, HasTarget, Empty, Bad
<1>13. ~Bad(world, "source", "no key") /\ ~Bad(world, "target", "no key")
  BY <1>10 DEF There, Causes, Bad
<1>14. Inspected(world)
  BY <1>10, ThereOfDocker
<1>15. Exact(world) /\ ~Bad(world, "target", "stopped")
  BY <1>10 DEF There, Causes, Exact, Bad
<1>16. /\ ~Fails(world, "source")
       /\ ~(/\ Bad(world, "source", "production")
            /\ Bad(world, "source", "hides cipher") \/ Bad(world, "source", "untrusted"))
  BY <1>10, SourceFaultsAre
<1>17. ~Fails(world, "target")
  BY <1>10, TargetFaultsAre
<1>18. ContextMatches(world, world)
  BY <1>3, <1>5 DEF ContextInvariant, Diagnosed, At
<1>19. SourceIsRight(world)
  BY <1>11, <1>13, <1>16 DEF SourceIsRight
<1>20. HasContext(world) => TargetIsRight(world)
  BY <1>11, <1>12, <1>13, <1>15, <1>17, <1>18 DEF TargetIsRight, ContextMatches
<1> QED
  BY <1>14, <1>19, <1>20

-----------------------------------------------------------------------------
(* What list, dump and restore find in such a world.                       *)
LEMMA FirstAllOk ==
  /\ First(<<"ok">>) = "ok"
  /\ First(<<"ok", "ok">>) = "ok"
  /\ First(<<"ok", "ok", "ok">>) = "ok"
  /\ First(<<"ok", "ok", "ok", "ok">>) = "ok"
  /\ First(<<"ok", "ok", "ok", "ok", "ok">>) = "ok"
  /\ First(<<"ok", "ok", "ok", "ok", "ok", "ok">>) = "ok"
<1>1. First(<<"ok">>) = "ok"
  BY FirstOk
<1>2. First(<<"ok", "ok">>) = "ok"
  BY FirstOk
<1>3. First(<<"ok", "ok", "ok">>) = "ok"
  BY FirstOk
<1>4. First(<<"ok", "ok", "ok", "ok">>) = "ok"
  BY FirstOk
<1>5. First(<<"ok", "ok", "ok", "ok", "ok">>) = "ok"
  BY FirstOk
<1>6. First(<<"ok", "ok", "ok", "ok", "ok", "ok">>) = "ok"
  BY FirstOk
<1> QED
  BY <1>1, <1>2, <1>3, <1>4, <1>5, <1>6

LEMMA LoadThenAllOk ==
  ASSUME ~Unreadable(world)
  PROVE  /\ First(<<Load>> \o <<"ok", "ok">>) = "ok"
         /\ First(<<Load>> \o <<"ok", "ok", "ok">>) = "ok"
         /\ First(<<Load>> \o <<"ok", "ok", "ok", "ok">>) = "ok"
<1>1. Load = "ok"
  BY DEF Load, When
<1>2. ASSUME NEW errors \in Seq({"ok"})
      PROVE  First(<<Load>> \o errors) = "ok"
  <2> DEFINE l == <<Load>>
             s == l \o errors
  <2>1. l \in Seq({"ok"})
    BY <1>1
  <2> HIDE DEF l
  <2>2. s \in Seq({"ok"})
    BY <2>1, ConcatProperties
  <2> HIDE DEF s
  <2>3. First(s) = "ok"
    BY <2>2, FirstOk
  <2> QED
    BY <2>3 DEF s, l
<1>3. <<"ok", "ok">> \in Seq({"ok"})
  OBVIOUS
<1>4. <<"ok", "ok", "ok">> \in Seq({"ok"})
  OBVIOUS
<1>5. <<"ok", "ok", "ok", "ok">> \in Seq({"ok"})
  OBVIOUS
<1> QED
  BY <1>2, <1>3, <1>4, <1>5, Zenon

(* A world that is fit for a dump, and one that is fit for a restore.      *)
FitForDump ==
  /\ SourceIsRight(world) /\ Inspected(world)
  /\ ~Bad(world, "source", "no schema") /\ ~Bad(world, "source", "odd names")
  /\ \A what \in Contents : ~Bad(world, "source", what)
  /\ ~(Bad(world, "source", "hides cipher") /\ RequiresTls(world, "source"))
  /\ HasContext(world) /\ ~Bad(world, "cache", "locked")

FitForRestore ==
  /\ TargetIsRight(world) /\ Inspected(world) /\ HasContext(world)
  /\ ~Bad(world, "target", "other vendor") /\ ~Older("target")
  /\ ~Bad(world, "cache", "locked")

LEMMA SourceAnswers ==
  ASSUME FitForDump, WorldInvariant
  PROVE  /\ PrepareExisting(world, Configured(world, "source")) = "ok"
         /\ OptionFile(world) = "ok" /\ Probe(world, "source") = "ok"
         /\ Reported(world, "source") = Configured(world, "source")
         /\ ~MariaDb(world, "source") /\ Approved(Reported(world, "source"))
         /\ ~(RequiresTls(world, "source") /\ ~Encrypted(world, "source"))
<1>1. ~Fails(world, "source")
  BY DEF FitForDump, SourceIsRight
<1>2. /\ ~Bad(world, "docker", "missing") /\ ~Bad(world, "docker", "down")
      /\ ~Bad(world, "source", "stopped") /\ ~Bad(world, "source", "recreated")
      /\ ~Bad(world, "source", "warming")
  BY NotInAll, DiscoverOk DEF FitForDump, Inspected, WorldInvariant, Bad
<1>3. /\ ~Bad(world, "source", "unsupported") /\ ~Bad(world, "source", "mariadb")
      /\ ~Bad(world, "source", "moved")
  BY <1>1 DEF Fails
<1>4. /\ Reported(world, "source") = Configured(world, "source")
      /\ Approved(Reported(world, "source"))
  BY <1>3, ReportedIs
<1>5. PrepareExisting(world, Configured(world, "source")) = "ok"
  <2>1. /\ ~Bad(world, Reported(world, "source"), "missing")
        /\ ~Bad(world, Reported(world, "source"), "wrong digest")
    BY <1>1 DEF Fails
  <2> QED
    BY <1>2, <1>4, <2>1, PrepareOk
<1>6. OptionFile(world) = "ok"
  BY <1>1 DEF Fails, OptionFile, When
<1>7. ~(Bad(world, "source", "untrusted") /\ VerifiesCertificate(world, "source"))
  BY DEF FitForDump, SourceIsRight, VerifiesCertificate
<1>8. Probe(world, "source") = "ok"
  BY <1>1, <1>2, <1>7, ProbeOk DEF Fails
<1>9. ~(RequiresTls(world, "source") /\ ~Encrypted(world, "source"))
  BY <1>1 DEF FitForDump, Fails, Encrypted
<1> QED
  BY <1>3, <1>4, <1>5, <1>6, <1>8, <1>9 DEF MariaDb

LEMMA CatalogIsThere ==
  ASSUME FitForDump, WorldInvariant
  PROVE  /\ First(<<Load>> \o
                  <<When(~HasProfile(world) \/ ~HasContext(world), "NoActiveProfile"),
                    When(Bad(world, "source", "no key"), "Credential")>>) = "ok"
         /\ First(<<ReadCatalog(world)>>) = "ok"
<1>1. ~Unreadable(world) /\ HasProfile(world) /\ ~Bad(world, "source", "no key")
  BY DEF FitForDump, SourceIsRight
<1>2. /\ When(~HasProfile(world) \/ ~HasContext(world), "NoActiveProfile") = "ok"
      /\ When(Bad(world, "source", "no key"), "Credential") = "ok"
  BY <1>1 DEF FitForDump, When
<1>3. QueryServer(world, "source") = "ok"
  BY SourceAnswers DEF QueryServer, QueryError
<1>4. When(Bad(world, "source", "odd names"), "InvalidMetadata") = "ok"
  BY DEF FitForDump, When
<1>5. First(<<PrepareExisting(world, Configured(world, "source")), OptionFile(world),
              QueryServer(world, "source"),
              When(Bad(world, "source", "odd names"), "InvalidMetadata")>>) = "ok"
  BY <1>3, <1>4, SourceAnswers, FirstAllOk
<1>6. \A e : e = "ok" => ReadError(e) = "ok"
  BY DEF ReadError, ImageErrors
<1>7. ReadCatalog(world) = "ok"
  BY <1>5, <1>6 DEF ReadCatalog
<1> QED
  BY <1>1, <1>2, <1>7, FirstAllOk, LoadThenAllOk

LEMMA DumpIsThere ==
  ASSUME FitForDump, WorldInvariant, ~run.interrupted
  PROVE  /\ First(<<Load>> \o
                  <<When(~HasProfile(world), "NoActiveProfile"),
                    When(~HasContext(world), "DockerContextMissing"),
                    When(Bad(world, "source", "no key"), "Credential"),
                    When(Bad(world, "cache", "locked"), "Lock")>>) = "ok"
         /\ AssessSource(world) = "ok" /\ DumpPolicy(world) = "ok"
         /\ OptionFile(world) = "ok"
         /\ First(<<When(run.interrupted, "Interrupted"),
                    When(Bad(world, "docker", "missing"), "Start"),
                    When(Bad(world, "docker", "down"), "DockerUnavailable"),
                    DumpFailure(Probe(world, "source"))>>) = "ok"
<1>1. ~Unreadable(world) /\ HasProfile(world) /\ ~Bad(world, "source", "no key")
  BY DEF FitForDump, SourceIsRight
<1>2. /\ When(~HasProfile(world), "NoActiveProfile") = "ok"
      /\ When(~HasContext(world), "DockerContextMissing") = "ok"
      /\ When(Bad(world, "source", "no key"), "Credential") = "ok"
      /\ When(Bad(world, "cache", "locked"), "Lock") = "ok"
  BY <1>1 DEF FitForDump, When
<1>3. QueryServer(world, "source") = "ok"
  BY SourceAnswers DEF QueryServer, QueryError
<1>4. QuerySchema(world, "source") = "ok"
  <2>1. When(Bad(world, "source", "no schema"), "QueryFailed") = "ok"
    BY DEF FitForDump, When
  <2> QED
    BY <1>3, <2>1, FirstAllOk DEF QuerySchema
<1>5. /\ ~Bad(world, "source", "odd metadata") /\ ~Bad(world, "source", "MyISAM")
      /\ ~Bad(world, "source", "definers") /\ ~Bad(world, "source", "views")
  BY DEF FitForDump, Contents
<1>6. AssessSource(world) = "ok"
  <2>1. When(RequiresTls(world, "source") /\ ~Encrypted(world, "source"),
             "TlsRequiredButNotNegotiated") = "ok"
    BY SourceAnswers DEF When
  <2>2. When(Bad(world, "source", "odd metadata"), "InvalidMetadata") = "ok"
    BY <1>5 DEF When
  <2> QED
    BY <1>4, <2>1, <2>2, SourceAnswers, FirstAllOk DEF AssessSource
<1>7. DumpPolicy(world) = "ok"
  <2>1. /\ When(MariaDb(world, "source"), "UnsupportedVendor") = "ok"
        /\ When(~Approved(Reported(world, "source")), "UnsupportedServerSeries") = "ok"
        /\ When(Reported(world, "source") # Configured(world, "source"),
                "ClientServerSeriesMismatch") = "ok"
    BY SourceAnswers DEF When
  <2>2. /\ When(Bad(world, "source", "MyISAM"), "NonTransactionalTables") = "ok"
        /\ When(Bad(world, "source", "definers"), "DefinerObjectsUnsupported") = "ok"
        /\ When(Bad(world, "source", "views"), "ViewsUnsupported") = "ok"
    BY <1>5 DEF When
  <2> QED
    BY <2>1, <2>2, FirstAllOk DEF DumpPolicy
<1>8. /\ When(run.interrupted, "Interrupted") = "ok"
      /\ When(Bad(world, "docker", "missing"), "Start") = "ok"
      /\ When(Bad(world, "docker", "down"), "DockerUnavailable") = "ok"
  BY DiscoverOk DEF FitForDump, Inspected, When
<1>9. DumpFailure(Probe(world, "source")) = "ok"
  BY SourceAnswers DEF DumpFailure
<1>10. First(<<When(run.interrupted, "Interrupted"),
               When(Bad(world, "docker", "missing"), "Start"),
               When(Bad(world, "docker", "down"), "DockerUnavailable"),
               DumpFailure(Probe(world, "source"))>>) = "ok"
  BY <1>8, <1>9, FirstAllOk
<1>11. First(<<Load>> \o
             <<When(~HasProfile(world), "NoActiveProfile"),
               When(~HasContext(world), "DockerContextMissing"),
               When(Bad(world, "source", "no key"), "Credential"),
               When(Bad(world, "cache", "locked"), "Lock")>>) = "ok"
  BY <1>1, <1>2, LoadThenAllOk
<1> QED
  BY <1>6, <1>7, <1>10, <1>11, SourceAnswers

LEMMA TargetIsThere ==
  ASSUME FitForRestore, WorldInvariant, ~run.interrupted
  PROVE  /\ First(<<Load>> \o
                  <<When(~HasTarget(world), "NotConfigured"),
                    When(~HasContext(world), "RuntimeContextMissing"),
                    When(Bad(world, "target", "no key"), "Credential")>>) = "ok"
         /\ First(<<Attest(world),
                    When(Bad(world, "target", "other vendor"), "UnsupportedVendor")>>) = "ok"
         /\ First(<<When(Older("target"), "VersionMismatch"),
                    When(Bad(world, "cache", "locked"), "Lock")>>) = "ok"
         /\ Execution("target", "TargetUnavailable") = "ok"
<1>1. /\ ~Unreadable(world) /\ HasTarget(world) /\ ~Bad(world, "target", "no key")
      /\ ~Fails(world, "target") /\ ~Bad(world, "docker", "other context")
      /\ Exact(world) /\ ~Bad(world, "target", "stopped")
  BY DEF FitForRestore, TargetIsRight
<1>2. /\ When(~HasTarget(world), "NotConfigured") = "ok"
      /\ When(~HasContext(world), "RuntimeContextMissing") = "ok"
      /\ When(Bad(world, "target", "no key"), "Credential") = "ok"
  BY <1>1 DEF FitForRestore, When
<1>3. /\ ~Bad(world, "docker", "missing") /\ ~Bad(world, "docker", "down")
      /\ Discover(world) = "ok" /\ ~Bad(world, "target", "recreated")
      /\ ~Bad(world, "target", "production")
  BY <1>1, NotInAll, DiscoverOk DEF FitForRestore, Inspected, WorldInvariant, Exact, Bad
<1>4. Verification(world, "target", FALSE) = "ok"
  BY <1>1, <1>3, VerificationFails
<1>5. VerificationError(VerifyTarget(world, FALSE)) = "ok"
  BY <1>4, VerifyTargetOk DEF VerificationError
<1>6. /\ DiscoverError(Discover(world)) = "ok"
      /\ When(Bad(world, "docker", "other context"), "ContextChanged") = "ok"
      /\ When(~Exact(world), "ContainerNotFound") = "ok"
      /\ When(Bad(world, "target", "stopped"), "ContainerNotRunning") = "ok"
  BY <1>1, <1>3 DEF DiscoverError, When
<1>7. Attest(world) = "ok"
  BY <1>5, <1>6, FirstAllOk DEF Attest
<1>8. /\ When(Bad(world, "target", "other vendor"), "UnsupportedVendor") = "ok"
      /\ When(Older("target"), "VersionMismatch") = "ok"
      /\ When(Bad(world, "cache", "locked"), "Lock") = "ok"
  BY DEF FitForRestore, When
<1>9. OptionFile(world) = "ok" /\ Probe(world, "target") = "ok"
  BY <1>4, VerificationOk DEF OptionFile, When
<1>10. /\ When(run.interrupted, "Interrupted") = "ok"
       /\ When(Bad(world, "docker", "missing"), "Start") = "ok"
       /\ When(Bad(world, "docker", "down"), "DockerUnavailable") = "ok"
       /\ RestoreFailure(Probe(world, "target"), "TargetUnavailable") = "ok"
  BY <1>3, <1>9 DEF When, RestoreFailure
<1>11. Execution("target", "TargetUnavailable") = "ok"
  BY <1>9, <1>10, FirstAllOk DEF Execution
<1> QED
  BY <1>1, <1>2, <1>7, <1>8, <1>11, FirstAllOk, LoadThenAllOk

-----------------------------------------------------------------------------
(* What a list, a dump and a restore do in such a world.                   *)

(* The run goes on, or what was missing is an argument or a terminal.      *)
Fine == run.why = Ok \/ (run.pc = "ended" /\ Category(run.why) = "Usage")

LEMMA TryingIsFine ==
  ASSUME IsRun, run.why = Ok, NEW layer, NEW next, Try(layer, "ok", next)
  PROVE  Fine'
  BY DEF Try, IsRun, Fields, Fine

LEMMA LeavingIsFine ==
  ASSUME IsRun, run.why = Ok, NEW effects, NEW next, Leave(effects, next)
  PROVE  Fine'
  BY DEF Leave, IsRun, Fields, Fine

LEMMA ListIsFine ==
  ASSUME IsRun, run.why = Ok, FitForDump, WorldInvariant, ListDatabases \/ ReadDatabases
  PROVE  Fine'
<1>1. CASE ListDatabases
  BY <1>1, CatalogIsThere, TryingIsFine, Zenon DEF ListDatabases, Loading
<1>2. CASE ReadDatabases
  BY <1>2, CatalogIsThere, TryingIsFine, Zenon DEF ReadDatabases, Looking
<1> QED
  BY <1>1, <1>2

LEMMA DumpIsFine ==
  ASSUME IsRun, run.why = Ok, ~run.interrupted, FitForDump, WorldInvariant,
         CreateDump \/ Assess \/ Export
  PROVE  Fine'
<1>1. CASE CreateDump
  BY <1>1, DumpIsThere, TryingIsFine, Zenon DEF CreateDump, Loading
<1>2. CASE Assess
  <2>1. AssessSource(world) = "ok" /\ DumpPolicy(world) = "ok"
    BY DumpIsThere
  <2>2. "ok" \notin ClientErrors
    BY DEF ClientErrors, ImageErrors, ProbeErrors
  <2>3. Looking("dump", <<AssessSource(world), DumpPolicy(world)>>, "export")
    BY <1>2, <2>1, <2>2, Zenon DEF Assess
  <2>4. First(<<AssessSource(world), DumpPolicy(world)>>) = "ok"
    BY <2>1, FirstAllOk
  <2> QED
    BY <2>3, <2>4, TryingIsFine, Zenon DEF Looking
<1>3. CASE Export
  BY <1>3, DumpIsThere, TryingIsFine, Zenon DEF Export, Looking
<1> QED
  BY <1>1, <1>2, <1>3

LEMMA RestoreIsFine ==
  ASSUME IsRun, run.why = Ok, ~run.interrupted, FitForRestore, WorldInvariant,
         LoadTarget \/ AttestTarget \/ StartRestore \/ RecreateDatabase \/ ImportDump
  PROVE  Fine'
<1>1. CASE LoadTarget
  BY <1>1, TargetIsThere, TryingIsFine, Zenon DEF LoadTarget, Loading
<1>2. CASE AttestTarget
  BY <1>2, TargetIsThere, TryingIsFine, Zenon DEF AttestTarget, Looking
<1>3. CASE StartRestore
  BY <1>3, TargetIsThere, TryingIsFine, Zenon DEF StartRestore, Looking
<1>4. CASE RecreateDatabase
  BY <1>4, TargetIsThere, LeavingIsFine, Zenon DEF RecreateDatabase, Execute
<1>5. CASE ImportDump
  BY <1>5, TargetIsThere, LeavingIsFine, Zenon DEF ImportDump, Execute
<1> QED
  BY <1>1, <1>2, <1>3, <1>4, <1>5

LEMMA ChoiceIsFine ==
  ASSUME IsRun, run.why = Ok, Sound(world), ChooseDump \/ ValidateDump
  PROVE  Fine'
<1>1. CASE ChooseDump
  <2> DEFINE X == {"ok", "Unavailable"}
             e == First(<<When(Bad(world, "cache", "empty"), "NoCandidates"),
                          When(~Interactive, "Unavailable"), Prompt>>)
  <2>1. "ok" \in X /\ "Unavailable" \in X
    OBVIOUS
  <2>2. When(Bad(world, "cache", "empty"), "NoCandidates") \in X
    BY DEF Sound, When
  <2>3. When(~Interactive, "Unavailable") \in X /\ Prompt \in X
    BY DEF Prompt, When
  <2>4. e \in X
    <3> HIDE DEF X
    <3> QED
      BY <2>1, <2>2, <2>3, InThree, Zenon
  <2>5. Try("restore", e, "validate")
    BY <1>1, Zenon DEF ChooseDump, Looking
  <2> HIDE DEF e
  <2>6. CASE e = "ok"
    BY <2>5, <2>6, TryingIsFine
  <2>7. CASE e = "Unavailable"
    <3>1. run'.pc = "ended" /\ run'.why = <<"restore", "Unavailable">>
      BY <2>5, <2>7 DEF Try, End, IsRun, Fields
    <3>2. \A why : why = <<"restore", "Unavailable">> => Category(why) = "Usage"
      BY DEF Category, RestoreCategory
    <3> QED
      BY <3>1, <3>2 DEF Fine
  <2> QED
    BY <2>4, <2>6, <2>7
<1>2. CASE ValidateDump
  <2>1. When(~Sound(world), "Artifact") = "ok"
    BY DEF When
  <2>2. First(<<When(~Sound(world), "Artifact")>>) = "ok"
    BY <2>1, FirstAllOk
  <2> QED
    BY <1>2, <2>2, TryingIsFine, Zenon DEF ValidateDump, Looking
<1> QED
  BY <1>1, <1>2

(* The steps of a list, a dump and a restore; those of the other commands  *)
(* have stages of their own.                                               *)
LEMMA ServedSteps ==
  ASSUME RunInvariant, Next, run.line.name \in {"list", "dump", "restore"}
  PROVE  \/ Start \/ CtrlC \/ Environment
         \/ ListDatabases \/ ReadDatabases
         \/ CreateDump \/ Assess \/ Export
         \/ Publish /\ run.line.name = "dump"
         \/ ChooseDump \/ ValidateDump \/ LoadTarget \/ AttestTarget
         \/ StartRestore \/ RecreateDatabase \/ ImportDump
<1>1. run.pc \in {"idle", "ended", "catalog", "read", "choose"} \cup Dumping \cup Restoring
  BY WaysAre DEF RunInvariant
<1>2. run.pc \in {"idle", "ended", "catalog", "read", "create", "assess", "export", "publish",
                  "choose", "validate", "gate", "attest", "engine", "recreate", "import"}
  BY <1>1 DEF Dumping, Restoring
<1>3. ~(SelectTarget \/ LookUp \/ SelectDatabase)
  BY <1>2 DEF SelectTarget, LookUp, SelectDatabase, Running
<1>4. ~(\/ ChooseDestination \/ AskConsent \/ VerifyDestination
        \/ ChoosePushDump \/ ValidatePushDump \/ AskDowngrade \/ ConfirmPush
        \/ LockDestination \/ EnsureDatabase \/ ImportRemote)
  BY <1>2 DEF ChooseDestination, AskConsent, VerifyDestination, ChoosePushDump,
              ValidatePushDump, AskDowngrade, ConfirmPush, LockDestination, EnsureDatabase,
              ImportRemote, Running
<1>5. ~(\/ ResetConfiguration \/ DiscoverTargets \/ StartContainer \/ ReplaceTarget
        \/ ConfigureTarget)
  BY <1>2 DEF ResetConfiguration, DiscoverTargets, StartContainer, ReplaceTarget,
              ConfigureTarget, Running
<1>6. ~(\/ NameAvailable \/ CollectProfile \/ AddProfile \/ AskRemoval \/ RemoveProfile
        \/ PlanPrune \/ AgreePrune \/ ExecutePrune \/ RunDoctor)
  BY <1>2 DEF NameAvailable, CollectProfile, AddProfile, AskRemoval, RemoveProfile,
              PlanPrune, AgreePrune, ExecutePrune, RunDoctor, Running
<1>7. Publish => run.line.name = "dump"
  <2>1. SUFFICES ASSUME Publish PROVE run.line.name = "dump"
    OBVIOUS
  <2>2. run.pc = "publish"
    BY <2>1 DEF Publish, Running
  <2>3. run.line.name \in {"dump", "pull", "push"}
    BY <2>2, PublishTells DEF RunInvariant
  <2> QED
    BY <2>3
<1> QED
  BY <1>3, <1>4, <1>5, <1>6, <1>7 DEF Next

(* What ReadyRunsThrough assumes, of a run that need not have ended.       *)
Promised ==
  /\ Diagnosed /\ Failures(doctor.report) = {}
  /\ run.line.name \in {"list", "dump", "restore"} /\ ~run.interrupted
  /\ ~NotLookedAt(world) /\ ~OnlyWarned(world)

ReadyInvariant == Promised => Fine

LEMMA PromisedIsFit ==
  ASSUME WorldInvariant, DoctorInvariant, ReportInvariant, ContextInvariant, Promised
  PROVE  FitForDump /\ FitForRestore /\ Sound(world)
<1>1. /\ SourceIsRight(world) /\ Inspected(world) /\ TargetIsRight(world)
      /\ HasContext(world)
  BY NothingFound DEF Promised, OnlyWarned
<1>2. /\ \A what \in Contents \cup {"no schema", "odd names"} : ~Bad(world, "source", what)
      /\ ~Bad(world, "target", "other vendor") /\ ~Older("target")
      /\ \A what \in {"empty", "corrupt", "locked"} : ~Bad(world, "cache", what)
  BY DEF Promised, NotLookedAt
<1>3. ~(Bad(world, "source", "hides cipher") /\ RequiresTls(world, "source"))
  BY DEF Promised, OnlyWarned
<1> QED
  BY <1>1, <1>2, <1>3 DEF FitForDump, FitForRestore, Sound

(* A load that migrates makes no difference.                               *)
LEMMA PromisedBefore ==
  ASSUME Promised', doctor' = doctor, run'.line = run.line,
         run'.interrupted = run.interrupted,
         world' \in {world, world \ {<<"config", "old schema">>}}
  PROVE  Promised
<1>1. ASSUME NEW part, NEW what, what # "old schema"
      PROVE  Bad(world', part, what) <=> Bad(world, part, what)
  <2> DEFINE old == <<"config", "old schema">>
  <2>1. <<part, what>> # old
    BY <1>1
  <2>2. world' \in {world, world \ {old}}
    OBVIOUS
  <2> HIDE DEF old
  <2> QED
    BY <2>1, <2>2 DEF Bad
<1>2. \A what \in Contents \cup {"no schema", "odd names"} : what # "old schema"
  BY DEF Contents
<1>3. /\ Bad(world', "target", "8.0") <=> Bad(world, "target", "8.0")
      /\ Bad(world', "source", "8.0") <=> Bad(world, "source", "8.0")
      /\ Bad(world', "target", "other vendor") <=> Bad(world, "target", "other vendor")
      /\ Bad(world', "cache", "empty") <=> Bad(world, "cache", "empty")
      /\ Bad(world', "cache", "corrupt") <=> Bad(world, "cache", "corrupt")
      /\ Bad(world', "cache", "locked") <=> Bad(world, "cache", "locked")
      /\ Bad(world', "source", "hides cipher") <=> Bad(world, "source", "hides cipher")
      /\ Bad(world', "source", "TLS optional") <=> Bad(world, "source", "TLS optional")
      /\ Bad(world', "config", "absent") <=> Bad(world, "config", "absent")
      /\ Bad(world', "config", "no context") <=> Bad(world, "config", "no context")
  BY <1>1
<1>4. /\ \A what \in Contents \cup {"no schema", "odd names"} :
           Bad(world', "source", what) <=> Bad(world, "source", what)
      /\ \A what \in {"empty", "corrupt", "locked"} :
           Bad(world', "cache", what) <=> Bad(world, "cache", what)
  BY <1>1, <1>2
<1>5. NotLookedAt(world) => NotLookedAt(world)'
  BY <1>3, <1>4 DEF NotLookedAt, Older
<1>6. OnlyWarned(world) => OnlyWarned(world)'
  BY <1>3 DEF OnlyWarned, RequiresTls, HasContext, Empty
<1> QED
  BY <1>5, <1>6 DEF Promised, Diagnosed, At

LEMMA ReadyInvariantHolds == Spec => []ReadyInvariant
<1>1. Init => ReadyInvariant
  BY DEF Init, NoRun, NoLine, ReadyInvariant, Promised
<1>2. /\ RunInvariant /\ script \in Seq(Lines) /\ RestInvariant /\ DoctorInvariant
      /\ ReportInvariant /\ ContextInvariant /\ ReadyInvariant /\ [Next]_vars
      => ReadyInvariant'
  <2> SUFFICES ASSUME RunInvariant, RestInvariant, DoctorInvariant, ReportInvariant,
                      ContextInvariant, ReadyInvariant, [Next]_vars, Promised'
               PROVE  Fine'
    BY DEF ReadyInvariant
  <2>1. IsRun /\ WorldInvariant /\ DoctorType
    BY DEF RunInvariant, RestInvariant
  <2>2. CASE UNCHANGED vars
    <3>1. Promised
      BY <2>2, PromisedBefore DEF vars
    <3> QED
      BY <2>2, <3>1 DEF vars, ReadyInvariant, Fine
  <2>3. CASE Start
    <3>1. \/ run'.why = Ok
          \/ run'.pc = "ended" /\ run'.why = <<"value", "invalid">>
      BY <2>3 DEF Start, NoRun
    <3>2. \A why : why = <<"value", "invalid">> => Category(why) = "Usage"
      BY DEF Category
    <3> QED
      BY <3>1, <3>2 DEF Fine
  <2>4. CASE ~Start /\ ~UNCHANGED vars
    <3>1. run'.line = run.line
      BY <2>1, <2>4, NextIsRun
    <3>2. run.line.name \in {"list", "dump", "restore"}
      BY <3>1 DEF Promised
    <3>3. ~CtrlC
      BY <2>1 DEF CtrlC, Promised, IsRun, Fields
    <3>4. ~Environment
      BY <2>1 DEF Environment, Change, DoctorType, Promised, Diagnosed
    <3>5. run'.interrupted = run.interrupted
      BY <2>1, <2>4, <3>3, NextIsRun
    <3>6. CASE Publish /\ run.line.name = "dump"
      <4>1. Leave({"dump created"}, "ended")
        BY <3>6 DEF Publish
      <4> QED
        BY <2>1, <4>1 DEF Leave, IsRun, Fields, Fine
    <3>7. CASE \/ ListDatabases \/ ReadDatabases \/ CreateDump \/ Assess \/ Export
               \/ ChooseDump \/ ValidateDump \/ LoadTarget \/ AttestTarget
               \/ StartRestore \/ RecreateDatabase \/ ImportDump
      <4>1. doctor' = doctor
        BY <3>7 DEF ListDatabases, ReadDatabases, CreateDump, Assess, Export, ChooseDump,
                    ValidateDump, LoadTarget, AttestTarget, StartRestore, RecreateDatabase,
                    ImportDump, Looking, Loading, Execute, Quietly
      <4>2. world' = world \/ world' \in Migrations(world)
        BY <3>7 DEF ListDatabases, ReadDatabases, CreateDump, Assess, Export, ChooseDump,
                    ValidateDump, LoadTarget, AttestTarget, StartRestore, RecreateDatabase,
                    ImportDump, Looking, Loading, Execute
      <4>3. world' \in {world, world \ {<<"config", "old schema">>}}
        BY <4>2 DEF Migrations
      <4>4. Promised
        BY <3>1, <3>5, <4>1, <4>3, PromisedBefore
      <4>5. FitForDump /\ FitForRestore /\ Sound(world) /\ ~run.interrupted
        BY <2>1, <4>4, PromisedIsFit DEF Promised
      <4>6. run.pc # "ended"
        BY <3>7 DEF ListDatabases, ReadDatabases, CreateDump, Assess, Export, ChooseDump,
                    ValidateDump, LoadTarget, AttestTarget, StartRestore, RecreateDatabase,
                    ImportDump, Running
      <4>7. run.why = Ok
        BY <4>4, <4>6 DEF ReadyInvariant, Fine
      <4> QED
        BY <2>1, <3>7, <4>5, <4>7, ListIsFine, DumpIsFine, RestoreIsFine, ChoiceIsFine
    <3> QED
      BY <2>4, <3>2, <3>3, <3>4, <3>6, <3>7, ServedSteps
  <2> QED
    BY <2>2, <2>3, <2>4
<1> QED
  BY <1>1, <1>2, RunInvariantHolds, RestInvariantHolds, DoctorInvariantHolds,
     ReportInvariantHolds, ContextInvariantHolds, PTL DEF Spec

(* After a doctor without a failure, and as long as nothing but reprodb    *)
(* changes the world, a list, a dump and a restore run through: every      *)
(* check was made and found none of its faults, and each question that the *)
(* services ask on their way is about one of these, about what no check    *)
(* looks at, or about what is only a warning.                              *)
THEOREM ReadyHolds == Spec => []ReadyRunsThrough
<1>1. ReadyInvariant => ReadyRunsThrough
  BY DEF ReadyInvariant, ReadyRunsThrough, Promised, Fine, Ended
<1> QED
  BY <1>1, ReadyInvariantHolds, PTL

-----------------------------------------------------------------------------
(* A pull that has succeeded has asked for everything that doctor checks.  *)

(* Questions of which none has failed were all answered with "ok".         *)
LEMMA AllAnswered ==
  ASSUME NEW answers, NEW n \in Nat, n <= 12, DOMAIN answers = 1 .. n, First(answers) = "ok"
  PROVE  \A i \in 1 .. n : answers[i] = "ok"
<1> DEFINE failed == {i \in 1 .. n : answers[i] # "ok"}
<1> SUFFICES ASSUME failed # {} PROVE FALSE
  OBVIOUS
<1>1. \A i \in failed : i \in Nat /\ 1 <= i /\ i <= 12
  OBVIOUS
<1>2. \E i \in failed : \A j \in failed : ~(j < i)
  <2> HIDE DEF failed
  <2>1. \A i \in failed : \/ i = 1 \/ i = 2 \/ i = 3 \/ i = 4 \/ i = 5 \/ i = 6
                          \/ i = 7 \/ i = 8 \/ i = 9 \/ i = 10 \/ i = 11 \/ i = 12
    BY <1>1
  <2> QED
    BY <2>1, SMTT(60)
<1>3. PICK i \in failed : \A j \in failed : ~(j < i)
  BY <1>2
<1>4. i \in 1 .. n /\ answers[i] # "ok" /\ \A j \in 1 .. n : j < i => answers[j] = "ok"
  BY <1>3
<1>5. First(answers) = answers[i]
  BY <1>4, FirstIs
<1> QED
  BY <1>4, <1>5

LEMMA AnsweredOne ==
  ASSUME NEW a, First(<<a>>) = "ok"
  PROVE  a = "ok"
<1> DEFINE s == <<a>>
<1>1. DOMAIN s = 1 .. 1 /\ s[1] = a /\ First(s) = "ok"
  OBVIOUS
<1> HIDE DEF s
<1>2. \A i \in 1 .. 1 : s[i] = "ok"
  BY <1>1, AllAnswered
<1> QED
  BY <1>1, <1>2

LEMMA AnsweredSix ==
  ASSUME NEW a, NEW b, NEW c, NEW d, NEW e, NEW f, First(<<a, b, c, d, e, f>>) = "ok"
  PROVE  a = "ok" /\ b = "ok" /\ c = "ok" /\ d = "ok" /\ e = "ok" /\ f = "ok"
<1> DEFINE s == <<a, b, c, d, e, f>>
<1>1. /\ DOMAIN s = 1 .. 6 /\ s[1] = a /\ s[2] = b /\ s[3] = c /\ s[4] = d /\ s[5] = e
      /\ s[6] = f
  OBVIOUS
<1>2. First(s) = "ok"
  BY Zenon
<1> HIDE DEF s
<1>3. 6 \in Nat /\ 6 <= 12
  OBVIOUS
<1>4. \A i \in 1 .. 6 : s[i] = "ok"
  BY <1>1, <1>2, <1>3, AllAnswered, Zenon
<1> QED
  BY <1>1, <1>4

LEMMA LoadAnswered ==
  ASSUME NEW S, Load \in S, NEW errors \in Seq(S), Len(errors) <= 6,
         First(<<Load>> \o errors) = "ok"
  PROVE  ~Unreadable(world) /\ \A i \in 1 .. Len(errors) : errors[i] = "ok"
<1> DEFINE l == <<Load>>
           s == l \o errors
           n == Len(errors)
<1>1. l \in Seq(S) /\ Len(l) = 1 /\ l[1] = Load
  OBVIOUS
<1>2. n \in Nat /\ n + 1 \in Nat /\ n + 1 <= 12
  OBVIOUS
<1>3. First(s) = "ok"
  BY Zenon
<1> HIDE DEF l
<1>4. /\ s \in Seq(S) /\ Len(s) = n + 1
      /\ \A i \in 1 .. n + 1 : s[i] = IF i <= 1 THEN Load ELSE errors[i - 1]
  BY <1>1, <1>2, ConcatProperties, SMTT(60)
<1> HIDE DEF s
<1>5. DOMAIN s = 1 .. n + 1
  BY <1>4
<1> HIDE DEF n
<1>6. \A i \in 1 .. n + 1 : s[i] = "ok"
  BY <1>2, <1>3, <1>5, AllAnswered, Zenon
<1>7. Load = "ok"
  BY <1>2, <1>4, <1>6
<1>8. ASSUME NEW i \in 1 .. n PROVE errors[i] = "ok"
  <2>1. i + 1 \in 1 .. n + 1 /\ ~(i + 1 <= 1) /\ (i + 1) - 1 = i
    BY <1>2
  <2> QED
    BY <1>4, <1>6, <2>1
<1>9. ~Unreadable(world)
  BY <1>7 DEF Load, When
<1> QED
  BY <1>8, <1>9 DEF n

LEMMA LoadAndThree ==
  ASSUME NEW a, NEW b, NEW c, First(<<Load>> \o <<a, b, c>>) = "ok"
  PROVE  ~Unreadable(world) /\ a = "ok" /\ b = "ok" /\ c = "ok"
<1> DEFINE S == {Load, a, b, c}
           errors == <<a, b, c>>
<1>1. /\ Load \in S /\ errors \in Seq(S) /\ Len(errors) = 3
      /\ errors[1] = a /\ errors[2] = b /\ errors[3] = c
  OBVIOUS
<1>2. First(<<Load>> \o errors) = "ok"
  BY Zenon
<1> HIDE DEF S, errors
<1>3. ~Unreadable(world) /\ \A i \in 1 .. Len(errors) : errors[i] = "ok"
  <2>1. Len(errors) <= 6
    BY <1>1
  <2> QED
    BY <1>1, <1>2, <2>1, LoadAnswered, Zenon
<1> QED
  BY <1>1, <1>3

LEMMA LoadAndFour ==
  ASSUME NEW a, NEW b, NEW c, NEW d, First(<<Load>> \o <<a, b, c, d>>) = "ok"
  PROVE  ~Unreadable(world) /\ a = "ok" /\ b = "ok" /\ c = "ok" /\ d = "ok"
<1> DEFINE S == {Load, a, b, c, d}
           errors == <<a, b, c, d>>
<1>1. /\ Load \in S /\ errors \in Seq(S) /\ Len(errors) = 4
      /\ errors[1] = a /\ errors[2] = b /\ errors[3] = c /\ errors[4] = d
  OBVIOUS
<1>2. First(<<Load>> \o errors) = "ok"
  BY Zenon
<1> HIDE DEF S, errors
<1>3. ~Unreadable(world) /\ \A i \in 1 .. Len(errors) : errors[i] = "ok"
  <2>1. Len(errors) <= 6
    BY <1>1
  <2> QED
    BY <1>1, <1>2, <2>1, LoadAnswered, Zenon
<1> QED
  BY <1>1, <1>3

(* What a pull that got as far as its dump, its target or its import has   *)
(* found: a source that runs, but for the image that only a target needs,  *)
(* a target that is known, and both in order.                              *)
Loads(w) == ~Unreadable(w) /\ HasProfile(w) /\ ~Bad(w, "source", "no key")

SourceRuns(w) ==
  ~Bad(w, Discovery, "missing") /\ ~Bad(w, Discovery, "wrong digest") => SourceIsRight(w)

Targeted(w) == ~Unreadable(w) /\ HasTarget(w) /\ ~Bad(w, "target", "no key")

AllRight(w) == SourceIsRight(w) /\ TargetIsRight(w) /\ Inspected(w)

LEMMA StaysSo ==
  ASSUME NEW v, NEW w, v \ Inert = w \ Inert
  PROVE  /\ Loads(v) => Loads(w)
         /\ SourceRuns(v) => SourceRuns(w)
         /\ Targeted(v) => Targeted(w)
         /\ AllRight(v) => AllRight(w)
<1>1. /\ SourceIsRight(v) => SourceIsRight(w)
      /\ TargetIsRight(v) => TargetIsRight(w)
      /\ Inspected(v) => Inspected(w)
  <2>1. Calm(v, w) /\ (Bad(w, "source", "none") => Bad(v, "source", "none"))
    BY InertIsCalm
  <2>2. SourceIsRight(v) => ~Bad(w, "source", "none")
    BY <2>1 DEF SourceIsRight, HasProfile
  <2> QED
    BY <2>1, <2>2, CalmKeeps
<1>2. {"unreadable", "absent", "none", "no key", "missing", "wrong digest"} \cap Unseen = {}
  BY DEF Unseen
<1>3. /\ Bad(v, "config", "unreadable") <=> Bad(w, "config", "unreadable")
      /\ Bad(v, "config", "absent") <=> Bad(w, "config", "absent")
      /\ Bad(v, "source", "none") <=> Bad(w, "source", "none")
      /\ Bad(v, "target", "none") <=> Bad(w, "target", "none")
      /\ Bad(v, "source", "no key") <=> Bad(w, "source", "no key")
      /\ Bad(v, "target", "no key") <=> Bad(w, "target", "no key")
      /\ Bad(v, Discovery, "missing") <=> Bad(w, Discovery, "missing")
      /\ Bad(v, Discovery, "wrong digest") <=> Bad(w, Discovery, "wrong digest")
  BY <1>2, BadSame
<1>4. (Loads(v) => Loads(w)) /\ (Targeted(v) => Targeted(w))
  BY <1>3 DEF Loads, Targeted, Unreadable, HasProfile, HasTarget, Empty
<1>5. SourceRuns(v) => SourceRuns(w)
  BY <1>1, <1>3 DEF SourceRuns
<1> QED
  BY <1>1, <1>4, <1>5 DEF AllRight


(* The stages of a pull after each of these.                               *)
AfterDump == {"export", "publish", "database", "validate", "gate", "attest"}
AfterLoad == {"assess"} \cup AfterDump
AfterAll == {"engine", "recreate", "import"}

Found ==
  /\ run.pc \in AfterLoad => Loads(world)
  /\ run.pc \in AfterDump => SourceRuns(world)
  /\ run.pc = "attest" => Targeted(world)
  /\ run.pc \in AfterAll \/ (run.pc = "ended" /\ run.why = Ok) => AllRight(world)

Failed == run.pc = "ended" /\ run.why # Ok

LEMMA Tried ==
  ASSUME IsRun, NEW layer, layer # "none", NEW e, NEW next, Try(layer, e, next)
  PROVE  (e = "ok" /\ run'.pc = next) \/ Failed'
<1>1. CASE e = "ok"
  BY <1>1 DEF Try, IsRun, Fields
<1>2. CASE e # "ok"
  <2>1. run'.pc = "ended" /\ run'.why = <<layer, e>>
    BY <1>2 DEF Try, End, IsRun, Fields
  <2>2. <<layer, e>> # Ok
    BY DEF Ok
  <2> QED
    BY <2>1, <2>2 DEF Failed
<1> QED
  BY <1>1, <1>2

LEMMA LookedAt ==
  ASSUME IsRun, NEW layer, layer # "none", NEW errors, NEW next, Looking(layer, errors, next)
  PROVE  (First(errors) = "ok" /\ run'.pc = next) \/ Failed'
  BY Tried, Zenon DEF Looking

LEMMA LoadedAt ==
  ASSUME IsRun, NEW layer, layer # "none", NEW errors, NEW next, Loading(layer, errors, next)
  PROVE  (First(<<Load>> \o errors) = "ok" /\ run'.pc = next) \/ Failed'
  BY Tried, Zenon DEF Loading

LEMMA FailedIsFound ==
  ASSUME Failed'
  PROVE  Found'
  BY DEF Failed, Found, AfterLoad, AfterDump, AfterAll

(* The dump asks for all of the source.                                    *)
LEMMA AskedForSource ==
  ASSUME WorldInvariant, Loads(world), AssessSource(world) = "ok", DumpPolicy(world) = "ok"
  PROVE  SourceRuns(world)
<1> DEFINE tls == When(RequiresTls(world, "source") /\ ~Encrypted(world, "source"),
                       "TlsRequiredButNotNegotiated")
           prepared == PrepareExisting(world, Configured(world, "source"))
           probed == Probe(world, "source")
           moved == When(Reported(world, "source") # Configured(world, "source"),
                         "ClientServerSeriesMismatch")
           metadata == When(Bad(world, "source", "odd metadata"), "InvalidMetadata")
           vendor == When(MariaDb(world, "source"), "UnsupportedVendor")
           series == When(~Approved(Reported(world, "source")), "UnsupportedServerSeries")
           tables == When(Bad(world, "source", "MyISAM"), "NonTransactionalTables")
           definers == When(Bad(world, "source", "definers"), "DefinerObjectsUnsupported")
           views == When(Bad(world, "source", "views"), "ViewsUnsupported")
<1>1. prepared = "ok" /\ OptionFile(world) = "ok" /\ probed = "ok" /\ tls = "ok"
  <2>1. First(<<prepared, OptionFile(world), probed, tls, QuerySchema(world, "source"),
                metadata>>) = "ok"
    BY DEF AssessSource
  <2> HIDE DEF prepared, probed, tls, metadata
  <2> QED
    BY <2>1, AnsweredSix
<1>2. moved = "ok"
  <2>1. First(<<vendor, series, moved, tables, definers, views>>) = "ok"
    BY DEF DumpPolicy
  <2> HIDE DEF vendor, series, moved, tables, definers, views
  <2> QED
    BY <2>1, AnsweredSix
<1>3. Reported(world, "source") = Configured(world, "source")
  BY <1>2 DEF When
<1>4. /\ ~Bad(world, "source", "unsupported") /\ ~Bad(world, "source", "mariadb")
      /\ ~Bad(world, "source", "moved")
  BY <1>3, ReportedIs
<1>5. /\ ~Bad(world, Reported(world, "source"), "missing")
      /\ ~Bad(world, Reported(world, "source"), "wrong digest")
  BY <1>1, <1>3, PrepareOk
<1>6. ~Bad(world, "disk", "no temporary file")
  BY <1>1 DEF OptionFile, When
<1>7. /\ ~Bad(world, "source", "unreachable") /\ ~Bad(world, "source", "warming")
      /\ ~(Bad(world, "source", "no TLS") /\ RequiresTls(world, "source"))
      /\ ~(Bad(world, "source", "untrusted") /\ Bad(world, "source", "production"))
      /\ ~Bad(world, "source", "rejects") /\ ~Bad(world, "source", "busy")
  BY <1>1, ProbeOk DEF VerifiesCertificate
<1>8. ~(Bad(world, "source", "production") /\ Bad(world, "source", "hides cipher"))
  <2>1. RequiresTls(world, "source") => Encrypted(world, "source")
    BY <1>1 DEF When
  <2>2. Bad(world, "source", "production") => RequiresTls(world, "source")
    BY DEF WorldInvariant, Verifies, RequiresTls, Bad
  <2> QED
    BY <2>1, <2>2 DEF Encrypted
<1>9. ~Bad(world, Discovery, "missing") /\ ~Bad(world, Discovery, "wrong digest")
        => ~Fails(world, "source")
  BY <1>4, <1>5, <1>6, <1>7 DEF Fails
<1> QED
  BY <1>7, <1>8, <1>9 DEF SourceRuns, SourceIsRight, Loads

(* The gate asks for all of the target, and for the image that a           *)
(* verification of the source starts with.                                 *)
LEMMA AskedForTarget ==
  ASSUME WorldInvariant, SourceRuns(world), Targeted(world), Attest(world) = "ok"
  PROVE  AllRight(world)
<1> DEFINE a == DiscoverError(Discover(world))
           b == When(Bad(world, "docker", "other context"), "ContextChanged")
           c == When(~Exact(world), "ContainerNotFound")
           d == When(Bad(world, "target", "stopped"), "ContainerNotRunning")
           e == VerificationError(VerifyTarget(world, FALSE))
<1>1. Attest(world) = First(<<a, b, c, d, e>>)
  BY DEF Attest
<1>2. a = "ok" /\ b = "ok" /\ c = "ok" /\ d = "ok" /\ e = "ok"
  <2> HIDE DEF a, b, c, d, e
  <2> QED
    BY <1>1, FirstOfFive
<1>3. Discover(world) = "ok" /\ VerifyTarget(world, FALSE) = "ok"
  BY <1>2 DEF DiscoverError, VerificationError
<1>4. ~Bad(world, "docker", "other context") /\ Exact(world) /\ ~Bad(world, "target", "stopped")
  BY <1>2 DEF When
<1>5. /\ ~Bad(world, "docker", "missing") /\ ~Bad(world, "docker", "down")
      /\ ~Bad(world, "target", "recreated")
  BY <1>3, <1>4, DiscoverOk DEF Exact
<1>6. Verification(world, "target", FALSE) = "ok"
  BY <1>3, VerifyTargetOk
<1>7. ~Bad(world, "target", "moved")
  BY NotInAll DEF WorldInvariant, Bad
<1>8. ~Fails(world, "target")
  BY <1>4, <1>5, <1>6, <1>7, VerificationFails
<1>9. ~Bad(world, Discovery, "missing") /\ ~Bad(world, Discovery, "wrong digest")
  BY <1>8 DEF Fails
<1>10. TargetIsRight(world)
  BY <1>4, <1>8 DEF TargetIsRight, Targeted
<1> QED
  BY <1>3, <1>9, <1>10 DEF AllRight, SourceRuns, Inspected


(* The steps of a pull; those of the other commands have stages of their   *)
(* own.                                                                    *)
LEMMA PullSteps ==
  ASSUME RunInvariant, Next, run.line.name = "pull"
  PROVE  \/ Start \/ CtrlC \/ Environment
         \/ CreateDump \/ Assess \/ Export \/ Publish
         \/ ValidateDump \/ LoadTarget \/ AttestTarget
         \/ StartRestore \/ RecreateDatabase \/ ImportDump
         \/ SelectTarget \/ LookUp \/ SelectDatabase
<1>1. run.pc \in {"idle", "ended", "select", "look up", "database"} \cup Dumping \cup Restoring
  BY WaysAre DEF RunInvariant
<1>2. run.pc \in {"idle", "ended", "select", "look up", "database", "create", "assess",
                  "export", "publish", "validate", "gate", "attest", "engine", "recreate",
                  "import"}
  BY <1>1 DEF Dumping, Restoring
<1>3. ~(ListDatabases \/ ReadDatabases \/ ChooseDump)
  BY <1>2 DEF ListDatabases, ReadDatabases, ChooseDump, Running
<1>4. ~(\/ ChooseDestination \/ AskConsent \/ VerifyDestination
        \/ ChoosePushDump \/ ValidatePushDump \/ AskDowngrade \/ ConfirmPush
        \/ LockDestination \/ EnsureDatabase \/ ImportRemote)
  BY <1>2 DEF ChooseDestination, AskConsent, VerifyDestination, ChoosePushDump,
              ValidatePushDump, AskDowngrade, ConfirmPush, LockDestination, EnsureDatabase,
              ImportRemote, Running
<1>5. ~(\/ ResetConfiguration \/ DiscoverTargets \/ StartContainer \/ ReplaceTarget
        \/ ConfigureTarget)
  BY <1>2 DEF ResetConfiguration, DiscoverTargets, StartContainer, ReplaceTarget,
              ConfigureTarget, Running
<1>6. ~(\/ NameAvailable \/ CollectProfile \/ AddProfile \/ AskRemoval \/ RemoveProfile
        \/ PlanPrune \/ AgreePrune \/ ExecutePrune \/ RunDoctor)
  BY <1>2 DEF NameAvailable, CollectProfile, AddProfile, AskRemoval, RemoveProfile,
              PlanPrune, AgreePrune, ExecutePrune, RunDoctor, Running
<1> QED
  BY <1>3, <1>4, <1>5, <1>6 DEF Next

(* A stage that has asked for nothing new.                                 *)
LEMMA StillFound ==
  ASSUME Found, world' \ Inert = world \ Inert,
         \/ run'.pc \in {"create", "look up"}
         \/ run.pc \in AfterDump /\ run'.pc \in AfterDump \ {"attest"}
         \/ run.pc \in AfterAll /\ (run'.pc \in AfterAll \/ run'.pc = "ended")
  PROVE  Found'
<1>1. /\ Loads(world) => Loads(world')
      /\ SourceRuns(world) => SourceRuns(world')
      /\ AllRight(world) => AllRight(world')
  BY StaysSo
<1>2. CASE run'.pc \in {"create", "look up"}
  BY <1>2 DEF Found, AfterLoad, AfterDump, AfterAll
<1>3. CASE run.pc \in AfterDump /\ run'.pc \in AfterDump \ {"attest"}
  BY <1>1, <1>3 DEF Found, AfterLoad, AfterDump, AfterAll
<1>4. CASE run.pc \in AfterAll /\ (run'.pc \in AfterAll \/ run'.pc = "ended")
  BY <1>1, <1>4 DEF Found, AfterLoad, AfterDump, AfterAll
<1> QED
  BY <1>2, <1>3, <1>4

LEMMA DumpFinds ==
  ASSUME IsRun, WorldInvariant, Found, world' \ Inert = world \ Inert,
         run.line.name = "pull", CreateDump \/ Assess \/ Export \/ Publish
  PROVE  Found'
<1>1. CASE CreateDump
  <2> DEFINE a == When(~HasProfile(world), "NoActiveProfile")
             b == When(~HasContext(world), "DockerContextMissing")
             c == When(Bad(world, "source", "no key"), "Credential")
             d == When(Bad(world, "cache", "locked"), "Lock")
  <2>1. \/ First(<<Load>> \o <<a, b, c, d>>) = "ok" /\ run'.pc = "assess"
        \/ Failed'
    <3>1. "dump" # "none"
      OBVIOUS
    <3>2. Loading("dump", <<a, b, c, d>>, "assess")
      BY <1>1, Zenon DEF CreateDump
    <3> QED
      BY <3>1, <3>2, LoadedAt, Zenon
  <2>2. ASSUME First(<<Load>> \o <<a, b, c, d>>) = "ok" PROVE Loads(world)
    <3>1. ~Unreadable(world) /\ a = "ok" /\ c = "ok"
      <4> HIDE DEF a, b, c, d
      <4> QED
        BY <2>2, LoadAndFour, ZenonT(60)
    <3> QED
      BY <3>1 DEF Loads, When
  <2>3. Loads(world) => Loads(world')
    BY StaysSo
  <2>4. run'.pc = "assess" /\ Loads(world') => Found'
    BY DEF Found, AfterLoad, AfterDump, AfterAll
  <2> HIDE DEF a, b, c, d
  <2> QED
    BY <2>1, <2>2, <2>3, <2>4, FailedIsFound
<1>2. CASE Assess
  <2> DEFINE e == AssessSource(world)
  <2>1. run.pc = "assess"
    BY <1>2 DEF Assess, Running
  <2>2. /\ "client" # "none" /\ "dump" # "none"
        /\ "ok" \notin ClientErrors
    BY DEF ClientErrors, ImageErrors, ProbeErrors
  <2>3. CASE e \in ClientErrors
    <3>1. Looking("client", <<e>>, "export")
      BY <1>2, <2>3, Zenon DEF Assess
    <3> HIDE DEF e
    <3>2. First(<<e>>) # "ok"
      BY <2>2, <2>3, AnsweredOne
    <3>3. Failed'
      BY <2>2, <3>1, <3>2, LookedAt, Zenon
    <3> QED
      BY <3>3, FailedIsFound
  <2>4. CASE e \notin ClientErrors
    <3> DEFINE p == DumpPolicy(world)
    <3>1. Looking("dump", <<e, p>>, "export")
      BY <1>2, <2>4, Zenon DEF Assess
    <3>2. Loads(world)
      BY <2>1 DEF Found, AfterLoad
    <3>3. e = "ok" /\ p = "ok" => SourceRuns(world)
      BY <3>2, AskedForSource
    <3>4. Loads(world') /\ (SourceRuns(world) => SourceRuns(world'))
      BY <3>2, StaysSo
    <3>5. run'.pc = "export" /\ Loads(world') /\ SourceRuns(world') => Found'
      BY DEF Found, AfterLoad, AfterDump, AfterAll
    <3> HIDE DEF e, p
    <3>6. First(<<e, p>>) = "ok" => e = "ok" /\ p = "ok"
      BY FirstOfTwo
    <3>7. (First(<<e, p>>) = "ok" /\ run'.pc = "export") \/ Failed'
      BY <2>2, <3>1, LookedAt, Zenon
    <3> QED
      BY <3>3, <3>4, <3>5, <3>6, <3>7, FailedIsFound, Zenon
  <2> QED
    BY <2>3, <2>4
<1>3. CASE Export
  <2>1. "client" # "none" /\ "dump" # "none"
    OBVIOUS
  <2>2. run'.pc = "publish" \/ Failed'
    <3>1. \/ \E errors : Looking("client", errors, "publish")
          \/ \E errors : Looking("dump", errors, "publish")
      BY <1>3, Zenon DEF Export
    <3> QED
      BY <2>1, <3>1, LookedAt
  <2>3. run.pc = "export"
    BY <1>3 DEF Export, Running
  <2> QED
    BY <2>2, <2>3, StillFound, FailedIsFound DEF AfterDump
<1>4. CASE Publish
  <2>1. Leave({"dump created"}, "database") /\ run.pc = "publish"
    BY <1>4 DEF Publish, Running
  <2>2. run'.pc = "database"
    BY <2>1, LeaveGoes
  <2> QED
    BY <2>1, <2>2, StillFound DEF AfterDump
<1> QED
  BY <1>1, <1>2, <1>3, <1>4

LEMMA PullFinds ==
  ASSUME IsRun, Found, world' \ Inert = world \ Inert,
         "fresh" \in run.line.flags, SelectTarget \/ LookUp \/ SelectDatabase
  PROVE  Found'
<1>1. "pull" # "none"
  OBVIOUS
<1>2. CASE SelectTarget
  <2>1. PICK errors : Loading("pull", errors, "look up")
    BY <1>2, Zenon DEF SelectTarget
  <2> QED
    BY <1>1, <2>1, LoadedAt, StillFound, FailedIsFound
<1>3. CASE LookUp
  <2>1. PICK next \in {"create"} : Looking("pull", <<>>, next)
    BY <1>3 DEF LookUp, Flag
  <2> QED
    BY <1>1, <2>1, LookedAt, StillFound, FailedIsFound
<1>4. CASE SelectDatabase
  <2>1. PICK errors : Looking("pull", errors, "validate")
    BY <1>4, Zenon DEF SelectDatabase
  <2>2. run.pc = "database"
    BY <1>4 DEF SelectDatabase, Running
  <2> QED
    BY <1>1, <2>1, <2>2, LookedAt, StillFound, FailedIsFound DEF AfterDump
<1> QED
  BY <1>2, <1>3, <1>4

LEMMA RestoreFinds ==
  ASSUME IsRun, WorldInvariant, Found, world' \ Inert = world \ Inert,
         \/ ValidateDump \/ LoadTarget \/ AttestTarget
         \/ StartRestore \/ RecreateDatabase \/ ImportDump
  PROVE  Found'
<1>1. "restore" # "none" /\ "local target" # "none" /\ "executor" # "none"
  OBVIOUS
<1>2. CASE ValidateDump
  <2>1. PICK errors : Looking("restore", errors, "gate")
    BY <1>2, Zenon DEF ValidateDump
  <2>2. run.pc = "validate"
    BY <1>2 DEF ValidateDump, Running
  <2> QED
    BY <1>1, <2>1, <2>2, LookedAt, StillFound, FailedIsFound DEF AfterDump
<1>3. CASE LoadTarget
  <2> DEFINE a == When(~HasTarget(world), "NotConfigured")
             b == When(~HasContext(world), "RuntimeContextMissing")
             c == When(Bad(world, "target", "no key"), "Credential")
  <2>1. \/ First(<<Load>> \o <<a, b, c>>) = "ok" /\ run'.pc = "attest"
        \/ Failed'
    <3>1. Loading("local target", <<a, b, c>>, "attest")
      BY <1>3, Zenon DEF LoadTarget
    <3> QED
      BY <1>1, <3>1, LoadedAt, Zenon
  <2>2. ASSUME First(<<Load>> \o <<a, b, c>>) = "ok" PROVE Targeted(world)
    <3>1. ~Unreadable(world) /\ a = "ok" /\ c = "ok"
      <4> HIDE DEF a, b, c
      <4> QED
        BY <2>2, LoadAndThree
    <3> QED
      BY <3>1 DEF Targeted, When
  <2>3. Loads(world) /\ SourceRuns(world)
    BY <1>3 DEF LoadTarget, Running, Found, AfterLoad, AfterDump
  <2>4. Loads(world') /\ SourceRuns(world') /\ (Targeted(world) => Targeted(world'))
    BY <2>3, StaysSo
  <2>5. run'.pc = "attest" /\ Targeted(world') => Found'
    BY <2>4 DEF Found, AfterLoad, AfterDump, AfterAll
  <2> HIDE DEF a, b, c
  <2> QED
    BY <2>1, <2>2, <2>4, <2>5, FailedIsFound
<1>4. CASE AttestTarget
  <2> DEFINE a == Attest(world)
             b == When(Bad(world, "target", "other vendor"), "UnsupportedVendor")
  <2>1. Looking("local target", <<a, b>>, "engine")
    BY <1>4, Zenon DEF AttestTarget
  <2>2. SourceRuns(world) /\ Targeted(world)
    BY <1>4 DEF AttestTarget, Running, Found, AfterDump
  <2>3. a = "ok" => AllRight(world')
    BY <2>2, AskedForTarget, StaysSo
  <2>4. run'.pc = "engine" /\ AllRight(world') => Found'
    BY DEF Found, AfterLoad, AfterDump, AfterAll
  <2> HIDE DEF a, b
  <2>5. First(<<a, b>>) = "ok" => a = "ok"
    BY FirstOfTwo
  <2>6. (First(<<a, b>>) = "ok" /\ run'.pc = "engine") \/ Failed'
    BY <1>1, <2>1, LookedAt, Zenon
  <2> QED
    BY <2>3, <2>4, <2>5, <2>6, FailedIsFound
<1>5. CASE StartRestore
  <2>1. PICK errors : Looking("restore", errors, "recreate")
    BY <1>5, Zenon DEF StartRestore
  <2>2. run.pc = "engine"
    BY <1>5 DEF StartRestore, Running
  <2> QED
    BY <1>1, <2>1, <2>2, LookedAt, StillFound, FailedIsFound DEF AfterAll
<1>6. CASE RecreateDatabase \/ ImportDump
  <2>1. RecreateDatabase => run'.pc \in {"import", "ended"}
    BY ExecuteGoes, Zenon DEF RecreateDatabase
  <2>2. ImportDump => run'.pc \in {"ended", "ended"}
    BY ExecuteGoes, Zenon DEF ImportDump
  <2>3. run.pc \in {"recreate", "import"}
    BY <1>6 DEF RecreateDatabase, ImportDump, Running
  <2> QED
    BY <1>6, <2>1, <2>2, <2>3, StillFound DEF AfterAll
<1> QED
  BY <1>2, <1>3, <1>4, <1>5, <1>6


PullInvariant ==
  doctor.steady /\ run.line.name = "pull" /\ "fresh" \in run.line.flags => Found

LEMMA PullInvariantHolds == Spec => []PullInvariant
<1>1. Init => PullInvariant
  BY DEF Init, NoRun, NoLine, PullInvariant
<1>2. RunInvariant /\ RestInvariant /\ PullInvariant /\ [Next]_vars => PullInvariant'
  <2> SUFFICES ASSUME RunInvariant, RestInvariant, PullInvariant, [Next]_vars,
                      doctor'.steady, run'.line.name = "pull", "fresh" \in run'.line.flags
               PROVE  Found'
    BY DEF PullInvariant
  <2>1. IsRun /\ WorldInvariant /\ DoctorType
    BY DEF RunInvariant, RestInvariant
  <2>2. world' \ Inert = world \ Inert
    BY <2>1, WorldSteady
  <2>3. CASE Start
    <3>1. \/ run'.pc = "ended" /\ run'.why = <<"value", "invalid">>
          \/ run'.pc = "select"
      BY <2>3 DEF Start, NoRun, Entry
    <3>2. <<"value", "invalid">> # Ok
      BY DEF Ok
    <3> QED
      BY <3>1, <3>2 DEF Found, AfterLoad, AfterDump, AfterAll
  <2>4. CASE ~Start
    <3>1. run'.line = run.line
      BY <2>1, <2>4, NextIsRun
    <3>2. ~Environment
      BY <2>1 DEF Environment, Change, DoctorType
    <3>3. ~RunDoctor
      <4>1. "doctor" \notin Way["pull"]
        BY WaysAre DEF Dumping, Restoring
      <4>2. run.pc \in {"idle", "ended"} \cup Way["pull"]
        BY <3>1 DEF RunInvariant
      <4>3. run.pc # "doctor"
        BY <4>1, <4>2
      <4> QED
        BY <4>3 DEF RunDoctor, Running
    <3>4. doctor.steady
      <4>1. doctor' # [doctor EXCEPT !.steady = FALSE]
        BY <2>1 DEF DoctorType
      <4> QED
        BY <2>4, <3>2, <3>3, <4>1, CommandsLeaveDoctor
    <3>5. Found
      BY <3>1, <3>4 DEF PullInvariant
    <3>6. CASE UNCHANGED vars \/ CtrlC
      <4>1. world' = world /\ run'.pc = run.pc /\ run'.why = run.why
        BY <2>1, <3>6 DEF vars, CtrlC, IsRun, Fields
      <4> QED
        BY <3>5, <4>1 DEF Found
    <3>7. CASE CreateDump \/ Assess \/ Export \/ Publish
      BY <2>1, <2>2, <3>1, <3>5, <3>7, DumpFinds
    <3>8. CASE SelectTarget \/ LookUp \/ SelectDatabase
      BY <2>1, <2>2, <3>1, <3>5, <3>8, PullFinds
    <3>9. CASE \/ ValidateDump \/ LoadTarget \/ AttestTarget
               \/ StartRestore \/ RecreateDatabase \/ ImportDump
      BY <2>1, <2>2, <3>5, <3>9, RestoreFinds
    <3> QED
      BY <2>4, <3>1, <3>2, <3>6, <3>7, <3>8, <3>9, PullSteps
  <2> QED
    BY <2>3, <2>4
<1> QED
  BY <1>1, <1>2, RunInvariantHolds, RestInvariantHolds, PTL DEF Spec

(* A failure that doctor reports is one that a pull runs into: whoever     *)
(* gets to the end of a pull has found the source, the target and Docker   *)
(* without any of the faults that doctor's checks are there for, the free  *)
(* disk and a cipher that the target does not report aside.                *)
THEOREM AlarmHolds == Spec => []AlarmIsReal
<1>1. ReportInvariant /\ RepairInvariant /\ PullInvariant => AlarmIsReal
  <2> SUFFICES ASSUME ReportInvariant, RepairInvariant, PullInvariant, Diagnosed,
                      Ended({"pull"}), Flag("fresh"), run.why = Ok,
                      NEW l \in Failures(doctor.report), l \notin Harmless(world)
               PROVE  FALSE
    BY DEF AlarmIsReal
  <2>1. doctor.steady /\ l \in Labels /\ doctor.report[l] \in Kinds
    BY DEF Failures, Diagnosed
  <2>2. AllRight(world)
    BY <2>1 DEF PullInvariant, Found, Ended, Running, Flag
  <2>3. SourceIsRight(world) /\ TargetIsRight(world) /\ Inspected(world)
    BY <2>2 DEF AllRight
  <2>4. l # "source TLS" => There(world, l)
    BY <2>1 DEF ReportInvariant, Fair
  <2>5. l = "source TLS" => There(world, "source connection")
    BY <2>1 DEF RepairInvariant
  <2>6. ~There(world, "source connection")
    BY <2>3, SourceFaultsAre DEF SourceIsRight
  <2>7. There(world, "target connection") => "target connection" \in Harmless(world)
    BY <2>3, TargetFaultsAre DEF TargetIsRight, Harmless
  <2>8. ~There(world, "Docker")
    BY <2>3, ThereOfDocker
  <2>9. ~There(world, "configuration") /\ ~There(world, "active profile")
    BY <2>3 DEF There, Causes, SourceIsRight, Unreadable, HasProfile, Empty, Bad
  <2>10. ~There(world, "source credential")
    BY <2>3 DEF There, Causes, SourceIsRight, Bad
  <2>11. ~There(world, "local target configuration")
    BY <2>3 DEF There, Causes, TargetIsRight, Unreadable, HasTarget, Empty, Bad
  <2>12. ~There(world, "target credential") /\ ~There(world, "Docker context identity")
    BY <2>3 DEF There, Causes, TargetIsRight, Bad
  <2>13. ~There(world, "target container identity")
    BY <2>3 DEF There, Causes, TargetIsRight, Exact, Bad
  <2>14. l # "cache filesystem"
    BY DEF Harmless
  <2>15. l # "target connection"
    BY <2>4, <2>7
  <2> QED
    BY <2>1, <2>4, <2>5, <2>6, <2>8, <2>9, <2>10, <2>11, <2>12, <2>13, <2>14, <2>15,
       LabelsAreAll
<1> QED
  BY <1>1, ReportInvariantHolds, RepairInvariantHolds, PullInvariantHolds, PTL
=============================================================================
