------------------------- MODULE Maintenance_proofs -------------------------
(***************************************************************************)
(* No key that stored data needs is ever lost, for every number of values, *)
(* keys, revisions, copies kept, crashes and acts of the owner.            *)
(*                                                                         *)
(* The argument: .env, the net and the data are in step with the point the *)
(* running program has reached (InStep). A guided rotation has the old key *)
(* in the net before it touches .env, takes a new key nobody has used      *)
(* (KeptKnown bounds the keys in circulation), and puts .env back only     *)
(* while no value uses the new one. Nothing is deleted by the owner until  *)
(* no value needs it (NetIsSpent).                                         *)
(***************************************************************************)
EXTENDS Maintenance, FiniteSetTheorems, TLAPS

KeptKnown == Kept \subseteq 1..keys

AppInStep(p) ==
    p.run = "app" =>
        /\ p.at \in {"starting", "pruning", "migrating", "serving"}
        /\ p.new = env /\ env # NoKey

HandInStep(p) ==
    p.run = "hand" =>
        /\ p.at \in {"plan", "copyapp", "copychat", "commitapp", "commitchat", "verify"}
        /\ p.new = env /\ env # NoKey

RestoreInStep(p) ==
    p.run = "restore" =>
        /\ p.at \in {"keeping", "swapping", "over"}
        /\ KeysOf(p.chosen.key) \subseteq Kept

Guided == {"opennet", "fillnet", "openenv", "fillenv", "plan", "copyapp", "copychat", "commitapp",
           "commitchat", "verify", "readback", "failed", "putback", "refill", "unlink"}

FilesInStep(p) ==
    /\ env = CASE p.at \in {"opennet", "fillnet", "openenv", "unlink"} -> p.old
               [] p.at \in {"fillenv", "refill"} -> NoKey
               [] OTHER -> p.new
    /\ net = CASE p.at = "opennet" -> {}
               [] p.at = "fillnet" -> {NoKey}
               [] OTHER -> {p.old}

GuidedInStep(p) ==
    p.run = "guided" =>
        /\ p.at \in Guided
        /\ p.old # NoKey /\ p.new # NoKey /\ p.old # p.new
        /\ {p.old, p.new} \subseteq 1..keys
        /\ FilesInStep(p)
        /\ \A c \in copies : c.label = "prerekey" => p.new \notin CopyKeys(c)
        /\ p.at \notin {"commitchat", "verify", "readback", "failed"} => p.new \notin InUse
        /\ p.at = "readback" => p.old \notin InUse /\ (p.allow \/ InUse \subseteq {p.new})

InStep == \A p \in proc : AppInStep(p) /\ HandInStep(p) /\ RestoreInStep(p) /\ GuidedInStep(p)

NetIsSpent ==
    said # "nothing" =>
        /\ \A p \in proc : p.run = "app"
        /\ net \cap InUse = {} /\ env \notin net /\ env # NoKey

IInv == TypeOK /\ NothingLost /\ KeptKnown /\ InStep /\ NetIsSpent

-----------------------------------------------------------------------------
(* Types *)

LEMMA InitTypeOK == Init => TypeOK
  BY ConstantsAssumption DEF Init, TypeOK, AppData, ChatData, Value, Keys, NoKey, Revisions, Program, Nothing

\* What Launch leaves is a program, whoever is launched.
LEMMA LaunchTypeOK ==
    ASSUME TypeOK,
           NEW name \in {"app", "guided", "hand", "restore"}, NEW stage \in Stages,
           NEW old \in Value, NEW new \in Value, NEW allow \in BOOLEAN, NEW chosen \in AppData,
           Launch(name, stage, old, new, allow, chosen)
    PROVE  /\ proc' \subseteq Program /\ \A p, q \in proc' : p = q
           /\ acts' \in Nat /\ proc = {}
  BY DEF Launch, Act, Program, TypeOK, Nothing

\* What a step to another stage leaves is a program.
LEMMA GoesTypeOK ==
    ASSUME TypeOK, NEW p \in proc, NEW stage \in Stages, Goes(p, stage)
    PROVE  proc' \subseteq Program /\ \A r, q \in proc' : r = q
  BY DEF Goes, Program, TypeOK

LEMMA EndsTypeOK ==
    ASSUME Ends
    PROVE  proc' \subseteq Program /\ \A r, q \in proc' : r = q
  BY DEF Ends, Nothing

LEMMA CopiedTypeOK ==
    ASSUME TypeOK, NEW of, NEW label, NEW data,
           \/ of = "app" /\ label \in {"migration", "prerekey", "before-restore"} /\ data \in AppData
           \/ of = "chat" /\ label = "prerekey" /\ data \in ChatData,
           Copied(of, label, data)
    PROVE  copies' \subseteq Copy /\ clock' \in Nat
  <1>1. [of |-> of, label |-> label, stamp |-> clock, data |-> data] \in Copy
    BY DEF Copy, TypeOK
  <1>2. QED
    BY <1>1 DEF Copied, TypeOK

LEMMA ApplicationTypeOK == TypeOK /\ Application => TypeOK'
  <1> SUFFICES ASSUME TypeOK, Application PROVE TypeOK'
    OBVIOUS
  <1>1. CASE StartApp
    <2>1. env \in Value /\ app \in AppData /\ NoKey \in Value /\ "starting" \in Stages
      BY DEF TypeOK, Value, Stages
    <2>2. QED
      BY <1>1, <2>1, LaunchTypeOK DEF StartApp, TypeOK, fileVars
  <1>2. ASSUME NEW p \in proc, BackUp(p) PROVE TypeOK'
    <2>1. proc' \subseteq Program /\ \A r, q \in proc' : r = q
      BY <1>2, GoesTypeOK, EndsTypeOK DEF BackUp, Stages
    <2>2. copies' \subseteq Copy /\ clock' \in Nat
      BY <1>2, CopiedTypeOK DEF BackUp, TypeOK
    <2>3. QED
      BY <1>2, <2>1, <2>2 DEF BackUp, TypeOK, FilesOnly, ownerVars
  <1>3. ASSUME NEW p \in proc, Prune(p) PROVE TypeOK'
    BY <1>3, GoesTypeOK DEF Prune, TypeOK, FilesOnly, ownerVars, Stages
  <1>4. ASSUME NEW p \in proc, Migrate(p) PROVE TypeOK'
    <2>1. app' \in AppData
      BY <1>4, ConstantsAssumption DEF Migrate, TypeOK, AppData, Revisions
    <2>2. proc' \subseteq Program /\ \A r, q \in proc' : r = q
      BY <1>4, GoesTypeOK, EndsTypeOK DEF Migrate, Stages
    <2>3. QED
      BY <1>4, <2>1, <2>2 DEF Migrate, TypeOK, FilesOnly, ownerVars
  <1>5. ASSUME NEW p \in proc, Serve(p) PROVE TypeOK'
    <2>1. p.new \in Value
      BY <1>5 DEF TypeOK, Program
    <2>2. app' \in AppData /\ chat' \in ChatData
      BY <1>5, <2>1 DEF Serve, TypeOK, AppData, ChatData
    <2>3. QED
      BY <1>5, <2>2 DEF Serve, TypeOK, FilesOnly, ownerVars
  <1>6. ASSUME NEW p \in proc, StopApp(p) PROVE TypeOK'
    BY <1>6, EndsTypeOK DEF StopApp, TypeOK, fileVars, ownerVars
  <1>7. QED
    BY <1>1, <1>2, <1>3, <1>4, <1>5, <1>6 DEF Application

LEMMA RestoringTypeOK == TypeOK /\ Restoring => TypeOK'
  <1> SUFFICES ASSUME TypeOK, Restoring PROVE TypeOK'
    OBVIOUS
  <1>1. CASE StartRestore
    <2>1. PICK c \in copies, allow \in BOOLEAN :
             /\ c.of = "app"
             /\ Launch("restore", "keeping", NoKey, env, allow, c.data)
      BY <1>1 DEF StartRestore
    <2>2. c.data \in AppData
      BY <2>1 DEF TypeOK, Copy
    <2>3. env \in Value /\ NoKey \in Value /\ "keeping" \in Stages
      BY DEF TypeOK, Value, Stages
    <2>4. QED
      BY <1>1, <2>1, <2>2, <2>3, LaunchTypeOK DEF StartRestore, TypeOK, fileVars
  <1>2. ASSUME NEW p \in proc, KeepCurrent(p) PROVE TypeOK'
    <2>1. copies' \subseteq Copy /\ clock' \in Nat
      BY <1>2, CopiedTypeOK DEF KeepCurrent, TypeOK
    <2>2. QED
      BY <1>2, <2>1, GoesTypeOK DEF KeepCurrent, TypeOK, FilesOnly, ownerVars, Stages
  <1>3. ASSUME NEW p \in proc, Swap(p) PROVE TypeOK'
    <2>1. p.chosen \in AppData
      BY <1>3 DEF TypeOK, Program
    <2>2. QED
      BY <1>3, <2>1, GoesTypeOK DEF Swap, TypeOK, FilesOnly, ownerVars, Stages
  <1>4. ASSUME NEW p \in proc, EndRestore(p) PROVE TypeOK'
    BY <1>4, EndsTypeOK DEF EndRestore, TypeOK, FilesOnly, fileVars, ownerVars
  <1>5. QED
    BY <1>1, <1>2, <1>3, <1>4 DEF Restoring

LEMMA RekeyedType ==
    ASSUME NEW S, NEW table \in [S -> Value], NEW p, p.new \in Value
    PROVE  Rekeyed(table, p) \in [S -> Value]
  BY DEF Rekeyed

LEMMA RotationTypeOK == TypeOK /\ Rotation => TypeOK'
  <1> SUFFICES ASSUME TypeOK, Rotation PROVE TypeOK'
    OBVIOUS
  <1> USE DEF KeysStay, DataStays, EnvStays, ownerVars
  <1>1. CASE StartGuided
    <2>1. PICK allow \in BOOLEAN : Launch("guided", "opennet", env, keys + 1, allow, app)
      BY <1>1 DEF StartGuided
    <2>2. keys + 1 \in Keys /\ keys + 1 \in Value /\ env \in Value /\ app \in AppData
          /\ "opennet" \in Stages
      BY <1>1, ConstantsAssumption DEF StartGuided, TypeOK, Keys, Value, Stages
    <2>3. QED
      BY <1>1, <2>1, <2>2, LaunchTypeOK DEF StartGuided, TypeOK, fileVars
  <1>2. CASE StartHand
    <2>1. PICK allow \in BOOLEAN, old \in Kept \ {env} : Launch("hand", "plan", old, env, allow, app)
      BY <1>2 DEF StartHand
    <2>2. old \in Value /\ env \in Value /\ app \in AppData /\ "plan" \in Stages
      BY DEF TypeOK, Kept, Value, Stages
    <2>3. QED
      BY <1>2, <2>1, <2>2, LaunchTypeOK DEF StartHand, TypeOK, fileVars
  <1>3. ASSUME NEW p \in proc, WriteFiles(p) PROVE TypeOK'
    <2>1. p.old \in Value /\ p.new \in Value /\ NoKey \in Value
      BY <1>3 DEF TypeOK, Program, Value
    <2>2. proc' \subseteq Program /\ \A r, q \in proc' : r = q
      BY <1>3, GoesTypeOK DEF WriteFiles, Stages
    <2>3. env' \in Value /\ net' \subseteq Value
      BY <1>3, <2>1 DEF WriteFiles, TypeOK
    <2>4. QED
      BY <1>3, <2>2, <2>3 DEF WriteFiles, TypeOK
  <1>4. ASSUME NEW p \in proc, Plan(p) PROVE TypeOK'
    BY <1>4, GoesTypeOK DEF Plan, TypeOK, Stages
  <1>5. ASSUME NEW p \in proc, Copies(p) PROVE TypeOK'
    <2>1. copies' \subseteq Copy /\ clock' \in Nat
      BY <1>5, CopiedTypeOK DEF Copies, TypeOK
    <2>2. proc' \subseteq Program /\ \A r, q \in proc' : r = q
      BY <1>5, GoesTypeOK DEF Copies, Stages
    <2>3. QED
      BY <1>5, <2>1, <2>2 DEF Copies, TypeOK
  <1>6. ASSUME NEW p \in proc, Commits(p) PROVE TypeOK'
    <2>1. p.new \in Value
      BY <1>6 DEF TypeOK, Program
    <2>2. Rekeyed(app.key, p) \in [AppRows -> Value] /\ Rekeyed(chat, p) \in [ChatRows -> Value]
      BY <2>1, RekeyedType DEF TypeOK, AppData, ChatData
    <2>3. app' \in AppData /\ chat' \in ChatData
      BY <1>6, <2>2 DEF Commits, TypeOK, AppData, ChatData
    <2>4. proc' \subseteq Program /\ \A r, q \in proc' : r = q
      BY <1>6, GoesTypeOK DEF Commits, Stages
    <2>5. QED
      BY <1>6, <2>3, <2>4 DEF Commits, TypeOK
  <1>7. ASSUME NEW p \in proc, Verify(p) PROVE TypeOK'
    BY <1>7, GoesTypeOK, EndsTypeOK DEF Verify, TypeOK, Stages
  <1>8. ASSUME NEW p \in proc, ReadBack(p) PROVE TypeOK'
    BY <1>8, EndsTypeOK DEF ReadBack, TypeOK
  <1>9. ASSUME NEW p \in proc, Fails(p) PROVE TypeOK'
    BY <1>9, GoesTypeOK, EndsTypeOK DEF Fails, TypeOK, Stages
  <1>10. ASSUME NEW p \in proc, AfterFailure(p) PROVE TypeOK'
    BY <1>10, GoesTypeOK, EndsTypeOK DEF AfterFailure, TypeOK, Stages
  <1>11. ASSUME NEW p \in proc, PutBack(p) PROVE TypeOK'
    <2>1. p.old \in Value /\ NoKey \in Value
      BY <1>11 DEF TypeOK, Program, Value
    <2>2. proc' \subseteq Program /\ \A r, q \in proc' : r = q
      BY <1>11, GoesTypeOK, EndsTypeOK DEF PutBack, Stages
    <2>3. env' \in Value /\ net' \subseteq Value
      BY <1>11, <2>1 DEF PutBack, TypeOK
    <2>4. QED
      BY <1>11, <2>2, <2>3 DEF PutBack, TypeOK
  <1>12. QED
    BY <1>1, <1>2, <1>3, <1>4, <1>5, <1>6, <1>7, <1>8, <1>9, <1>10, <1>11 DEF Rotation

LEMMA OwnerTypeOK == TypeOK /\ Owner => TypeOK'
  <1> SUFFICES ASSUME TypeOK, Owner PROVE TypeOK'
    OBVIOUS
  <1>1. CASE MoveNet
    BY <1>1 DEF MoveNet, ByHand, Act, TypeOK, Value
  <1>2. CASE DeleteNets
    BY <1>2 DEF DeleteNets, ByHand, Act, TypeOK, Value
  <1>3. CASE SetKey
    BY <1>3 DEF SetKey, ByHand, Act, TypeOK, Value, Kept
  <1>4. CASE Install
    BY <1>4 DEF Install, ByHand, Act, TypeOK
  <1>5. QED
    BY <1>1, <1>2, <1>3, <1>4 DEF Owner

\* Every reachable state is well typed.
THEOREM TypeCorrect == Spec => []TypeOK
  <1>1. TypeOK /\ [Next]_vars => TypeOK'
    <2> SUFFICES ASSUME TypeOK, [Next]_vars PROVE TypeOK'
      OBVIOUS
    <2>1. CASE Crash
      BY <2>1, EndsTypeOK DEF Crash, TypeOK, fileVars, ownerVars
    <2>2. CASE UNCHANGED vars
      BY <2>2 DEF vars, fileVars, ownerVars, TypeOK
    <2>3. QED
      BY <2>1, <2>2, ApplicationTypeOK, RestoringTypeOK, RotationTypeOK, OwnerTypeOK DEF Next
  <1>2. QED
    BY <1>1, InitTypeOK, PTL DEF Spec

-----------------------------------------------------------------------------
(* The invariant *)

LEMMA InitIInv == Init => IInv
  <1> SUFFICES ASSUME Init PROVE IInv
    OBVIOUS
  <1>1. TypeOK
    BY InitTypeOK
  <1>2. KeysOf(app.key) \subseteq {1} /\ KeysOf(chat) \subseteq {1}
    BY DEF Init, KeysOf, NoKey
  <1>3. Kept = {1} /\ keys = 1
    BY DEF Init, Kept, NoKey
  <1>4. NothingLost /\ KeptKnown /\ InStep /\ NetIsSpent
    BY <1>2, <1>3 DEF Init, NothingLost, KeptKnown, InStep, NetIsSpent, InUse, Nothing
  <1>5. QED
    BY <1>1, <1>4 DEF IInv

\* Nothing is lost by a step that leaves the keys of the data and of the owner alone and
\* makes no prerekey copy.
LEMMA KeysUntouched ==
    ASSUME NothingLost, app'.key = app.key, UNCHANGED <<chat, env, net, safe>>,
           \A c \in copies' : c.label = "prerekey" => c \in copies
    PROVE  NothingLost' /\ Kept' = Kept /\ InUse' = InUse
  <1>1. Kept' = Kept /\ InUse' = InUse
    BY DEF Kept, InUse, KeysOf
  <1>2. QED
    BY <1>1 DEF NothingLost, CopyKeys, KeysOf

\* Going to another stage changes nothing else of a program.
LEMMA GoesFields ==
    ASSUME TypeOK, NEW p \in proc, NEW stage, Goes(p, stage), NEW q \in proc'
    PROVE  /\ q.at = stage /\ q.run = p.run /\ q.old = p.old /\ q.new = p.new
           /\ q.chosen = p.chosen /\ q.allow = p.allow
  BY DEF Goes, TypeOK, Program

LEMMA LaunchFields ==
    ASSUME NEW name, NEW stage, NEW old, NEW new, NEW allow, NEW chosen,
           Launch(name, stage, old, new, allow, chosen), NEW q \in proc'
    PROVE  /\ q.at = stage /\ q.run = name /\ q.old = old /\ q.new = new
           /\ q.chosen = chosen
  BY DEF Launch

\* The parts of InStep that name no other program.
LEMMA InStepByRun ==
    ASSUME \A q \in proc' : q.run \in {"app", "guided", "hand", "restore"},
           \A q \in proc' : q.run = "app" => AppInStep(q)',
           \A q \in proc' : q.run = "hand" => HandInStep(q)',
           \A q \in proc' : q.run = "restore" => RestoreInStep(q)',
           \A q \in proc' : q.run = "guided" => GuidedInStep(q)'
    PROVE  InStep'
  BY DEF InStep, AppInStep, HandInStep, RestoreInStep, GuidedInStep

LEMMA EndsInStep == Ends => InStep'
  BY DEF Ends, Nothing, InStep

\* With no rotation or restore in proc the net stays spent.
LEMMA StillSpent ==
    ASSUME NetIsSpent, said' = said, \A q \in proc' : \E p \in proc : q.run = p.run,
           InUse' = InUse, net' = net, env' = env
    PROVE  NetIsSpent'
  BY DEF NetIsSpent

LEMMA ApplicationIInv == IInv /\ TypeOK' /\ Application => IInv'
  <1> SUFFICES ASSUME IInv, TypeOK', Application PROVE IInv'
    OBVIOUS
  <1> USE DEF IInv
  <1>1. CASE StartApp
    <2>1. \A q \in proc' : q.run = "app" /\ q.at = "starting" /\ q.new = env
      BY <1>1 DEF StartApp, Launch
    <2>2. NothingLost' /\ Kept' = Kept /\ InUse' = InUse
      BY <1>1, KeysUntouched DEF StartApp, fileVars
    <2>3. KeptKnown'
      BY <1>1, <2>2 DEF KeptKnown, StartApp
    <2>4. InStep'
      BY <1>1, <2>1, InStepByRun DEF StartApp, fileVars, AppInStep
    <2>5. NetIsSpent'
      BY <1>1, <2>1, <2>2 DEF StartApp, fileVars, NetIsSpent
    <2>6. QED
      BY <2>2, <2>3, <2>4, <2>5
  <1>2. ASSUME NEW p \in proc, BackUp(p) \/ Prune(p) \/ Migrate(p) \/ StopApp(p) PROVE IInv'
    <2>1. p.run = "app" /\ AppInStep(p)
      BY <1>2 DEF BackUp, Prune, Migrate, StopApp, At, InStep, AppInStep, HandInStep,
                  RestoreInStep, GuidedInStep, Guided, TypeOK, Program
    <2>2. /\ app'.key = app.key
          /\ UNCHANGED <<chat, env, net, safe, keys>>
          /\ said' # "nothing" => said # "nothing"
          /\ \A c \in copies' : c.label = "prerekey" => c \in copies
      BY <1>2 DEF BackUp, Prune, Migrate, StopApp, FilesOnly, ownerVars, fileVars, Copied, Surplus,
                  TypeOK, AppData
    <2>3. NothingLost' /\ Kept' = Kept /\ InUse' = InUse
      BY <2>2, KeysUntouched
    <2>4. /\ \A q \in proc' : q.run = "app" /\ q.new = p.new
                               /\ q.at \in {"starting", "pruning", "migrating", "serving"}
      <3>1. CASE Ends
        BY <3>1 DEF Ends, Nothing
      <3>2. CASE \E stage \in {"pruning", "migrating", "serving"} : Goes(p, stage)
        BY <2>1, <3>2, GoesFields
      <3>3. QED
        BY <1>2, <3>1, <3>2 DEF BackUp, Prune, Migrate, StopApp
    <2>5. InStep'
      BY <2>1, <2>2, <2>4 DEF InStep, AppInStep, HandInStep, RestoreInStep, GuidedInStep
    <2>6. NetIsSpent'
      BY <2>2, <2>3, <2>4 DEF NetIsSpent
    <2>7. QED
      BY <2>2, <2>3, <2>5, <2>6 DEF KeptKnown
  <1>3. ASSUME NEW p \in proc, Serve(p) PROVE IInv'
    <2>1. p.run = "app" /\ p.new = env /\ env # NoKey
      BY <1>3 DEF Serve, At, InStep, AppInStep, HandInStep, RestoreInStep, GuidedInStep, Guided,
                  TypeOK, Program
    <2>2. InUse' \subseteq InUse \cup {env}
      BY <1>3, <2>1 DEF Serve, InUse, KeysOf, TypeOK, AppData, ChatData
    <2>3. UNCHANGED <<copies, env, net, safe, proc, keys, said>> /\ Kept' = Kept
      BY <1>3 DEF Serve, FilesOnly, ownerVars, Kept
    <2>4. NothingLost' /\ KeptKnown'
      BY <2>1, <2>2, <2>3 DEF NothingLost, KeptKnown, Kept, CopyKeys, KeysOf
    <2>5. \A q \in proc' : q = p
      BY <2>3 DEF TypeOK
    <2>6. InStep'
      BY <2>1, <2>3, <2>5 DEF InStep, AppInStep, HandInStep, RestoreInStep, GuidedInStep
    <2>7. NetIsSpent'
      BY <2>2, <2>3 DEF NetIsSpent
    <2>8. QED
      BY <2>4, <2>6, <2>7
  <1>4. QED
    BY <1>1, <1>2, <1>3 DEF Application

LEMMA RestoringIInv == IInv /\ TypeOK' /\ Restoring => IInv'
  <1> SUFFICES ASSUME IInv, TypeOK', Restoring PROVE IInv'
    OBVIOUS
  <1> USE DEF IInv
  <1>1. CASE StartRestore
    <2>1. PICK c \in copies, allow \in BOOLEAN :
             /\ KeysOf(c.data.key) \subseteq {env} \cup net \cup safe
             /\ Launch("restore", "keeping", NoKey, env, allow, c.data)
      BY <1>1 DEF StartRestore
    <2>2. NothingLost' /\ Kept' = Kept /\ InUse' = InUse
      BY <1>1, KeysUntouched DEF StartRestore, fileVars
    <2>3. KeysOf(c.data.key) \subseteq Kept
      BY <2>1 DEF Kept, KeysOf
    <2>4. InStep'
      <3>1. \A q \in proc' : q.run = "restore" /\ q.at = "keeping" /\ q.chosen = c.data
        BY <2>1, LaunchFields
      <3>2. \A q \in proc' : KeysOf(q.chosen.key) \subseteq Kept'
        BY <3>1, <2>2, <2>3
      <3>3. QED
        BY <3>1, <3>2, InStepByRun DEF RestoreInStep
    <2>5. QED
      BY <1>1, <2>2, <2>4 DEF StartRestore, KeptKnown, NetIsSpent
  <1>2. ASSUME NEW p \in proc, KeepCurrent(p) \/ EndRestore(p) PROVE IInv'
    <2>1. /\ app' = app /\ UNCHANGED <<chat, env, net, safe, keys, said>>
          /\ \A c \in copies' : c.label = "prerekey" => c \in copies
      BY <1>2 DEF KeepCurrent, EndRestore, FilesOnly, ownerVars, fileVars, Copied
    <2>2. NothingLost' /\ Kept' = Kept /\ InUse' = InUse
      BY <2>1, KeysUntouched
    <2>3. p.run = "restore" /\ RestoreInStep(p)
      BY <1>2 DEF KeepCurrent, EndRestore, At, InStep, AppInStep, HandInStep, RestoreInStep,
                  GuidedInStep, Guided, TypeOK, Program
    <2>4. said = "nothing"
      BY <2>3 DEF NetIsSpent
    <2>5. InStep'
      <3>1. CASE Ends
        BY <3>1, EndsInStep
      <3>2. CASE Goes(p, "swapping")
        BY <2>2, <2>3, <3>2, GoesFields, InStepByRun DEF RestoreInStep
      <3>3. QED
        BY <1>2, <3>1, <3>2 DEF KeepCurrent, EndRestore
    <2>6. QED
      BY <2>1, <2>2, <2>4, <2>5 DEF KeptKnown, NetIsSpent
  <1>3. ASSUME NEW p \in proc, Swap(p) PROVE IInv'
    <2>1. p.run = "restore" /\ RestoreInStep(p)
      BY <1>3 DEF Swap, At, InStep, AppInStep, HandInStep, RestoreInStep, GuidedInStep, Guided,
                  TypeOK, Program
    <2>2. said' = "nothing"
      BY <1>3, <2>1 DEF NetIsSpent, Swap, FilesOnly
    <2>3. UNCHANGED <<chat, copies, env, net, safe, keys>> /\ Kept' = Kept
      BY <1>3 DEF Swap, FilesOnly, ownerVars, Kept
    <2>4. InUse' \subseteq Kept
      BY <1>3, <2>1, <2>3 DEF Swap, RestoreInStep, InUse, NothingLost, KeysOf
    <2>5. NothingLost' /\ KeptKnown'
      BY <2>3, <2>4 DEF NothingLost, KeptKnown, CopyKeys, KeysOf
    <2>6. InStep'
      BY <1>3, <2>1, <2>3, GoesFields, InStepByRun DEF Swap, RestoreInStep
    <2>7. QED
      BY <2>2, <2>5, <2>6 DEF NetIsSpent
  <1>4. QED
    BY <1>1, <1>2, <1>3 DEF Restoring

\* The rewritten values are under the new key, and none is under the old one.
LEMMA RekeyedKeys ==
    ASSUME NEW table, NEW p, p.new # NoKey
    PROVE  KeysOf(Rekeyed(table, p)) \subseteq (KeysOf(table) \ {p.old}) \cup {p.new}
  BY DEF KeysOf, Rekeyed

\* A stage of a rotation belongs to a guided one, or to one by hand from "plan" to "verify".
LEMMA RotationRuns ==
    ASSUME IInv, NEW p \in proc, p.at \in Guided
    PROVE  /\ said = "nothing"
           /\ p.run \in {"guided", "hand"}
           /\ p.run = "guided" => GuidedInStep(p)
           /\ p.run = "hand" => HandInStep(p)
  BY DEF IInv, InStep, NetIsSpent, AppInStep, HandInStep, RestoreInStep, GuidedInStep, Guided,
         TypeOK, Program

LEMMA StartGuidedIInv == IInv /\ TypeOK' /\ StartGuided => IInv'
  <1> SUFFICES ASSUME IInv, TypeOK', StartGuided PROVE IInv'
    OBVIOUS
  <1>1. \A q \in proc' : /\ q.run = "guided" /\ q.at = "opennet"
                         /\ q.old = env /\ q.new = keys + 1
    BY DEF StartGuided, Launch
  <1>2. NothingLost' /\ Kept' = Kept /\ InUse' = InUse
    BY KeysUntouched DEF StartGuided, fileVars, IInv
  <1>3. keys \in Nat /\ env \in 1..keys /\ net = {} /\ env # NoKey
    BY DEF StartGuided, IInv, TypeOK, Keys, KeptKnown, Kept, NoKey
  <1>4. keys + 1 \notin Kept /\ keys + 1 # NoKey /\ keys + 1 # env
    BY <1>3 DEF IInv, KeptKnown, NoKey
  <1>5. KeptKnown'
    BY <1>2, <1>3 DEF StartGuided, IInv, KeptKnown
  <1>6. /\ keys + 1 \notin InUse
        /\ \A c \in copies : c.label = "prerekey" => keys + 1 \notin CopyKeys(c)
    BY <1>4 DEF IInv, NothingLost
  <1>7. UNCHANGED <<app, chat, copies, env, net>> /\ said' = "nothing"
    BY DEF StartGuided, fileVars
  <1>8. ASSUME NEW q \in proc' PROVE GuidedInStep(q)'
    <2>1. \A c \in copies' : c.label = "prerekey" => q.new \notin CopyKeys(c)'
      BY <1>1, <1>6, <1>7, <1>8 DEF CopyKeys, KeysOf
    <2>2. FilesInStep(q)'
      BY <1>1, <1>3, <1>7, <1>8 DEF FilesInStep
    <2>3. QED
      BY <1>1, <1>2, <1>3, <1>4, <1>6, <1>8, <2>1, <2>2 DEF GuidedInStep, Guided, StartGuided
  <1>9. InStep'
    BY <1>1, <1>8, InStepByRun
  <1>10. QED
    BY <1>2, <1>5, <1>7, <1>9 DEF IInv, NetIsSpent

LEMMA StartHandIInv == IInv /\ TypeOK' /\ StartHand => IInv'
  <1> SUFFICES ASSUME IInv, TypeOK', StartHand PROVE IInv'
    OBVIOUS
  <1>1. \A q \in proc' : q.run = "hand" /\ q.at = "plan" /\ q.new = env
    BY DEF StartHand, Launch
  <1>2. NothingLost' /\ Kept' = Kept /\ InUse' = InUse
    BY KeysUntouched DEF StartHand, fileVars, IInv
  <1>3. InStep'
    BY <1>1, InStepByRun DEF StartHand, fileVars, HandInStep
  <1>4. QED
    BY <1>2, <1>3 DEF StartHand, IInv, NetIsSpent, KeptKnown

\* The files: .env and the net exchange the keys without losing one that is in use.
LEMMA FilesIInv ==
    ASSUME IInv, TypeOK', NEW p \in proc, WriteFiles(p) \/ PutBack(p)
    PROVE  IInv'
  <1> USE DEF KeysStay, DataStays, EnvStays, ownerVars
  <1>1. p.run = "guided" /\ GuidedInStep(p) /\ said = "nothing"
    <2>1. p.at \in {"opennet", "fillnet", "openenv", "fillenv", "putback", "refill", "unlink"}
      BY DEF WriteFiles, PutBack, At
    <2>2. QED
      BY <2>1, RotationRuns DEF Guided, HandInStep
  <1>2. UNCHANGED <<app, chat, copies, safe, keys, said>>
    BY DEF WriteFiles, PutBack
  <1>3. InUse' = InUse /\ \A c \in copies : CopyKeys(c)' = CopyKeys(c)
    BY <1>2 DEF InUse, KeysOf, CopyKeys
  <1>4. InUse \subseteq Kept' /\ \A c \in copies : c.label = "prerekey" => CopyKeys(c) \subseteq Kept'
    <2>1. CASE p.at \in {"putback", "refill", "unlink"}
      <3>1. Kept \subseteq Kept' \cup {p.new}
        BY <1>1, <1>2, <2>1 DEF PutBack, WriteFiles, At, Kept, GuidedInStep, FilesInStep
      <3>2. p.new \notin InUse /\ \A c \in copies : c.label = "prerekey" => p.new \notin CopyKeys(c)
        BY <1>1, <2>1 DEF GuidedInStep
      <3>3. QED
        BY <3>1, <3>2 DEF IInv, NothingLost
    <2>2. CASE p.at \notin {"putback", "refill", "unlink"}
      <3>1. Kept \subseteq Kept'
        BY <1>1, <1>2, <2>2 DEF PutBack, WriteFiles, At, Kept, GuidedInStep, FilesInStep
      <3>2. QED
        BY <3>1 DEF IInv, NothingLost
    <2>3. QED
      BY <2>1, <2>2
  <1>5. NothingLost'
    BY <1>2, <1>3, <1>4 DEF NothingLost
  <1>6. InStep'
    <2>1. CASE Ends
      BY <2>1, EndsInStep
    <2>2. CASE WriteFiles(p)
      BY <1>1, <1>2, <1>3, <2>2, GoesFields, InStepByRun
         DEF WriteFiles, At, GuidedInStep, FilesInStep, Guided, IInv
    <2>3. CASE PutBack(p) /\ ~Ends
      BY <1>1, <1>2, <1>3, <2>3, GoesFields, InStepByRun
         DEF PutBack, At, GuidedInStep, FilesInStep, Guided, IInv
    <2>4. QED
      BY <2>1, <2>2, <2>3
  <1>7. KeptKnown'
    BY <1>1, <1>2 DEF IInv, KeptKnown, Kept, GuidedInStep, WriteFiles, PutBack
  <1>8. QED
    BY <1>1, <1>2, <1>5, <1>6, <1>7 DEF IInv, NetIsSpent

\* The steps of run_rekey and what follows it, but the commits: files and data stay.
LEMMA RewriteIInv ==
    ASSUME IInv, TypeOK', NEW p \in proc,
           Plan(p) \/ Copies(p) \/ Verify(p) \/ Fails(p) \/ AfterFailure(p)
    PROVE  IInv'
  <1> USE DEF KeysStay, DataStays, EnvStays, ownerVars
  <1>1. p.at \in Guided
    BY DEF Plan, Copies, Verify, Fails, AfterFailure, At, Guided
  <1>2. /\ said = "nothing" /\ p.run \in {"guided", "hand"}
        /\ p.run = "guided" => GuidedInStep(p)
        /\ p.run = "hand" => HandInStep(p)
    BY <1>1, RotationRuns
  <1>3. UNCHANGED <<app, chat, env, net, safe, keys, said>>
    BY DEF Plan, Copies, Verify, Fails, AfterFailure
  <1>4. InUse' = InUse /\ Kept' = Kept /\ \A c : CopyKeys(c)' = CopyKeys(c)
    BY <1>3 DEF InUse, KeysOf, Kept, CopyKeys
  <1>5. \A c \in copies' : c.label = "prerekey" =>
            \/ c \in copies
            \/ CopyKeys(c) \subseteq InUse /\ p.at \in {"copyapp", "copychat"}
    BY DEF Plan, Copies, Verify, Fails, AfterFailure, Copied, CopyKeys, InUse, At
  <1>6. NothingLost'
    BY <1>4, <1>5 DEF IInv, NothingLost
  <1>7. InStep'
    <2>1. CASE Ends
      BY <2>1, EndsInStep
    <2>2. CASE p.run = "hand" /\ ~Ends
      <3>1. \E stage \in {"copyapp", "copychat", "commitapp", "commitchat", "verify"} : Goes(p, stage)
        BY <1>2, <2>2 DEF Plan, Copies, Verify, Fails, AfterFailure, HandInStep, At
      <3>2. QED
        BY <1>2, <1>3, <2>2, <3>1, GoesFields, InStepByRun DEF HandInStep, IInv
    <2>3. CASE p.run = "guided" /\ ~Ends
      <3>1. \E stage \in Guided : Goes(p, stage)
        BY <2>3 DEF Plan, Copies, Verify, Fails, AfterFailure, Guided
      <3>2. /\ env = p.new /\ net = {p.old}
            /\ \A q \in proc' : q.at \in {"copyapp", "copychat", "commitapp", "verify", "readback",
                                         "failed", "putback"}
        BY <1>2, <2>3, GoesFields
           DEF Plan, Copies, Verify, Fails, AfterFailure, GuidedInStep, FilesInStep, At, IInv
      <3>3. \A c \in copies' : c.label = "prerekey" => p.new \notin CopyKeys(c)
        BY <1>2, <1>5, <2>3 DEF GuidedInStep
      <3>4. /\ \A q \in proc' : q.at \notin {"commitchat", "verify", "readback", "failed"} => p.new \notin InUse
            /\ \A q \in proc' : q.at = "readback" =>
                   p.old \notin InUse /\ (p.allow \/ InUse \subseteq {p.new})
        BY <1>2, <2>3, GoesFields
           DEF Plan, Copies, Verify, Fails, AfterFailure, GuidedInStep, Left, Unreadable, At, IInv
      <3>5. QED
        BY <1>2, <1>3, <1>4, <2>3, <3>1, <3>2, <3>3, <3>4, GoesFields, InStepByRun
           DEF GuidedInStep, FilesInStep, IInv, Guided
    <2>4. QED
      BY <1>2, <2>1, <2>2, <2>3
  <1>8. QED
    BY <1>2, <1>3, <1>4, <1>6, <1>7 DEF IInv, NetIsSpent, KeptKnown

LEMMA CommitsIInv == ASSUME IInv, TypeOK', NEW p \in proc, Commits(p) PROVE IInv'
  <1> USE DEF KeysStay, EnvStays, ownerVars
  <1>1. /\ said = "nothing" /\ p.run \in {"guided", "hand"}
        /\ p.run = "guided" => GuidedInStep(p)
        /\ p.run = "hand" => HandInStep(p)
    BY RotationRuns DEF Commits, At, Guided
  <1>2. UNCHANGED <<copies, env, net, safe, keys, said>> /\ Kept' = Kept
    BY DEF Commits, Kept
  <1>3. p.new = env /\ env # NoKey
    BY <1>1 DEF Commits, At, GuidedInStep, FilesInStep, HandInStep
  <1>4. InUse' \subseteq InUse \cup {p.new}
    <2>1. app.key = app.key /\ app \in AppData
      BY DEF IInv, TypeOK
    <2>2. CASE At(p, "commitapp")
      <3>1. app'.key = Rekeyed(app.key, p) /\ chat' = chat
        BY <2>1, <2>2 DEF Commits, At, AppData
      <3>2. QED
        BY <1>3, <3>1, RekeyedKeys DEF InUse, KeysOf
    <2>3. CASE At(p, "commitchat")
      BY <1>3, <2>3, RekeyedKeys DEF Commits, At, InUse, KeysOf
    <2>4. QED
      BY <2>2, <2>3 DEF Commits
  <1>5. NothingLost'
    BY <1>2, <1>3, <1>4 DEF IInv, NothingLost, Kept, CopyKeys, KeysOf
  <1>6. InStep'
    <2>1. \A q \in proc' : /\ q.at \in {"commitchat", "verify"} /\ q.run = p.run
                           /\ q.old = p.old /\ q.new = p.new
      BY GoesFields DEF Commits, IInv
    <2>2. \A c \in copies : CopyKeys(c)' = CopyKeys(c)
      BY DEF CopyKeys, KeysOf
    <2>3. QED
      BY <1>1, <1>2, <1>3, <2>1, <2>2, InStepByRun
         DEF GuidedInStep, FilesInStep, HandInStep, Guided, Commits, At
  <1>7. QED
    BY <1>1, <1>2, <1>5, <1>6 DEF IInv, NetIsSpent, KeptKnown

LEMMA ReadBackIInv == ASSUME IInv, TypeOK', NEW p \in proc, ReadBack(p) PROVE IInv'
  <1> USE DEF KeysStay, DataStays, EnvStays, ownerVars
  <1>1. p.run = "guided" /\ GuidedInStep(p) /\ said = "nothing"
    BY RotationRuns DEF ReadBack, At, Guided, HandInStep
  <1>2. NothingLost' /\ Kept' = Kept /\ InUse' = InUse
    BY KeysUntouched DEF ReadBack, IInv
  <1>3. InStep' /\ proc' = {}
    BY EndsInStep DEF ReadBack, Ends, Nothing
  <1>4. env = p.new /\ net = {p.old} /\ p.old \notin InUse /\ p.new # p.old /\ p.new # NoKey
    BY <1>1 DEF ReadBack, At, GuidedInStep, FilesInStep
  <1>5. NetIsSpent'
    BY <1>2, <1>3, <1>4 DEF NetIsSpent, ReadBack
  <1>6. QED
    BY <1>2, <1>3, <1>5 DEF IInv, KeptKnown, ReadBack

LEMMA OwnerIInv == IInv /\ TypeOK' /\ Owner => IInv'
  <1> SUFFICES ASSUME IInv, TypeOK', Owner PROVE IInv'
    OBVIOUS
  <1>1. UNCHANGED <<app, chat, proc, keys>> /\ proc = {}
    BY DEF Owner, MoveNet, DeleteNets, SetKey, Install, ByHand, Nothing
  <1>2. InUse' = InUse /\ \A c \in copies : CopyKeys(c)' = CopyKeys(c)
    BY <1>1 DEF InUse, KeysOf, CopyKeys
  <1>3. InStep'
    BY <1>1 DEF InStep
  <1>4. CASE MoveNet \/ SetKey \/ Install
    <2>1. Kept' = Kept /\ copies' = copies
      BY <1>4 DEF MoveNet, SetKey, Install, Kept
    <2>2. NetIsSpent'
      BY <1>1, <1>2, <1>4 DEF MoveNet, SetKey, Install, IInv, NetIsSpent
    <2>3. QED
      BY <1>1, <1>2, <1>3, <2>1, <2>2 DEF IInv, NothingLost, KeptKnown
  <1>5. CASE DeleteNets
    <2>1. Kept' = (Kept \ net) \cup {env} \cup safe /\ copies' \subseteq copies
      BY <1>5 DEF DeleteNets, Kept, IInv, TypeOK, Keys, NoKey
    <2>2. net \cap InUse = {} /\ env # NoKey /\ NetIsSpent'
      BY <1>1, <1>2, <1>5 DEF DeleteNets, IInv, NetIsSpent
    <2>3. NothingLost'
      BY <1>2, <1>5, <2>1, <2>2 DEF DeleteNets, IInv, NothingLost
    <2>4. Kept' \subseteq Kept
      BY <2>1, <2>2 DEF Kept, IInv, TypeOK, Keys, NoKey
    <2>5. QED
      BY <1>1, <1>3, <2>2, <2>3, <2>4 DEF IInv, KeptKnown
  <1>6. QED
    BY <1>4, <1>5 DEF Owner

THEOREM Invariance == Spec => []IInv
  <1>1. IInv /\ TypeOK' /\ [Next]_vars => IInv'
    <2> SUFFICES ASSUME IInv, TypeOK', [Next]_vars PROVE IInv'
      OBVIOUS
    <2>1. CASE Rotation
      BY <2>1, StartGuidedIInv, StartHandIInv, FilesIInv, RewriteIInv, CommitsIInv, ReadBackIInv
         DEF Rotation
    <2>2. CASE Crash
      <3>1. NothingLost' /\ Kept' = Kept /\ InUse' = InUse
        BY <2>2, KeysUntouched DEF Crash, fileVars, ownerVars, IInv
      <3>2. QED
        BY <2>2, <3>1, EndsInStep
           DEF Crash, fileVars, ownerVars, IInv, KeptKnown, NetIsSpent, Ends, Nothing
    <2>3. CASE UNCHANGED vars
      BY <2>3 DEF vars, fileVars, ownerVars, IInv, NothingLost, KeptKnown, Kept, InUse, CopyKeys,
                  KeysOf, InStep, AppInStep, HandInStep, RestoreInStep, GuidedInStep, FilesInStep,
                  NetIsSpent
    <2>4. QED
      BY <2>1, <2>2, <2>3, ApplicationIInv, RestoringIInv, OwnerIInv DEF Next
  <1>2. QED
    BY <1>1, InitIInv, TypeCorrect, PTL DEF Spec

\* No key that stored data or a prerekey copy needs is ever lost.
THEOREM NothingIsLost == Spec => []NothingLost
  <1>1. IInv => NothingLost
    BY DEF IInv
  <1>2. QED
    BY <1>1, Invariance, PTL

\* A guided rotation that says it is done has rewritten every value of both databases.
THEOREM DoneIsReadable == Spec => DoneMeansReadable
  <1> DEFINE Done == \A p \in proc : said' = "done" /\ said # "done" =>
                        /\ env' = p.new /\ net' = {p.old}
                        /\ p.old \notin InUse' /\ (p.allow \/ InUse' \subseteq {p.new})
  <1>1. IInv /\ [Next]_vars => [Done]_vars
    <2> SUFFICES ASSUME IInv, Next, NEW p \in proc, said' = "done", said # "done"
                 PROVE  /\ env' = p.new /\ net' = {p.old}
                        /\ p.old \notin InUse' /\ (p.allow \/ InUse' \subseteq {p.new})
      BY DEF vars
    <2>1. PICK q \in proc : ReadBack(q)
      <3>1. ~Application
        BY DEF Application, StartApp, BackUp, Prune, Migrate, Serve, StopApp, FilesOnly
      <3>2. ~Restoring
        BY DEF Restoring, StartRestore, KeepCurrent, Swap, EndRestore, FilesOnly
      <3>3. ~Owner /\ ~Crash
        BY DEF Owner, MoveNet, DeleteNets, SetKey, Install, Crash
      <3>4. QED
        BY <3>1, <3>2, <3>3 DEF Next, Rotation, StartGuided, StartHand, WriteFiles, Plan, Copies,
           Commits, Verify, Fails, AfterFailure, PutBack
    <2>2. q = p
      BY DEF IInv, TypeOK
    <2>3. p.run = "guided" /\ GuidedInStep(p)
      BY <2>1, <2>2, RotationRuns DEF ReadBack, At, Guided, HandInStep
    <2>4. InUse' = InUse /\ env' = env /\ net' = net
      BY <2>1 DEF ReadBack, DataStays, EnvStays, InUse, KeysOf
    <2>5. QED
      BY <2>1, <2>2, <2>3, <2>4 DEF ReadBack, At, GuidedInStep, FilesInStep
  <1>2. QED
    BY <1>1, Invariance, PTL DEF Spec, DoneMeansReadable

-----------------------------------------------------------------------------
(* The way back *)

Stamped == \A c \in copies : c.stamp < clock
HasCopy(data) == \E c \in copies : c.of = "app" /\ c.data = data

\* The database is untouched, or its copy is made, and spared for being the newest.
CopiedInTime(p) ==
    /\ p.at \in {"starting", "pruning", "opennet", "fillnet", "openenv", "fillenv", "plan",
                 "copyapp", "keeping"} => app = p.base
    /\ p.at = "pruning" =>
          \E c \in copies : c.of = "app" /\ c.data = p.base /\ c.stamp = clock - 1
    /\ p.at \in {"migrating", "copychat", "commitapp", "swapping"} => HasCopy(p.base)

WayBackInv == Stamped /\ WayBack /\ (Keep > 0 => \A p \in proc : CopiedInTime(p))

\* The newest copy is never surplus.
LEMMA NewestStays ==
    ASSUME Keep > 0, Stamped, NEW c \in copies, c.stamp = clock - 1, clock \in Nat,
           \A d \in copies : d.stamp \in Nat
    PROVE  c \notin Surplus
  <1>1. Newer(c) = {}
    BY DEF Newer, Stamped
  <1>2. Cardinality(Newer(c)) = 0
    BY <1>1, FS_EmptySet
  <1>3. QED
    BY <1>2, ConstantsAssumption DEF Surplus

\* A step of p that only adds copies and leaves the database as it was.
LEMMA GoesBack ==
    ASSUME WayBackInv, TypeOK, Keep > 0, NEW p \in proc, NEW stage, Goes(p, stage),
           app' = app, copies \subseteq copies',
           \/ stage \notin {"starting", "pruning", "opennet", "fillnet", "openenv", "fillenv",
                           "plan", "copyapp", "keeping", "migrating", "copychat", "commitapp",
                           "swapping"}
              /\ (p.at # "serving")
           \/ /\ stage \in {"fillnet", "openenv", "fillenv", "plan", "copyapp"}
              /\ p.at \in {"opennet", "fillnet", "openenv", "fillenv", "plan"}
           \/ /\ stage \in {"migrating", "copychat", "commitapp", "swapping"}
              /\ HasCopy(p.base)'
    PROVE  WayBack' /\ \A q \in proc' : CopiedInTime(q)'
  <1>1. PICK q \in {[p EXCEPT !.at = stage]} : proc' = {q}
    BY DEF Goes
  <1>2. q.at = stage /\ q.base = p.base
    BY DEF TypeOK, Program
  <1>3. HasCopy(p.base) => HasCopy(p.base)'
    BY DEF HasCopy
  <1>4. app = p.base \/ HasCopy(p.base) \/ p.at = "serving"
    BY DEF WayBackInv, WayBack, HasCopy
  <1>5. CopiedInTime(q)'
    BY <1>2, <1>3 DEF WayBackInv, CopiedInTime
  <1>6. app' = q.base \/ HasCopy(q.base)'
    BY <1>2, <1>3, <1>4 DEF WayBackInv, CopiedInTime
  <1>7. QED
    BY <1>1, <1>5, <1>6 DEF WayBack, HasCopy

LEMMA CopiedHas ==
    ASSUME NEW of, NEW label, NEW data, Copied(of, label, data)
    PROVE  /\ copies \subseteq copies' /\ clock' = clock + 1
           /\ \E c \in copies' : c.of = of /\ c.data = data /\ c.stamp = clock
  <1> DEFINE c == [of |-> of, label |-> label, stamp |-> clock, data |-> data]
  <1>1. c.of = of /\ c.data = data /\ c.stamp = clock
    OBVIOUS
  <1>2. c \in copies' /\ copies \subseteq copies' /\ clock' = clock + 1
    BY DEF Copied
  <1>3. QED
    BY <1>1, <1>2

\* A program that is launched finds the database as its base.
LEMMA LaunchBack ==
    ASSUME NEW name, NEW old, NEW new, NEW allow, NEW chosen,
           NEW stage \in {"starting", "opennet", "plan", "keeping"},
           Launch(name, stage, old, new, allow, chosen), app' = app
    PROVE  WayBack' /\ \A q \in proc' : CopiedInTime(q)'
  <1>1. PICK q \in proc' : proc' = {q} /\ q.at = stage /\ q.base = app
    BY DEF Launch
  <1>2. QED
    BY <1>1 DEF WayBack, CopiedInTime

LEMMA EndsBack == Ends => WayBack' /\ \A q \in proc' : CopiedInTime(q)'
  BY DEF Ends, Nothing, WayBack

LEMMA StampedStays ==
    ASSUME Stamped, TypeOK,
           \/ copies' \subseteq copies /\ clock' = clock
           \/ \E of, label, data : Copied(of, label, data)
    PROVE  Stamped'
  <1>1. clock \in Nat /\ \A c \in copies : c.stamp \in Nat
    BY DEF TypeOK, Copy
  <1>2. CASE copies' \subseteq copies /\ clock' = clock
    BY <1>2 DEF Stamped
  <1>3. ASSUME NEW of, NEW label, NEW data, Copied(of, label, data) PROVE Stamped'
    <2> DEFINE c == [of |-> of, label |-> label, stamp |-> clock, data |-> data]
    <2>1. c.stamp = clock
      OBVIOUS
    <2>2. copies' = copies \cup {c} /\ clock' = clock + 1
      BY <1>3 DEF Copied
    <2>3. QED
      BY <1>1, <2>1, <2>2 DEF Stamped
  <1>4. QED
    BY <1>2, <1>3

LEMMA ApplicationBack ==
    ASSUME WayBackInv, TypeOK, TypeOK', Keep > 0, Application
    PROVE  WayBackInv'
  <1> USE DEF FilesOnly
  <1>1. Stamped'
    BY StampedStays DEF WayBackInv, Application, StartApp, BackUp, Prune, Migrate, Serve, StopApp, fileVars
  <1>2. WayBack' /\ \A q \in proc' : CopiedInTime(q)'
    <2>1. CASE StartApp
      BY <2>1, LaunchBack DEF StartApp, fileVars
    <2>2. ASSUME NEW p \in proc, BackUp(p) PROVE WayBack' /\ \A q \in proc' : CopiedInTime(q)'
      <3>1. CASE Ends
        BY <3>1, EndsBack
      <3>2. CASE Goes(p, "serving")
        BY <2>2, <3>2, GoesBack DEF BackUp, At, Copied
      <3>3. CASE Goes(p, "pruning") /\ Copied("app", "migration", app)
        <4>1. app = p.base /\ app' = app
          BY <2>2 DEF BackUp, At, WayBackInv, CopiedInTime
        <4>2. PICK q \in proc' : proc' = {q} /\ q.at = "pruning" /\ q.base = p.base
          BY <3>3 DEF Goes, TypeOK, Program
        <4>3. PICK c \in copies' : c.of = "app" /\ c.data = app /\ c.stamp = clock
          BY <3>3, CopiedHas
        <4>4. clock' - 1 = clock
          BY <3>3 DEF Copied, TypeOK
        <4>5. QED
          BY <4>1, <4>2, <4>3, <4>4 DEF WayBack, CopiedInTime
      <3>4. QED
        BY <2>2, <3>1, <3>2, <3>3 DEF BackUp
    <2>3. ASSUME NEW p \in proc, Prune(p) PROVE WayBack' /\ \A q \in proc' : CopiedInTime(q)'
      <3>1. PICK c \in copies : c.of = "app" /\ c.data = p.base /\ c.stamp = clock - 1
        BY <2>3 DEF Prune, At, WayBackInv, CopiedInTime
      <3>2. c \notin Surplus
        BY <3>1, NewestStays DEF WayBackInv, TypeOK, Copy
      <3>3. PICK q \in proc' : proc' = {q} /\ q.at = "migrating" /\ q.base = p.base
        BY <2>3 DEF Prune, Goes, TypeOK, Program
      <3>4. HasCopy(p.base)'
        BY <2>3, <3>1, <3>2 DEF Prune, HasCopy
      <3>5. QED
        BY <3>3, <3>4 DEF WayBack, CopiedInTime, HasCopy
    <2>4. ASSUME NEW p \in proc, Migrate(p) PROVE WayBack' /\ \A q \in proc' : CopiedInTime(q)'
      <3>1. CASE Ends
        BY <3>1, EndsBack
      <3>2. CASE \E stage \in {"serving", "migrating"} : Goes(p, stage)
        <4>1. PICK q \in proc' : /\ proc' = {q} /\ q.base = p.base
                               /\ q.at \in {"serving", "migrating"}
          BY <3>2 DEF Goes, TypeOK, Program
        <4>2. HasCopy(p.base)'
          BY <2>4 DEF Migrate, At, WayBackInv, CopiedInTime, HasCopy
        <4>3. QED
          BY <4>1, <4>2 DEF WayBack, CopiedInTime, HasCopy
      <3>3. QED
        BY <2>4, <3>1, <3>2 DEF Migrate
    <2>5. ASSUME NEW p \in proc, Serve(p) PROVE WayBack' /\ \A q \in proc' : CopiedInTime(q)'
      <3>1. app'.rev = app.rev /\ copies' = copies /\ proc' = proc
        BY <2>5 DEF Serve, TypeOK, AppData
      <3>2. proc = {p} /\ p.at = "serving"
        BY <2>5 DEF Serve, At, TypeOK
      <3>3. QED
        BY <3>1, <3>2 DEF WayBackInv, WayBack, CopiedInTime
    <2>6. ASSUME NEW p \in proc, StopApp(p) PROVE WayBack' /\ \A q \in proc' : CopiedInTime(q)'
      BY <2>6, EndsBack DEF StopApp
    <2>7. QED
      BY <2>1, <2>2, <2>3, <2>4, <2>5, <2>6 DEF Application
  <1>3. QED
    BY <1>1, <1>2 DEF WayBackInv

LEMMA RestoringBack ==
    ASSUME WayBackInv, TypeOK, TypeOK', Keep > 0, Restoring
    PROVE  WayBackInv'
  <1> USE DEF FilesOnly
  <1>1. Stamped'
    BY StampedStays DEF WayBackInv, Restoring, StartRestore, KeepCurrent, Swap, EndRestore, fileVars
  <1>2. WayBack' /\ \A q \in proc' : CopiedInTime(q)'
    <2>1. CASE StartRestore
      BY <2>1, LaunchBack DEF StartRestore, fileVars
    <2>2. ASSUME NEW p \in proc, KeepCurrent(p) PROVE WayBack' /\ \A q \in proc' : CopiedInTime(q)'
      <3>1. app = p.base
        BY <2>2 DEF KeepCurrent, At, WayBackInv, CopiedInTime
      <3>2. HasCopy(p.base)' /\ copies \subseteq copies'
        BY <2>2, <3>1, CopiedHas DEF KeepCurrent, HasCopy
      <3>3. QED
        BY <2>2, <3>2, GoesBack DEF KeepCurrent
    <2>3. ASSUME NEW p \in proc, Swap(p) PROVE WayBack' /\ \A q \in proc' : CopiedInTime(q)'
      <3>1. PICK q \in proc' : proc' = {q} /\ q.base = p.base /\ q.at = "over"
        BY <2>3 DEF Swap, Goes, TypeOK, Program
      <3>2. HasCopy(p.base)'
        BY <2>3 DEF Swap, At, WayBackInv, CopiedInTime, HasCopy
      <3>3. QED
        BY <3>1, <3>2 DEF WayBack, CopiedInTime, HasCopy
    <2>4. ASSUME NEW p \in proc, EndRestore(p) PROVE WayBack' /\ \A q \in proc' : CopiedInTime(q)'
      BY <2>4, EndsBack DEF EndRestore
    <2>5. QED
      BY <2>1, <2>2, <2>3, <2>4 DEF Restoring
  <1>3. QED
    BY <1>1, <1>2 DEF WayBackInv

LEMMA RotationBack ==
    ASSUME WayBackInv, IInv, TypeOK, TypeOK', Keep > 0, Rotation
    PROVE  WayBackInv'
  <1> USE DEF DataStays
  <1>1. Stamped'
    BY StampedStays DEF WayBackInv, Rotation, StartGuided, StartHand, WriteFiles, Plan, Copies,
       Commits, Verify, ReadBack, Fails, AfterFailure, PutBack, fileVars
  <1>2. WayBack' /\ \A q \in proc' : CopiedInTime(q)'
    <2>1. CASE StartGuided
      BY <2>1, LaunchBack DEF StartGuided, fileVars
    <2>2. CASE StartHand
      BY <2>2, LaunchBack DEF StartHand, fileVars
    <2>3. ASSUME NEW p \in proc,
                 WriteFiles(p) \/ Plan(p) \/ Verify(p) \/ Fails(p) \/ AfterFailure(p) \/ PutBack(p)
          PROVE  WayBack' /\ \A q \in proc' : CopiedInTime(q)'
      <3>1. CASE Ends
        BY <3>1, EndsBack
      <3>2. CASE ~Ends
        BY <2>3, <3>2, GoesBack DEF WriteFiles, Plan, Verify, Fails, AfterFailure, PutBack, At
      <3>3. QED
        BY <3>1, <3>2
    <2>4. ASSUME NEW p \in proc, Copies(p) PROVE WayBack' /\ \A q \in proc' : CopiedInTime(q)'
      <3>1. copies \subseteq copies'
        BY <2>4 DEF Copies, Copied
      <3>2. HasCopy(p.base)'
        <4>1. CASE At(p, "copyapp")
          BY <2>4, <4>1, CopiedHas DEF Copies, At, WayBackInv, CopiedInTime, HasCopy
        <4>2. CASE At(p, "copychat")
          BY <2>4, <3>1, <4>2 DEF At, WayBackInv, CopiedInTime, HasCopy
        <4>3. QED
          BY <2>4, <4>1, <4>2 DEF Copies
      <3>3. QED
        BY <2>4, <3>1, <3>2, GoesBack DEF Copies
    <2>5. ASSUME NEW p \in proc, Commits(p) PROVE WayBack' /\ \A q \in proc' : CopiedInTime(q)'
      <3>1. CASE At(p, "commitapp")
        <4>1. PICK q \in proc' : proc' = {q} /\ q.base = p.base /\ q.at = "commitchat"
          <5>1. Goes(p, "commitchat")
            BY <2>5, <3>1 DEF Commits, At
          <5>2. QED
            BY <5>1 DEF Goes, TypeOK, Program
        <4>2. HasCopy(p.base)'
          BY <2>5, <3>1 DEF Commits, At, WayBackInv, CopiedInTime, HasCopy
        <4>3. QED
          BY <4>1, <4>2 DEF WayBack, CopiedInTime, HasCopy
      <3>2. CASE At(p, "commitchat")
        BY <2>5, <3>2, GoesBack DEF Commits, At
      <3>3. QED
        BY <2>5, <3>1, <3>2 DEF Commits
    <2>6. ASSUME NEW p \in proc, ReadBack(p) PROVE WayBack' /\ \A q \in proc' : CopiedInTime(q)'
      BY <2>6, EndsBack DEF ReadBack
    <2>7. QED
      BY <2>1, <2>2, <2>3, <2>4, <2>5, <2>6 DEF Rotation
  <1>3. QED
    BY <1>1, <1>2 DEF WayBackInv

\* An operation under way on the application database can be undone, however many copies
\* are kept as long as one is.
THEOREM ThereIsAWayBack == Spec => []WayBack
  <1>1. Init => WayBackInv
    BY DEF Init, WayBackInv, Stamped, WayBack, Nothing
  <1>2. WayBackInv /\ IInv /\ IInv' /\ [Next]_vars => WayBackInv'
    <2> SUFFICES ASSUME WayBackInv, IInv, IInv', [Next]_vars PROVE WayBackInv'
      OBVIOUS
    <2>1. TypeOK /\ TypeOK'
      BY DEF IInv
    <2>2. Stamped'
      BY <2>1, StampedStays
         DEF WayBackInv, vars, fileVars, Next, Application, StartApp, BackUp, Prune, Migrate, Serve,
             StopApp, Restoring, StartRestore, KeepCurrent, Swap, EndRestore, Rotation, StartGuided,
             StartHand, WriteFiles, Plan, Copies, Commits, Verify, ReadBack, Fails, AfterFailure,
             PutBack, DataStays, Owner, MoveNet, DeleteNets, SetKey, Install, ByHand, Crash
    <2>3. CASE ~(Keep > 0)
      BY <2>2, <2>3 DEF WayBackInv, WayBack
    <2>4. CASE Keep > 0 /\ (Owner \/ Crash \/ UNCHANGED vars)
      <3>1. proc' = {} \/ UNCHANGED <<app, copies, clock, proc>>
        BY <2>4 DEF Owner, MoveNet, DeleteNets, SetKey, Install, ByHand, Crash, Ends, Nothing, vars, fileVars
      <3>2. QED
        BY <2>2, <3>1 DEF WayBackInv, WayBack, CopiedInTime, HasCopy
    <2>5. QED
      BY <2>1, <2>3, <2>4, ApplicationBack, RestoringBack, RotationBack DEF Next
  <1>3. WayBackInv => WayBack
    BY DEF WayBackInv
  <1>4. QED
    BY <1>1, <1>2, <1>3, Invariance, PTL DEF Spec
=============================================================================
