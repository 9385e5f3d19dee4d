------------------------- MODULE ModelStore_proofs -------------------------
(***************************************************************************)
(* The claims of the models directory, for any number of names, files and  *)
(* jobs: a name has at most one claim, claims match the jobs that need     *)
(* them, and that is what keeps a model from being replaced by a job that  *)
(* was not told to. Where every SHA256 is known, models are whole files,   *)
(* and the directory implements ModelLibrary.                              *)
(***************************************************************************)
EXTENDS ModelStore, SequenceTheorems, TLAPS

\* Names and files exist: the initial value of a job is one of each.
Inhabited == Names # {} /\ Files # {}

-----------------------------------------------------------------------------
(* The inductive invariant *)

\* Two jobs never hold the same name.
OneClaim ==
    \A j, k \in Jobs : Claims(j) /\ Claims(k) /\ job[j].name = job[k].name => j = k

\* A job without force holds a name that no model has: looked at before the claim, and
\* kept true by it.
ClaimedIsFree ==
    \A j \in Jobs : Claims(j) /\ ~job[j].force /\ job[j].stage # "recording"
                       => job[j].name \notin DOMAIN file

\* The stages at which a job works on its .part, which is then there.
Writing == {"copying", "receiving", "checking", "checked"}
PartIsThere ==
    \A j \in Jobs : job[j].stage \in Writing =>
        job[j].name \in DOMAIN part

\* An import is never at a stage of a pull, nor a pull at that of an import.
StagesFit ==
    \A j \in Jobs :
        /\ Imports(j) => job[j].stage \notin Pulling
        /\ ~Imports(j) => job[j].stage # "copying"

Inv == TypeOK /\ ClaimsMatchJobs /\ OneClaim /\ ClaimedIsFree /\ PartIsThere /\ StagesFit

LEMMA InvAtStart ==
    ASSUME Inhabited
    PROVE  Init => Inv
<1> SUFFICES ASSUME Init PROVE Inv  OBVIOUS
<1> DEFINE f == CHOOSE x \in Files : TRUE
           n == CHOOSE x \in Names : TRUE
<1>1. f \in Files /\ n \in Names  BY DEF Inhabited
<1>2. job = [j \in Jobs |-> NoJob(f, n)]  BY DEF Init
<1>3. NoJob(f, n) \in Job /\ NoJob(f, n).stage = "done"
  BY <1>1 DEF NoJob, Job, Final
<1> HIDE DEF f, n
<1>4. \A j \in Jobs : job[j] \in Job /\ job[j].stage = "done" /\ ~Claims(j)
  BY <1>2, <1>3 DEF Claims, Pulling, Running
<1>5. TypeOK
  BY <1>2, <1>3 DEF Init, TypeOK, IsDirectory, NoFiles
<1> QED
  BY <1>4, <1>5 DEF Init, Inv, ClaimsMatchJobs, OneClaim, ClaimedIsFree, PartIsThere,
     StagesFit, Writing, Pulling

-----------------------------------------------------------------------------
(* Tables of the directory *)

LEMMA PutKeepsDirectory ==
    ASSUME NEW d, IsDirectory(d), NEW n \in Names, NEW c \in Seq(Files)
    PROVE  IsDirectory(Put(d, n, c)) /\ DOMAIN Put(d, n, c) = DOMAIN d \cup {n}
BY DEF IsDirectory, Put

LEMMA DropKeepsDirectory ==
    ASSUME NEW d, IsDirectory(d), NEW n
    PROVE  IsDirectory(Drop(d, n)) /\ DOMAIN Drop(d, n) = DOMAIN d \ {n}
BY DEF IsDirectory, Drop

-----------------------------------------------------------------------------
(* Steps of a job seen from the claims *)

\* A step of job j touches its own name only: no other loses its .part or gains a model.
OwnName(j) ==
    /\ \A n \in Names \ {job[j].name} : n \in DOMAIN part => n \in DOMAIN part'
    /\ \A n \in Names \ {job[j].name} : n \in DOMAIN file' => n \in DOMAIN file

\* What the invariant says of a job that has become r.
Fits(r) ==
    /\ r.stage \in Writing => r.name \in DOMAIN part'
    /\ r.file \in Local => r.stage \notin Pulling
    /\ r.file \notin Local => r.stage # "copying"

LEMMA OthersAsTheyWere ==
    ASSUME TypeOK, NEW j \in Jobs, NEW r \in Job, job' = [job EXCEPT ![j] = r]
    PROVE  /\ job'[j] = r
           /\ \A k \in Jobs : k # j => job'[k] = job[k] /\ (Claims(k)' <=> Claims(k))
BY DEF TypeOK, Claims, Imports

LEMMA WritersClaim ==
    ASSUME Inv, NEW j \in Jobs, job[j].stage \in Writing
    PROVE  Claims(j)
BY DEF Inv, StagesFit, Claims, Writing, Pulling, Running, Imports

\* The parts of the invariant that say nothing of claims.
LEMMA StagesAndParts ==
    ASSUME Inv, NEW j \in Jobs, NEW r \in Job, job' = [job EXCEPT ![j] = r], Fits(r),
           \/ UNCHANGED part
           \/ Claims(j) /\ OwnName(j)
    PROVE  PartIsThere' /\ StagesFit'
<1>1. TypeOK  BY DEF Inv
<1>2. PartIsThere'
  <2> SUFFICES ASSUME NEW k \in Jobs, job'[k].stage \in Writing
               PROVE  job'[k].name \in DOMAIN part'
    BY DEF PartIsThere
  <2>1. CASE k = j
    <3>1. job'[j] = r  BY <1>1, OthersAsTheyWere
    <3> QED  BY <2>1, <3>1 DEF Fits
  <2>2. CASE k # j
    <3>1. job'[k] = job[k]  BY <1>1, <2>2, OthersAsTheyWere
    <3>2. job[k].name \in Names /\ job[k].name \in DOMAIN part /\ Claims(k)
      BY <1>1, <3>1, WritersClaim DEF TypeOK, Job, Inv, PartIsThere
    <3>3. Claims(j) => job[k].name # job[j].name  BY <3>2, <2>2 DEF Inv, OneClaim
    <3> QED  BY <3>1, <3>2, <3>3 DEF OwnName
  <2> QED  BY <2>1, <2>2
<1>3. StagesFit'  BY <1>1, OthersAsTheyWere DEF Inv, StagesFit, Imports, Fits
<1> QED  BY <1>2, <1>3

\* A job that holds its name and goes on holding it.
LEMMA HoldingStep ==
    ASSUME Inv, TypeOK', NEW j \in Jobs, NEW r \in Job, job' = [job EXCEPT ![j] = r],
           r.name = job[j].name, r.force = job[j].force, Fits(r), OwnName(j),
           UNCHANGED active, Claims(j), Claims(j)',
           ~r.force /\ r.stage # "recording" =>
               job[j].stage # "recording" /\ r.name \notin DOMAIN file'
    PROVE  Inv'
<1>1. /\ job'[j] = r
      /\ \A k \in Jobs : k # j => job'[k] = job[k] /\ (Claims(k)' <=> Claims(k))
  BY OthersAsTheyWere DEF Inv
<1>2. \A k \in Jobs : job[k].name \in Names  BY DEF Inv, TypeOK, Job
<1>3. ClaimsMatchJobs'  BY <1>1 DEF Inv, ClaimsMatchJobs
<1>4. OneClaim'  BY <1>1 DEF Inv, OneClaim
<1>5. ClaimedIsFree'
  BY <1>1, <1>2 DEF Inv, ClaimedIsFree, OneClaim, OwnName
<1>6. PartIsThere' /\ StagesFit'  BY StagesAndParts
<1> QED  BY <1>3, <1>4, <1>5, <1>6 DEF Inv

\* A job that ends or, for a pull, has put its model in place: its claim goes with it.
LEMMA ReleasingStep ==
    ASSUME Inv, TypeOK', NEW j \in Jobs, NEW r \in Job, job' = [job EXCEPT ![j] = r],
           Fits(r), OwnName(j), Claims(j), ~Claims(j)',
           active' = active \ {job[j].name}
    PROVE  Inv'
<1>1. /\ job'[j] = r
      /\ \A k \in Jobs : k # j => job'[k] = job[k] /\ (Claims(k)' <=> Claims(k))
  BY OthersAsTheyWere DEF Inv
<1>2. \A k \in Jobs : job[k].name \in Names  BY DEF Inv, TypeOK, Job
<1>3. ClaimsMatchJobs'  BY <1>1 DEF Inv, ClaimsMatchJobs, OneClaim
<1>4. OneClaim'  BY <1>1 DEF Inv, OneClaim
<1>5. ClaimedIsFree'
  BY <1>1, <1>2 DEF Inv, ClaimedIsFree, OneClaim, OwnName
<1>6. PartIsThere' /\ StagesFit'  BY StagesAndParts
<1> QED  BY <1>3, <1>4, <1>5, <1>6 DEF Inv

\* A job that takes a name nobody holds, and that is free unless it was told to replace.
LEMMA ClaimingStep ==
    ASSUME Inv, TypeOK', NEW j \in Jobs, NEW r \in Job, job' = [job EXCEPT ![j] = r],
           Fits(r), ~Claims(j), Claims(j)', Claim(r.name), Free(r.name, r.force),
           UNCHANGED dirVars
    PROVE  Inv'
<1>1. /\ job'[j] = r
      /\ \A k \in Jobs : k # j => job'[k] = job[k] /\ (Claims(k)' <=> Claims(k))
  BY OthersAsTheyWere DEF Inv
<1>2. ClaimsMatchJobs'  BY <1>1 DEF Inv, ClaimsMatchJobs, Claim
<1>3. OneClaim'  BY <1>1 DEF Inv, ClaimsMatchJobs, OneClaim, Claim
<1>4. ClaimedIsFree'  BY <1>1 DEF Inv, ClaimedIsFree, Free, dirVars
<1>5. PartIsThere' /\ StagesFit'  BY StagesAndParts DEF dirVars
<1> QED  BY <1>2, <1>3, <1>4, <1>5 DEF Inv

\* A job that holds nothing, before and after.
LEMMA FreeStep ==
    ASSUME Inv, TypeOK', NEW j \in Jobs, NEW r \in Job, job' = [job EXCEPT ![j] = r],
           Fits(r), ~Claims(j), ~Claims(j)', UNCHANGED <<dirVars, active>>
    PROVE  Inv'
<1>1. /\ job'[j] = r
      /\ \A k \in Jobs : k # j => job'[k] = job[k] /\ (Claims(k)' <=> Claims(k))
  BY OthersAsTheyWere DEF Inv
<1>2. ClaimsMatchJobs'  BY <1>1 DEF Inv, ClaimsMatchJobs
<1>3. OneClaim'  BY <1>1 DEF Inv, OneClaim
<1>4. ClaimedIsFree'  BY <1>1 DEF Inv, ClaimedIsFree, dirVars
<1>5. PartIsThere' /\ StagesFit'  BY StagesAndParts DEF dirVars
<1> QED  BY <1>2, <1>3, <1>4, <1>5 DEF Inv

-----------------------------------------------------------------------------
(* The actions *)

\* A job sent to another stage keeps its request.
Sent(j, stage) == [job[j] EXCEPT !.stage = stage]

LEMMA SentIsJob ==
    ASSUME TypeOK, NEW j \in Jobs, NEW stage \in Final \cup Running
    PROVE  /\ Sent(j, stage) \in Job
           /\ Sent(j, stage).name = job[j].name /\ Sent(j, stage).file = job[j].file
           /\ Sent(j, stage).force = job[j].force /\ Sent(j, stage).stage = stage
           /\ GoTo(j, stage) => job' = [job EXCEPT ![j] = Sent(j, stage)]
BY DEF TypeOK, Job, Sent, GoTo

LEMMA Requests ==
    ASSUME Inv, NEW j \in Jobs, NEW f \in Files, NEW n \in Names, NEW force \in BOOLEAN,
           AskImport(j, f, n, force) \/ AskPull(j, f, n, force)
    PROVE  Inv'
<1> DEFINE r == [file |-> f, name |-> n, force |-> force, stage |-> "asked", digest |-> <<>>]
<1>1. r \in Job  BY DEF Job, Running
<1>2. /\ job' = [job EXCEPT ![j] = r] /\ Free(n, force)
      /\ UNCHANGED <<dirVars, crashes>> /\ asks' = asks + 1
      /\ job[j].stage \in Final
  BY DEF AskImport, AskPull, Ask
<1>3. TypeOK  BY DEF Inv
<1>4. TypeOK'
  BY <1>1, <1>2, <1>3 DEF TypeOK, dirVars, IsDirectory, AskImport, AskPull, Claim
<1>5. ~Claims(j)  BY <1>2 DEF Claims, Final, Pulling, Running
<1>6. Fits(r)  BY DEF Fits, Writing, Pulling
<1>7. job'[j] = r  BY <1>2, <1>3 DEF TypeOK
<1>8. CASE AskImport(j, f, n, force)
  <2>1. Claims(j)'  BY <1>7, <1>8 DEF AskImport, Claims, Imports, Running
  <2> QED  BY <1>1, <1>2, <1>4, <1>5, <1>6, <1>8, <2>1, ClaimingStep DEF AskImport
<1>9. CASE AskPull(j, f, n, force)
  <2>1. ~Claims(j)'
    BY <1>7, <1>9, ConstantsAssumption DEF AskPull, Claims, Imports, Pulling
  <2> QED  BY <1>1, <1>2, <1>4, <1>5, <1>6, <1>9, <2>1, FreeStep DEF AskPull
<1> QED  BY <1>8, <1>9

LEMMA Deletes ==
    ASSUME Inv, NEW n \in Names, Delete(n)
    PROVE  Inv'
<1>1. TypeOK'  BY DropKeepsDirectory DEF Inv, TypeOK, Delete
<1>2. DOMAIN file' \subseteq DOMAIN file
  BY DropKeepsDirectory DEF Inv, TypeOK, Delete
<1>3. UNCHANGED <<job, active, part>>  BY DEF Delete
<1>4. ClaimsMatchJobs' /\ OneClaim' /\ PartIsThere' /\ StagesFit'
  BY <1>3 DEF Inv, ClaimsMatchJobs, OneClaim, PartIsThere, StagesFit, Claims, Imports
<1>5. ClaimedIsFree'  BY <1>2, <1>3 DEF Inv, ClaimedIsFree, Claims, Imports
<1> QED  BY <1>1, <1>4, <1>5 DEF Inv

LEMMA Crashes ==
    ASSUME Inv, Crash
    PROVE  Inv'
<1>1. \A j \in Jobs : /\ job'[j] \in Job /\ job'[j].stage \in Final
                      /\ job'[j].file = job[j].file
  BY DEF Inv, TypeOK, Crash, Job, Final
<1>2. \A j \in Jobs : ~Claims(j)'
  BY <1>1 DEF Claims, Final, Pulling, Running
<1>3. TypeOK'
  <2>1. job' \in [Jobs -> Job]  BY <1>1 DEF Crash
  <2> QED  BY <2>1 DEF Inv, TypeOK, Crash, dirVars, IsDirectory
<1>4. PartIsThere' /\ StagesFit'
  BY <1>1 DEF PartIsThere, StagesFit, Writing, Final, Pulling
<1> QED
  BY <1>2, <1>3, <1>4 DEF Inv, Crash, ClaimsMatchJobs, OneClaim, ClaimedIsFree

\* Ending a job, one way or another, its .part dropped or kept.
LEMMA Ends ==
    ASSUME Inv, NEW j \in Jobs, NEW stage \in Final, job[j].stage \in Running, End(j, stage),
           \/ UNCHANGED part
           \/ Claims(j) /\ part' = Drop(part, job[j].name),
           UNCHANGED <<file, hash, asks, crashes>>
    PROVE  Inv'
<1> DEFINE r == Sent(j, stage)
<1>0. TypeOK  BY DEF Inv
<1>1. /\ r \in Job /\ r.name = job[j].name /\ r.file = job[j].file /\ r.stage = stage
      /\ job' = [job EXCEPT ![j] = r]
  BY <1>0, SentIsJob DEF End
<1> HIDE DEF r
<1>2. IsDirectory(part') /\ \A n \in Names \ {job[j].name} : n \in DOMAIN part => n \in DOMAIN part'
  <2>1. IsDirectory(part)  BY <1>0 DEF TypeOK
  <2>2. IsDirectory(Drop(part, job[j].name)) /\ DOMAIN Drop(part, job[j].name) = DOMAIN part \ {job[j].name}
    BY <2>1, DropKeepsDirectory
  <2> QED  BY <2>1, <2>2
<1>3. TypeOK'
  <2>1. job' \in [Jobs -> Job]  BY <1>0, <1>1 DEF TypeOK
  <2>2. active' \subseteq Names  BY <1>0 DEF TypeOK, End, ReleasedAt
  <2>3. IsDirectory(file)' /\ IsDirectory(hash)' /\ IsDirectory(part)'
    BY <1>0, <1>2 DEF TypeOK, IsDirectory
  <2> QED  BY <1>0, <2>1, <2>2, <2>3 DEF TypeOK
<1>4. ~Claims(j)'
  BY <1>0, <1>1, OthersAsTheyWere DEF Claims, Final, Pulling, Running
<1>5. Fits(r)  BY <1>1 DEF Fits, Writing, Final, Pulling
<1>6. OwnName(j)  BY <1>2 DEF OwnName
<1>7. CASE Claims(j)
  <2>1. active' = active \ {job[j].name}  BY <1>7 DEF End, ReleasedAt
  <2> QED  BY <1>1, <1>3, <1>4, <1>5, <1>6, <1>7, <2>1, ReleasingStep
<1>8. CASE ~Claims(j)
  <2>1. UNCHANGED <<dirVars, active>>  BY <1>8 DEF End, ReleasedAt, dirVars
  <2> QED  BY <1>1, <1>3, <1>4, <1>5, <1>8, <2>1, FreeStep
<1> QED  BY <1>7, <1>8

LEMMA Stops ==
    ASSUME Inv, NEW j \in Jobs, Stop(j)
    PROVE  Inv'
<1>1. PICK stage \in Final : End(j, stage)  BY DEF Stop, Final
<1>2. \/ UNCHANGED part
      \/ Claims(j) /\ part' = Drop(part, job[j].name)
  BY DEF Stop, PartAfterStop, Claims
<1> QED  BY <1>1, <1>2, Ends DEF Stop, Quiet

LEMMA Records ==
    ASSUME Inv, NEW j \in Jobs, Record(j)
    PROVE  Inv'
<1>1. "done" \in Final /\ job[j].stage \in Running  BY DEF Record, Final, Running
<1> QED  BY <1>1, Ends DEF Record, Quiet, dirVars

\* A job that goes on holding its name, and adds no model.
LEMMA Holds ==
    ASSUME Inv, NEW j \in Jobs, NEW r \in Job, job' = [job EXCEPT ![j] = r],
           r.name = job[j].name, r.file = job[j].file, r.force = job[j].force,
           Claims(j), job[j].stage # "recording", r.stage # "recording",
           \/ r.file \in Local /\ r.stage \in Running /\ r.stage \notin Pulling
           \/ r.file \notin Local /\ r.stage \in Pulling,
           r.stage \in Writing => r.name \in DOMAIN part',
           IsDirectory(part'),
           \A n \in Names \ {job[j].name} : n \in DOMAIN part => n \in DOMAIN part',
           UNCHANGED <<file, hash, active, asks, crashes>>
    PROVE  Inv'
<1>1. TypeOK /\ TypeOK'  BY DEF Inv, TypeOK, IsDirectory
<1>2. Claims(j)'  BY <1>1, OthersAsTheyWere DEF Claims, Imports
<1>3. Fits(r)  BY DEF Fits, Pulling
<1>4. OwnName(j)  BY DEF OwnName
<1>5. ~r.force => r.name \notin DOMAIN file'  BY DEF Inv, ClaimedIsFree
<1> QED  BY <1>1, <1>2, <1>3, <1>4, <1>5, HoldingStep

LEMMA AppendKeepsDirectory ==
    ASSUME IsDirectory(part), NEW n, NEW f \in Files, part' = [part EXCEPT ![n] = Append(part[n], f)]
    PROVE  IsDirectory(part') /\ DOMAIN part' = DOMAIN part
<1>1. \A m \in DOMAIN part : part'[m] \in Seq(Files)
  BY AppendProperties DEF IsDirectory
<1> QED  BY <1>1 DEF IsDirectory

LEMMA ImportSteps ==
    ASSUME Inv, NEW j \in Jobs, OpenCopy(j) \/ CopyBlock(j)
    PROVE  Inv'
<1> DEFINE n == job[j].name
<1>0. TypeOK /\ n \in Names /\ job[j].file \in Files /\ job[j] \in Job  BY DEF Inv, TypeOK, Job
<1>1. Claims(j)  BY DEF OpenCopy, CopyBlock, At, Claims, Imports, Running
<1>2. CASE OpenCopy(j)
  <2> DEFINE r == Sent(j, "copying")
  <2>1. /\ r \in Job /\ r.name = job[j].name /\ r.file = job[j].file
        /\ r.force = job[j].force /\ r.stage = "copying"
        /\ job' = [job EXCEPT ![j] = r]
    BY <1>0, <1>2, SentIsJob DEF OpenCopy, Running
  <2> HIDE DEF r
  <2>2. <<>> \in Seq(Files)  OBVIOUS
  <2>3. IsDirectory(part') /\ DOMAIN part' = DOMAIN part \cup {n}
    BY <1>0, <1>2, <2>2, PutKeepsDirectory DEF OpenCopy, TypeOK
  <2>4. r.file \in Local /\ r.stage \in Running /\ r.stage \notin Pulling /\ job[j].stage # "recording"
    BY <1>2, <2>1 DEF OpenCopy, At, Running, Pulling
  <2> QED  BY <1>1, <1>2, <2>1, <2>3, <2>4, Holds DEF OpenCopy, Quiet
<1>3. CASE CopyBlock(j)
  <2>1. job' = [job EXCEPT ![j] = job[j]]  BY <1>0, <1>3 DEF CopyBlock, TypeOK
  <2>2. IsDirectory(part') /\ DOMAIN part' = DOMAIN part
    BY <1>0, <1>3, AppendKeepsDirectory DEF CopyBlock, TypeOK
  <2>3. /\ job[j].file \in Local /\ job[j].stage \in Running /\ job[j].stage \notin Pulling
        /\ job[j].stage = "copying"
    BY <1>3 DEF CopyBlock, At, Running, Pulling
  <2>4. n \in DOMAIN part'  BY <2>2, <2>3 DEF Inv, PartIsThere, Writing
  <2> QED  BY <1>0, <1>1, <1>3, <2>1, <2>2, <2>3, <2>4, Holds DEF CopyBlock, Quiet
<1> QED  BY <1>2, <1>3

\* Opening the .part, keeping it to resume, or leaving it: in every case it is there.
LEMMA Responds ==
    ASSUME Inv, NEW j \in Jobs, Respond(j)
    PROVE  Inv'
<1> DEFINE n == job[j].name
<1>0. /\ TypeOK /\ n \in Names /\ job[j].file \in Files
      /\ job[j].stage = "requesting" /\ job[j].file \in Remote
  BY DEF Inv, TypeOK, Job, Respond, At
<1>1. Claims(j) /\ job[j].file \notin Local
  BY <1>0, ConstantsAssumption DEF Claims, Pulling
<1>2. CASE End(j, "refused") /\ UNCHANGED part
  <2>1. "refused" \in Final /\ job[j].stage \in Running  BY <1>0 DEF Final, Running, Pulling
  <2> QED  BY <1>2, <2>1, Ends DEF Respond, Quiet
<1>3. CASE /\ \/ UNCHANGED part /\ Received(n) > 0
              \/ part' = Put(part, n, <<>>)
           /\ GoTo(j, "receiving") /\ UNCHANGED active
  <2> DEFINE r == Sent(j, "receiving")
  <2>1. /\ r \in Job /\ r.name = n /\ r.file = job[j].file
        /\ r.force = job[j].force /\ r.stage = "receiving"
        /\ job' = [job EXCEPT ![j] = r]
    BY <1>0, <1>3, SentIsJob DEF Running, Pulling
  <2> HIDE DEF r
  <2>2. IsDirectory(part') /\ n \in DOMAIN part' /\ DOMAIN part \subseteq DOMAIN part'
    <3>1. CASE UNCHANGED part /\ Received(n) > 0
      BY <1>0, <3>1 DEF TypeOK, IsDirectory, Received
    <3>2. CASE part' = Put(part, n, <<>>)
      <4>1. <<>> \in Seq(Files)  OBVIOUS
      <4>2. IsDirectory(part)  BY <1>0 DEF TypeOK
      <4>3. IsDirectory(Put(part, n, <<>>)) /\ DOMAIN Put(part, n, <<>>) = DOMAIN part \cup {n}
        BY <1>0, <4>1, <4>2, PutKeepsDirectory
      <4> QED  BY <3>2, <4>3
    <3> QED  BY <1>3, <3>1, <3>2
  <2>3. r.stage \in Pulling /\ r.stage # "recording"  BY <2>1 DEF Pulling
  <2> QED  BY <1>0, <1>1, <1>3, <2>1, <2>2, <2>3, Holds DEF Respond, Quiet
<1> QED  BY <1>2, <1>3 DEF Respond

LEMMA Receives ==
    ASSUME Inv, NEW j \in Jobs, Receive(j)
    PROVE  Inv'
<1> DEFINE n == job[j].name
<1>0. /\ TypeOK /\ n \in Names /\ job[j] \in Job /\ job[j].file \in Files
      /\ job[j].stage = "receiving" /\ job[j].file \in Remote
  BY DEF Inv, TypeOK, Job, Receive, At
<1>1. Claims(j) /\ job[j].file \notin Local
  BY <1>0, ConstantsAssumption DEF Claims, Pulling
<1>2. CASE part' = Drop(part, n) /\ End(j, "failed")
  <2>1. "failed" \in Final /\ job[j].stage \in Running  BY <1>0 DEF Final, Running, Pulling
  <2> QED  BY <1>1, <1>2, <2>1, Ends DEF Receive, Quiet
<1>3. CASE /\ part' = [part EXCEPT ![n] = Append(part[n], job[j].file)]
           /\ UNCHANGED <<active, job>>
  <2>1. job' = [job EXCEPT ![j] = job[j]]  BY <1>0, <1>3 DEF TypeOK
  <2>2. IsDirectory(part') /\ DOMAIN part' = DOMAIN part
    BY <1>0, <1>3, AppendKeepsDirectory DEF TypeOK
  <2>3. n \in DOMAIN part'  BY <1>0, <2>2 DEF Inv, PartIsThere, Writing
  <2>4. job[j].stage \in Pulling /\ job[j].stage # "recording"  BY <1>0 DEF Pulling
  <2> QED  BY <1>0, <1>1, <1>3, <2>1, <2>2, <2>3, <2>4, Holds DEF Receive, Quiet
<1> QED  BY <1>2, <1>3 DEF Receive

\* The end of the stream, and the digest of a .part that is there.
LEMMA Checks ==
    ASSUME Inv, NEW j \in Jobs, EndStream(j) \/ Digest(j)
    PROVE  Inv'
<1> DEFINE n == job[j].name
<1>0. /\ TypeOK /\ n \in Names /\ job[j] \in Job /\ job[j].file \in Files
      /\ job[j].stage \in {"receiving", "checking"} /\ job[j].file \in Remote
  BY DEF Inv, TypeOK, Job, EndStream, Digest, At
<1>1. Claims(j) /\ job[j].file \notin Local
  BY <1>0, ConstantsAssumption DEF Claims, Pulling
<1>2. n \in DOMAIN part /\ IsDirectory(part) /\ UNCHANGED part
  BY <1>0 DEF Inv, PartIsThere, Writing, TypeOK, EndStream, Digest, dirVars
<1>3. PICK r \in Job : /\ job' = [job EXCEPT ![j] = r]
                       /\ r.name = n /\ r.file = job[j].file /\ r.force = job[j].force
                       /\ r.stage \in {"checking", "checked"}
  <2>1. CASE EndStream(j)
    BY <1>0, <2>1, SentIsJob DEF EndStream, Running, Pulling
  <2>2. CASE Digest(j)
    <3> DEFINE r == [job[j] EXCEPT !.digest = part[n], !.stage = "checked"]
    <3>1. part[n] \in Seq(Files)  BY <1>2 DEF IsDirectory
    <3>2. r \in Job /\ r.name = n /\ r.file = job[j].file /\ r.force = job[j].force
          /\ r.stage = "checked"
      BY <1>0, <3>1 DEF Job, Running, Pulling
    <3>3. job' = [job EXCEPT ![j] = r]  BY <1>0, <2>2 DEF Digest, TypeOK
    <3> QED  BY <3>2, <3>3
  <2> QED  BY <2>1, <2>2
<1>4. r.stage \in Pulling /\ r.stage # "recording" /\ job[j].stage # "recording"
  BY <1>0, <1>3 DEF Pulling
<1>5. UNCHANGED <<file, hash, active, asks, crashes>> /\ IsDirectory(part')
  BY <1>2 DEF EndStream, Digest, dirVars, Quiet
<1> QED  BY <1>1, <1>2, <1>3, <1>4, <1>5, Holds

\* Putting a model in place: an import goes on to its event with its claim, a pull has
\* returned from run_pull.
LEMMA Installs ==
    ASSUME Inv, NEW j \in Jobs, NEW digest \in Seq(Files), Install(j, digest), Quiet,
           job[j].stage \in {"copying", "checked"}
    PROVE  Inv'
<1> DEFINE n == job[j].name
           r == Sent(j, "recording")
<1>0. TypeOK /\ n \in Names /\ job[j] \in Job  BY DEF Inv, TypeOK, Job
<1>1. Claims(j)  BY WritersClaim DEF Writing
<1>2. n \in DOMAIN part /\ part[n] \in Seq(Files)
  BY <1>0 DEF Inv, PartIsThere, Writing, TypeOK, IsDirectory
<1>3. /\ r \in Job /\ r.name = n /\ r.file = job[j].file
      /\ r.force = job[j].force /\ r.stage = "recording"
      /\ job' = [job EXCEPT ![j] = r]
  BY <1>0, SentIsJob DEF Install, End, Running
<1> HIDE DEF r
<1>4. /\ IsDirectory(file') /\ DOMAIN file' = DOMAIN file \cup {n}
      /\ IsDirectory(hash')
      /\ IsDirectory(part') /\ DOMAIN part' = DOMAIN part \ {n}
  <2>1. IsDirectory(file) /\ IsDirectory(hash) /\ IsDirectory(part)  BY <1>0 DEF TypeOK
  <2>2. file' = Put(file, n, part[n]) /\ part' = Drop(part, n) /\ hash' = Put(hash, n, digest)
    BY DEF Install
  <2>3. IsDirectory(Put(file, n, part[n])) /\ DOMAIN Put(file, n, part[n]) = DOMAIN file \cup {n}
    BY <1>0, <1>2, <2>1, PutKeepsDirectory
  <2>4. IsDirectory(Put(hash, n, digest))  BY <1>0, <2>1, PutKeepsDirectory
  <2>5. IsDirectory(Drop(part, n)) /\ DOMAIN Drop(part, n) = DOMAIN part \ {n}
    BY <2>1, DropKeepsDirectory
  <2> QED  BY <2>2, <2>3, <2>4, <2>5
<1>5. TypeOK'
  <2>1. job' \in [Jobs -> Job]  BY <1>0, <1>3 DEF TypeOK
  <2>2. active' \subseteq Names  BY <1>0 DEF TypeOK, Install, End, ReleasedAt
  <2> QED  BY <1>0, <1>4, <2>1, <2>2 DEF TypeOK, Quiet
<1>6. Fits(r)  BY <1>3 DEF Fits, Writing, Pulling
<1>7. OwnName(j)  BY <1>4 DEF OwnName
<1>8. Claims(j)' <=> Imports(j)
  BY <1>0, <1>3, OthersAsTheyWere DEF Claims, Imports, Pulling, Running
<1>9. CASE Imports(j)
  <2>1. UNCHANGED active  BY <1>9 DEF Install, End, ReleasedAt, Final
  <2> QED  BY <1>1, <1>3, <1>5, <1>6, <1>7, <1>8, <1>9, <2>1, HoldingStep
<1>10. CASE ~Imports(j)
  <2>1. active' = active \ {n}  BY <1>1, <1>10 DEF Install, End, ReleasedAt
  <2> QED  BY <1>1, <1>3, <1>5, <1>6, <1>7, <1>8, <1>10, <2>1, ReleasingStep
<1> QED  BY <1>9, <1>10

LEMMA Finishes ==
    ASSUME Inv, NEW j \in Jobs, FinishCopy(j) \/ FinishPull(j)
    PROVE  Inv'
<1> DEFINE n == job[j].name
<1>0. TypeOK /\ n \in Names /\ job[j] \in Job  BY DEF Inv, TypeOK, Job
<1>1. job[j].stage \in {"copying", "checked"}  BY DEF FinishCopy, FinishPull, At
<1>2. part[n] \in Seq(Files) /\ job[j].digest \in Seq(Files)
  BY <1>0, <1>1 DEF Inv, PartIsThere, Writing, TypeOK, IsDirectory, Job
<1>3. CASE FinishCopy(j)  BY <1>1, <1>2, <1>3, Installs DEF FinishCopy
<1>4. CASE FinishPull(j) /\ Install(j, job[j].digest)
  BY <1>1, <1>2, <1>4, Installs DEF FinishPull
<1>5. CASE FinishPull(j) /\ ~Install(j, job[j].digest)
  <2>1. part' = Drop(part, n) /\ End(j, "failed") /\ UNCHANGED <<file, hash>> /\ Quiet
    BY <1>5 DEF FinishPull
  <2>2. "failed" \in Final /\ job[j].stage \in Running /\ Claims(j)
    BY <1>1, WritersClaim DEF Final, Running, Pulling, Writing
  <2> QED  BY <2>1, <2>2, Ends DEF Quiet
<1> QED  BY <1>3, <1>4, <1>5

\* Taking the name at last, or learning that it is gone.
LEMMA Begins ==
    ASSUME Inv, NEW j \in Jobs, Begin(j)
    PROVE  Inv'
<1> DEFINE n == job[j].name
<1>0. /\ TypeOK /\ n \in Names /\ job[j] \in Job /\ job[j].file \notin Local
      /\ job[j].stage = "asked"
  BY ConstantsAssumption DEF Inv, TypeOK, Job, Begin, At
<1>1. ~Claims(j) /\ job[j].stage \in Running  BY <1>0 DEF Claims, Imports, Pulling, Running
<1>2. UNCHANGED dirVars /\ Quiet
  BY <1>0 DEF Begin, TypeOK
<1>3. CASE GoTo(j, "failed") /\ UNCHANGED active
  <2>1. End(j, "failed")  BY <1>1, <1>3 DEF End, ReleasedAt
  <2> QED  BY <1>1, <1>2, <2>1, Ends DEF Final, Quiet, dirVars
<1>4. CASE Free(n, job[j].force) /\ Claim(n) /\ GoTo(j, "requesting")
  <2> DEFINE r == Sent(j, "requesting")
  <2>1. /\ r \in Job /\ r.name = n /\ r.file = job[j].file
        /\ r.force = job[j].force /\ r.stage = "requesting"
        /\ job' = [job EXCEPT ![j] = r]
    BY <1>0, <1>4, SentIsJob DEF Running, Pulling
  <2> HIDE DEF r
  <2>2. TypeOK'
    <3>1. job' \in [Jobs -> Job]  BY <1>0, <2>1 DEF TypeOK
    <3>2. active' \subseteq Names  BY <1>0, <1>4 DEF TypeOK, Claim
    <3> QED  BY <1>0, <1>2, <3>1, <3>2 DEF TypeOK, IsDirectory, dirVars, Quiet
  <2>3. Claims(j)' /\ Fits(r)
    BY <1>0, <2>1, OthersAsTheyWere DEF Claims, Fits, Pulling, Writing
  <2> QED  BY <1>1, <1>2, <1>4, <2>1, <2>2, <2>3, ClaimingStep
<1> QED  BY <1>3, <1>4 DEF Begin

-----------------------------------------------------------------------------
(* The theorems *)

LEMMA InvIsKept == Inv /\ [Next]_vars => Inv'
<1> SUFFICES ASSUME Inv, [Next]_vars PROVE Inv'  OBVIOUS
<1>1. CASE \E j \in Jobs, f \in Files, n \in Names, force \in BOOLEAN :
              AskImport(j, f, n, force) \/ AskPull(j, f, n, force)
  BY <1>1, Requests
<1>2. CASE \E n \in Names : Delete(n)  BY <1>2, Deletes
<1>3. CASE \E j \in Jobs : Step(j) \/ Stop(j)
  <2>1. PICK j \in Jobs : Step(j) \/ Stop(j)  BY <1>3
  <2> QED
    BY <2>1, Stops, Records, ImportSteps, Begins, Responds, Receives, Checks, Finishes DEF Step
<1>4. CASE Crash  BY <1>4, Crashes
<1>5. CASE UNCHANGED vars
  BY <1>5 DEF vars, dirVars, Inv, TypeOK, IsDirectory, ClaimsMatchJobs, OneClaim, ClaimedIsFree,
     PartIsThere, StagesFit, Claims, Imports
<1> QED  BY <1>1, <1>2, <1>3, <1>4, <1>5 DEF Next

LEMMA InvAlways ==
    ASSUME Inhabited
    PROVE  Spec => []Inv
<1>1. Init => Inv  BY InvAtStart, Inhabited
<1> QED  BY <1>1, InvIsKept, PTL DEF Spec

\* The state of the models directory and of its jobs stays within its types.
THEOREM TypeCorrect ==
    ASSUME Inhabited
    PROVE  Spec => []TypeOK
<1>1. Inv => TypeOK  BY DEF Inv
<1> QED  BY <1>1, InvAlways, Inhabited, PTL

\* A name is claimed exactly while a job needs it: claim and release (models.py) are
\* paired on every path by which an import or a pull can end.
THEOREM ClaimsAreExact ==
    ASSUME Inhabited
    PROVE  Spec => []ClaimsMatchJobs
<1>1. Inv => ClaimsMatchJobs  BY DEF Inv
<1> QED  BY <1>1, InvAlways, Inhabited, PTL

\* A model is replaced by a job with force and by no other, however many jobs were asked
\* for the same name, and whenever each looked at it (prepare_import, run_pull).
THEOREM OnlyForceReplaces ==
    ASSUME Inhabited
    PROVE  Spec => ReplacedOnlyByForce
<1> DEFINE Lawful == \A n \in DOMAIN file \cap DOMAIN file' :
          file'[n] # file[n] => \E j \in Jobs : job[j].name = n /\ job[j].force /\ Claims(j)
<1>1. ASSUME Inv, [Next]_vars PROVE Lawful
  <2>1. CASE UNCHANGED file  BY <2>1
  <2>2. CASE \E n \in Names : Delete(n)
    BY <2>2 DEF Delete, Drop
  <2>3. CASE \E j \in Jobs : FinishCopy(j) \/ (FinishPull(j) /\ Install(j, job[j].digest))
    <3>1. PICK j \in Jobs : FinishCopy(j) \/ (FinishPull(j) /\ Install(j, job[j].digest))  BY <2>3
    <3>2. job[j].stage \in {"copying", "checked"} /\ Claims(j)
      BY <1>1, <3>1, WritersClaim DEF FinishCopy, FinishPull, At, Writing
    <3>3. ~job[j].force => job[j].name \notin DOMAIN file
      BY <1>1, <3>2 DEF Inv, ClaimedIsFree
    <3>4. job[j].force \in BOOLEAN  BY <1>1 DEF Inv, TypeOK, Job
    <3>5. \A n \in DOMAIN file : n # job[j].name => file'[n] = file[n]
      BY <3>1 DEF FinishCopy, Install, Put
    <3> QED  BY <3>2, <3>3, <3>4, <3>5
  <2>4. ASSUME NEW j \in Jobs, Step(j) \/ Stop(j)
        PROVE  \/ UNCHANGED file
               \/ FinishCopy(j)
               \/ FinishPull(j) /\ Install(j, job[j].digest)
    <3>1. CASE FinishPull(j)  BY <3>1 DEF FinishPull
    <3>2. CASE Step(j) /\ ~FinishPull(j) /\ ~FinishCopy(j)
      BY <3>2 DEF Step, OpenCopy, CopyBlock, Begin, Respond, Receive, EndStream, Digest,
         Record, dirVars
    <3>3. CASE Stop(j)  BY <3>3 DEF Stop
    <3>4. CASE FinishCopy(j)  BY <3>4
    <3> QED  BY <2>4, <3>1, <3>2, <3>3, <3>4
  <2>5. ASSUME NEW j \in Jobs, NEW f \in Files, NEW n \in Names, NEW force \in BOOLEAN,
               AskImport(j, f, n, force) \/ AskPull(j, f, n, force)
        PROVE  UNCHANGED file
    BY <2>5 DEF AskImport, AskPull, Ask, dirVars
  <2>6. Crash \/ UNCHANGED vars => UNCHANGED file  BY DEF Crash, vars, dirVars
  <2> HIDE DEF Lawful
  <2>7. CASE \E j \in Jobs : Step(j) \/ Stop(j)
    <3>1. PICK j \in Jobs : Step(j) \/ Stop(j)  BY <2>7
    <3>2. \/ UNCHANGED file
          \/ FinishCopy(j)
          \/ FinishPull(j) /\ Install(j, job[j].digest)
      BY <2>4, <3>1
    <3>3. CASE UNCHANGED file  BY <2>1, <3>3
    <3>4. CASE FinishCopy(j) \/ (FinishPull(j) /\ Install(j, job[j].digest))  
      <4>1. \E k \in Jobs : FinishCopy(k) \/ (FinishPull(k) /\ Install(k, job[k].digest))  BY <3>4
      <4> QED  BY <2>3, <4>1
    <3> QED  BY <3>2, <3>3, <3>4
  <2>8. CASE \E j \in Jobs, f \in Files, n \in Names, force \in BOOLEAN :
                AskImport(j, f, n, force) \/ AskPull(j, f, n, force)
    BY <2>1, <2>5, <2>8
  <2>9. CASE Crash \/ UNCHANGED vars  BY <2>1, <2>6, <2>9
  <2> QED  BY <1>1, <2>2, <2>7, <2>8, <2>9 DEF Next
<1>2. Inv /\ [Next]_vars => Lawful  BY <1>1
<1> QED  BY <1>2, InvAlways, Inhabited, PTL DEF ReplacedOnlyByForce, Spec

-----------------------------------------------------------------------------
(* What is in the files *)

\* The hub or the administrator gives the SHA256 of every file that is pulled. Without one,
\* a .part that another pull left is continued, and the mix installed.
AllHashed == Remote \subseteq Hashed

\* A copy holds blocks of its own file only; a digest that is about to be compared is that
\* of the .part that is about to be put in place.
PartsAreKnown ==
    \A j \in Jobs :
        /\ job[j].stage = "copying" =>
              \A i \in 1..Len(part[job[j].name]) : part[job[j].name][i] = job[j].file
        /\ job[j].stage = "checked" => job[j].digest = part[job[j].name]

Content == Inv /\ PartsAreKnown /\ ModelsAreWhole

\* A job touches no .part but that of the name it holds.
KeepsToItself(j) ==
    /\ \A k \in Jobs : k # j => job'[k] = job[k]
    /\ \/ UNCHANGED part
       \/ Claims(j) /\ \A n \in Names \ {job[j].name} :
                          n \in DOMAIN part => n \in DOMAIN part' /\ part'[n] = part[n]

LEMMA OthersPartsStay ==
    ASSUME Inv, PartsAreKnown, NEW j \in Jobs, KeepsToItself(j), NEW k \in Jobs, k # j
    PROVE  /\ job'[k] = job[k]
           /\ job[k].stage = "copying" =>
                 \A i \in 1..Len(part'[job[k].name]) : part'[job[k].name][i] = job[k].file
           /\ job[k].stage = "checked" => job[k].digest = part'[job[k].name]
<1>1. job'[k] = job[k]  BY DEF KeepsToItself
<1>2. CASE job[k].stage \in {"copying", "checked"}
  <2>1. job[k].stage \in Writing /\ Claims(k)  BY <1>2, WritersClaim DEF Writing
  <2>2. job[k].name \in Names /\ job[k].name \in DOMAIN part
    BY <2>1 DEF Inv, PartIsThere, TypeOK, Job
  <2>3. Claims(j) => job[k].name # job[j].name  BY <2>1 DEF Inv, OneClaim
  <2>4. part'[job[k].name] = part[job[k].name]  BY <2>2, <2>3 DEF KeepsToItself
  <2> QED  BY <1>1, <2>4 DEF PartsAreKnown
<1> QED  BY <1>1, <1>2

\* Steps that leave job j at no stage at which its .part matters.
LEMMA PartsStayKnown ==
    ASSUME Inv, PartsAreKnown, NEW j \in Jobs, KeepsToItself(j),
           job'[j].stage \notin {"copying", "checked"}
    PROVE  PartsAreKnown'
<1> SUFFICES ASSUME NEW k \in Jobs
             PROVE  /\ job'[k].stage = "copying" =>
                          \A i \in 1..Len(part'[job'[k].name]) : part'[job'[k].name][i] = job'[k].file
                    /\ job'[k].stage = "checked" => job'[k].digest = part'[job'[k].name]
  BY DEF PartsAreKnown
<1>1. CASE k = j  BY <1>1
<1>2. CASE k # j  BY <1>2, OthersPartsStay
<1> QED  BY <1>1, <1>2

LEMMA EndsKnown ==
    ASSUME Content, NEW j \in Jobs, NEW stage \in Final, End(j, stage),
           \/ UNCHANGED part
           \/ Claims(j) /\ part' = Drop(part, job[j].name),
           UNCHANGED <<file, hash>>
    PROVE  PartsAreKnown' /\ ModelsAreWhole'
<1>0. TypeOK  BY DEF Content, Inv
<1>1. job' = [job EXCEPT ![j] = Sent(j, stage)] /\ Sent(j, stage).stage = stage
  BY <1>0, SentIsJob DEF End
<1>2. job'[j].stage = stage /\ \A k \in Jobs : k # j => job'[k] = job[k]
  BY <1>0, <1>1 DEF TypeOK
<1>3. KeepsToItself(j)  BY <1>2 DEF KeepsToItself, Drop
<1>4. PartsAreKnown'  BY <1>2, <1>3, PartsStayKnown DEF Content, Final
<1>5. ModelsAreWhole'  BY DEF Content, ModelsAreWhole
<1> QED  BY <1>4, <1>5

\* A whole .part is put in place, with its own SHA256.
LEMMA InstallsWhole ==
    ASSUME Content, NEW j \in Jobs, NEW f \in Files, Install(j, part[job[j].name]),
           part[job[j].name] = Whole(f), job[j].stage \in {"copying", "checked"}
    PROVE  PartsAreKnown' /\ ModelsAreWhole'
<1> DEFINE n == job[j].name
<1>0. TypeOK  BY DEF Content, Inv
<1>1. Claims(j) /\ n \in DOMAIN part
  BY WritersClaim DEF Content, Inv, PartIsThere, Writing
<1>2. job' = [job EXCEPT ![j] = Sent(j, "recording")] /\ Sent(j, "recording").stage = "recording"
  BY <1>0, SentIsJob DEF Install, End, Running
<1>3. job'[j].stage = "recording" /\ \A k \in Jobs : k # j => job'[k] = job[k]
  BY <1>0, <1>2 DEF TypeOK
<1>4. KeepsToItself(j)  BY <1>1, <1>3 DEF KeepsToItself, Install, Drop
<1>5. PartsAreKnown'  BY <1>3, <1>4, PartsStayKnown DEF Content
<1>6. file' = Put(file, n, Whole(f)) /\ hash' = Put(hash, n, Whole(f))  BY DEF Install
<1>7. ModelsAreWhole'
  <2> HIDE DEF n
  <2> QED  BY <1>6 DEF Content, ModelsAreWhole, Put
<1> QED  BY <1>5, <1>7

LEMMA FinishedIsWhole ==
    ASSUME Content, NEW j \in Jobs, FinishCopy(j)
    PROVE  part[job[j].name] = Whole(job[j].file)
<1> DEFINE n == job[j].name
           f == job[j].file
<1>1. job[j].stage = "copying" /\ Len(part[n]) = Size[f]
  BY DEF FinishCopy, At
<1>2. n \in DOMAIN part  BY <1>1 DEF Content, Inv, PartIsThere, Writing
<1>3. f \in Files /\ part[n] \in Seq(Files)
  BY <1>2 DEF Content, Inv, TypeOK, IsDirectory, Job
<1>4. \A i \in 1..Len(part[n]) : part[n][i] = f  BY <1>1 DEF Content, PartsAreKnown
<1>5. Size[f] \in Nat  BY <1>3, ConstantsAssumption
<1> HIDE DEF n, f
<1>6. part[n] = Whole(f)  BY <1>1, <1>3, <1>4, <1>5 DEF Whole
<1> QED  BY <1>6 DEF n, f

LEMMA FinishesWhole ==
    ASSUME Content, AllHashed, NEW j \in Jobs, FinishCopy(j) \/ FinishPull(j)
    PROVE  PartsAreKnown' /\ ModelsAreWhole'
<1> DEFINE n == job[j].name
           f == job[j].file
<1>0. /\ TypeOK /\ f \in Files /\ n \in DOMAIN part /\ part[n] \in Seq(Files)
      /\ job[j].stage \in {"copying", "checked"} /\ Claims(j)
  <2>1. job[j].stage \in {"copying", "checked"}  BY DEF FinishCopy, FinishPull, At
  <2>2. Claims(j) /\ n \in DOMAIN part
    BY <2>1, WritersClaim DEF Content, Inv, PartIsThere, Writing
  <2>3. TypeOK  BY DEF Content, Inv
  <2> QED  BY <2>1, <2>2, <2>3 DEF TypeOK, IsDirectory, Job
<1>1. CASE FinishCopy(j)
  <2>1. job[j].stage = "copying" /\ Install(j, part[n])
    BY <1>1 DEF FinishCopy, At
  <2>2. part[n] = Whole(f)  BY <1>1, FinishedIsWhole
  <2> QED  BY <1>0, <2>1, <2>2, InstallsWhole
<1>2. CASE FinishPull(j)
  <2>1. job[j].stage = "checked" /\ f \in Hashed /\ job[j].digest = part[n]
    BY <1>2 DEF FinishPull, At, AllHashed, Content, PartsAreKnown
  <2>2. CASE Verified(j) /\ Install(j, job[j].digest)
    BY <1>0, <2>1, <2>2, InstallsWhole DEF Verified
  <2>3. CASE part' = Drop(part, n) /\ End(j, "failed") /\ UNCHANGED <<file, hash>>
    BY <1>0, <2>3, EndsKnown DEF Final
  <2> QED  BY <1>2, <2>2, <2>3 DEF FinishPull
<1> QED  BY <1>1, <1>2

LEMMA StepsKnown ==
    ASSUME Content, NEW j \in Jobs,
           \/ OpenCopy(j) \/ CopyBlock(j) \/ Begin(j) \/ Respond(j) \/ Receive(j)
           \/ EndStream(j) \/ Digest(j) \/ Record(j) \/ Stop(j)
    PROVE  PartsAreKnown' /\ ModelsAreWhole'
<1> DEFINE n == job[j].name
<1>0. TypeOK /\ Inv /\ PartsAreKnown /\ n \in Names /\ job[j] \in Job /\ job \in [Jobs -> Job]
  BY DEF Content, Inv, TypeOK, Job
<1>1. ModelsAreWhole'
  <2>1. UNCHANGED <<file, hash>>
    BY DEF OpenCopy, CopyBlock, Begin, Respond, Receive, EndStream, Digest, Record, Stop, dirVars
  <2> QED  BY <2>1 DEF Content, ModelsAreWhole
<1>2. ASSUME NEW stage \in Final \cup Running, GoTo(j, stage)
      PROVE  job'[j] = Sent(j, stage) /\ job'[j].stage = stage /\ \A k \in Jobs : k # j => job'[k] = job[k]
  BY <1>0, <1>2, SentIsJob
<1>3. CASE OpenCopy(j)
  <2>1. /\ job'[j].stage = "copying" /\ job'[j].name = n
        /\ \A k \in Jobs : k # j => job'[k] = job[k]
    BY <1>0, <1>2, <1>3, SentIsJob DEF OpenCopy, Running
  <2>2. Claims(j)  BY <1>3 DEF OpenCopy, At, Claims, Imports, Running
  <2>3. part' = Put(part, n, <<>>)  BY <1>3 DEF OpenCopy
  <2>4. KeepsToItself(j) /\ part'[n] = <<>>  BY <2>1, <2>2, <2>3 DEF KeepsToItself, Put
  <2> HIDE DEF n
  <2>5. \A i \in 1..Len(part'[n]) : part'[n][i] = job'[j].file  BY <2>4
  <2>6. ASSUME NEW k \in Jobs
        PROVE  /\ job'[k].stage = "copying" =>
                     \A i \in 1..Len(part'[job'[k].name]) : part'[job'[k].name][i] = job'[k].file
               /\ job'[k].stage = "checked" => job'[k].digest = part'[job'[k].name]
    <3>1. CASE k = j  BY <2>1, <2>5, <3>1
    <3>2. CASE k # j  BY <1>0, <2>4, <3>2, OthersPartsStay
    <3> QED  BY <3>1, <3>2
  <2> QED  BY <1>1, <2>6 DEF PartsAreKnown
<1>4. CASE CopyBlock(j)
  <2> DEFINE f == job[j].file
  <2>1. /\ job' = job /\ job[j].stage = "copying" /\ part' = [part EXCEPT ![n] = Append(part[n], f)]
    BY <1>4 DEF CopyBlock, At
  <2>2. Claims(j) /\ n \in DOMAIN part /\ part[n] \in Seq(Files) /\ f \in Files
    BY <1>0, <2>1, WritersClaim DEF Inv, PartIsThere, Writing, TypeOK, IsDirectory, Job
  <2>3. KeepsToItself(j) /\ part'[n] = Append(part[n], f)
    BY <2>1, <2>2 DEF KeepsToItself
  <2>4. \A i \in 1..Len(part[n]) : part[n][i] = f  BY <1>0, <2>1 DEF PartsAreKnown
  <2>5. \A i \in 1..Len(part'[n]) : part'[n][i] = f
    <3> HIDE DEF n, f
    <3> QED  BY <2>2, <2>3, <2>4
  <2>6. ASSUME NEW k \in Jobs
        PROVE  /\ job'[k].stage = "copying" =>
                     \A i \in 1..Len(part'[job'[k].name]) : part'[job'[k].name][i] = job'[k].file
               /\ job'[k].stage = "checked" => job'[k].digest = part'[job'[k].name]
    <3>1. CASE k = j  BY <2>1, <2>5, <3>1
    <3>2. CASE k # j
      <4> HIDE DEF n, f
      <4>1. KeepsToItself(j)  BY <2>3
      <4> QED  BY <1>0, <4>1, <3>2, OthersPartsStay
    <3> QED  BY <3>1, <3>2
  <2> QED  BY <1>1, <2>6 DEF PartsAreKnown
<1>5. CASE Begin(j)
  <2>1. /\ UNCHANGED part /\ job'[j].stage \in {"requesting", "failed"}
        /\ \A k \in Jobs : k # j => job'[k] = job[k]
    BY <1>2, <1>5 DEF Begin, dirVars, Running, Pulling, Final
  <2>2. KeepsToItself(j)  BY <2>1 DEF KeepsToItself
  <2> QED  BY <1>0, <1>1, <2>1, <2>2, PartsStayKnown
<1>6. CASE Respond(j)
  <2>1. CASE End(j, "refused") /\ UNCHANGED part
    BY <1>6, <2>1, EndsKnown DEF Respond, Final
  <2>2. CASE (UNCHANGED part \/ part' = Put(part, n, <<>>)) /\ GoTo(j, "receiving")
    <3>1. job'[j].stage = "receiving" /\ \A k \in Jobs : k # j => job'[k] = job[k]
      BY <1>2, <2>2 DEF Running, Pulling
    <3>2. Claims(j)  BY <1>6 DEF Respond, At, Claims, Pulling
    <3>3. KeepsToItself(j)  BY <2>2, <3>1, <3>2 DEF KeepsToItself, Put
    <3> QED  BY <1>0, <1>1, <3>1, <3>3, PartsStayKnown
  <2> QED  BY <1>6, <2>1, <2>2 DEF Respond
<1>7. CASE Receive(j)
  <2>0. Claims(j) /\ job[j].stage = "receiving"  BY <1>7 DEF Receive, At, Claims, Pulling
  <2>1. CASE part' = Drop(part, n) /\ End(j, "failed")
    BY <1>7, <2>0, <2>1, EndsKnown DEF Receive, Final
  <2>2. CASE part' = [part EXCEPT ![n] = Append(part[n], job[j].file)] /\ job' = job
    <3>1. KeepsToItself(j)  BY <2>0, <2>2 DEF KeepsToItself
    <3> QED  BY <1>0, <1>1, <2>0, <2>2, <3>1, PartsStayKnown
  <2> QED  BY <1>7, <2>1, <2>2 DEF Receive
<1>8. CASE EndStream(j)
  <2>1. /\ UNCHANGED part /\ job'[j].stage = "checking"
        /\ \A k \in Jobs : k # j => job'[k] = job[k]
    BY <1>2, <1>8 DEF EndStream, dirVars, Running, Pulling
  <2>2. KeepsToItself(j)  BY <2>1 DEF KeepsToItself
  <2> QED  BY <1>0, <1>1, <2>1, <2>2, PartsStayKnown
<1>9. CASE Digest(j)
  <2>1. /\ UNCHANGED part /\ job'[j].stage = "checked" /\ job'[j].digest = part[n] /\ job'[j].name = n
        /\ \A k \in Jobs : k # j => job'[k] = job[k]
    BY <1>0, <1>9 DEF Digest, dirVars, Job
  <2>2. KeepsToItself(j)  BY <2>1 DEF KeepsToItself
  <2>3. ASSUME NEW k \in Jobs
        PROVE  /\ job'[k].stage = "copying" =>
                     \A i \in 1..Len(part'[job'[k].name]) : part'[job'[k].name][i] = job'[k].file
               /\ job'[k].stage = "checked" => job'[k].digest = part'[job'[k].name]
    <3>1. CASE k = j  BY <2>1, <3>1
    <3>2. CASE k # j  BY <1>0, <2>2, <3>2, OthersPartsStay
    <3> QED  BY <3>1, <3>2
  <2> QED  BY <1>1, <2>3 DEF PartsAreKnown
<1>10. CASE Record(j)
  BY <1>10, EndsKnown DEF Record, Final, dirVars
<1>11. CASE Stop(j)
  <2>1. PICK stage \in Final : End(j, stage)  BY <1>11 DEF Stop, Final
  <2>2. \/ UNCHANGED part
        \/ Claims(j) /\ part' = Drop(part, job[j].name)
    BY <1>11 DEF Stop, PartAfterStop, Claims
  <2> QED  BY <1>11, <2>1, <2>2, EndsKnown DEF Stop
<1> QED  BY <1>3, <1>4, <1>5, <1>6, <1>7, <1>8, <1>9, <1>10, <1>11

LEMMA ContentIsKept ==
    ASSUME AllHashed, Content, [Next]_vars
    PROVE  Content'
<1>0. Inv'  BY InvIsKept DEF Content
<1>1. CASE \E j \in Jobs, f \in Files, n \in Names, force \in BOOLEAN :
              AskImport(j, f, n, force) \/ AskPull(j, f, n, force)
  <2>1. PICK j \in Jobs, f \in Files, n \in Names, force \in BOOLEAN : Ask(j, f, n, force)
    BY <1>1 DEF AskImport, AskPull
  <2>2. /\ job'[j].stage = "asked" /\ \A k \in Jobs : k # j => job'[k] = job[k]
        /\ UNCHANGED dirVars
    BY <2>1 DEF Ask, Content, Inv, TypeOK
  <2>3. KeepsToItself(j)  BY <2>2 DEF KeepsToItself, dirVars
  <2>4. PartsAreKnown'  BY <2>2, <2>3, PartsStayKnown DEF Content
  <2>5. ModelsAreWhole'  BY <2>2 DEF Content, ModelsAreWhole, dirVars
  <2> QED  BY <1>0, <2>4, <2>5 DEF Content
<1>2. CASE \E n \in Names : Delete(n)
  <2>1. PICK n \in Names : Delete(n)  BY <1>2
  <2>2. PartsAreKnown'  BY <2>1 DEF Delete, Content, PartsAreKnown
  <2>3. ModelsAreWhole'  BY <2>1 DEF Delete, Drop, Content, ModelsAreWhole
  <2> QED  BY <1>0, <2>2, <2>3 DEF Content
<1>3. CASE \E j \in Jobs : Step(j) \/ Stop(j)
  BY <1>0, <1>3, StepsKnown, FinishesWhole DEF Step, Content
<1>4. CASE Crash
  <2>1. \A j \in Jobs : job'[j].stage \in Final
    BY <1>4 DEF Crash, Content, Inv, TypeOK, Job, Final
  <2>2. PartsAreKnown'  BY <2>1 DEF PartsAreKnown, Final
  <2>3. ModelsAreWhole'  BY <1>4 DEF Crash, dirVars, Content, ModelsAreWhole
  <2> QED  BY <1>0, <2>2, <2>3 DEF Content
<1>5. CASE UNCHANGED vars
  BY <1>0, <1>5 DEF vars, dirVars, Content, PartsAreKnown, ModelsAreWhole
<1> QED  BY <1>1, <1>2, <1>3, <1>4, <1>5 DEF Next

LEMMA ContentAtStart ==
    ASSUME Inhabited
    PROVE  Init => Content
<1>1. Init => Inv  BY InvAtStart, Inhabited
<1>2. ASSUME Init PROVE PartsAreKnown /\ ModelsAreWhole
  <2>1. \A j \in Jobs : job[j].stage = "done"  BY <1>2 DEF Init, NoJob
  <2>2. DOMAIN file = {} /\ DOMAIN hash = {}  BY <1>2 DEF Init, NoFiles
  <2> QED  BY <2>1, <2>2 DEF PartsAreKnown, ModelsAreWhole
<1> QED  BY <1>1, <1>2 DEF Content

\* Where every SHA256 is known, a model of the directory is one whole file and its .sha256
\* is its own, whatever was interrupted, resumed, imported or pulled under its name
\* (run_import, run_pull: the .part is checked before os.replace).
THEOREM ModelsStayWhole ==
    ASSUME Inhabited, AllHashed
    PROVE  Spec => []ModelsAreWhole
<1>1. Init => Content  BY ContentAtStart, Inhabited
<1>2. Content /\ [Next]_vars => Content'  BY AllHashed, ContentIsKept
<1>3. Content => ModelsAreWhole  BY DEF Content
<1> QED  BY <1>1, <1>2, <1>3, PTL DEF Spec

-----------------------------------------------------------------------------
(* The directory is a library *)

\* A whole file says which one it is: it has at least one block.
LEMMA WholeTells ==
    ASSUME NEW f \in Files, NEW g \in Files, Whole(f) = Whole(g)
    PROVE  f = g
<1>1. Size[f] \in Nat \ {0} /\ Size[g] \in Nat \ {0}  BY ConstantsAssumption
<1>2. DOMAIN Whole(f) = 1..Size[f] /\ Whole(f)[1] = f /\ Whole(g)[1] = g
  BY <1>1 DEF Whole
<1> QED  BY <1>2

LEMMA ShelfAfterPut ==
    ASSUME ModelsAreWhole, NEW n, NEW f \in Files, file' = Put(file, n, Whole(f))
    PROVE  Shelf' = [m \in DOMAIN Shelf \cup {n} |-> IF m = n THEN f ELSE Shelf[m]]
<1>1. DOMAIN file' = DOMAIN file \cup {n} /\ DOMAIN Shelf = DOMAIN file  BY DEF Put, Shelf
<1> DEFINE Pick(m) == CHOOSE g \in Files : file'[m] = Whole(g)
<1>2. ASSUME NEW m \in DOMAIN file'
      PROVE  Pick(m) = IF m = n THEN f ELSE Shelf[m]
  <2>1. CASE m = n
    <3>1. file'[m] = Whole(f)  BY <2>1, <1>1 DEF Put
    <3>2. \A g \in Files : file'[m] = Whole(g) => g = f  BY <3>1, WholeTells
    <3> QED  BY <2>1, <3>1, <3>2
  <2>2. CASE m # n
    <3>1. m \in DOMAIN file /\ file'[m] = file[m]  BY <1>1, <1>2, <2>2 DEF Put
    <3> QED  BY <2>2, <3>1 DEF Shelf
  <2> QED  BY <2>1, <2>2
<1>3. Shelf' = [m \in DOMAIN file' |-> Pick(m)]  BY DEF Shelf
<1> HIDE DEF Pick
<1> QED  BY <1>1, <1>2, <1>3

LEMMA ShelfAfterDrop ==
    ASSUME NEW n, file' = Drop(file, n)
    PROVE  Shelf' = [m \in DOMAIN Shelf \ {n} |-> Shelf[m]]
BY DEF Drop, Shelf

\* A job that goes on keeps its order, one that comes to an end gives it up.
LEMMA OrdersStay ==
    ASSUME UNCHANGED file,
           \A k \in Jobs : (OnOrder(k)' <=> OnOrder(k)) /\ (OnOrder(k) => OrderOf(k)' = OrderOf(k))
    PROVE  UNCHANGED Library!vars
<1>1. Shelf' = Shelf  BY DEF Shelf
<1>2. OpenOrders' = OpenOrders
  <2>1. OpenOrders' = {OrderOf(k)' : k \in {i \in Jobs : OnOrder(i)'}}  BY DEF OpenOrders
  <2> QED  BY <2>1 DEF OpenOrders
<1> QED  BY <1>1, <1>2 DEF Library!vars

LEMMA OrderLeaves ==
    ASSUME NEW j \in Jobs, OnOrder(j), ~OnOrder(j)', \A k \in Jobs : k # j => job'[k] = job[k]
    PROVE  OrderOf(j) \in OpenOrders /\ OpenOrders' = OpenOrders \ {OrderOf(j)}
<1>1. \A k \in Jobs : k # j => OrderOf(k)' = OrderOf(k) /\ (OnOrder(k)' <=> OnOrder(k))
  BY DEF OrderOf, OnOrder
<1>2. \A k \in Jobs : k # j => OrderOf(k) # OrderOf(j)
  <2>1. \A k \in Jobs : OrderOf(k).by = k  BY DEF OrderOf
  <2> QED  BY <2>1
<1>3. OpenOrders' = {OrderOf(k)' : k \in {i \in Jobs : OnOrder(i)'}}  BY DEF OpenOrders
<1> QED  BY <1>1, <1>2, <1>3 DEF OpenOrders

LEMMA OrderJoins ==
    ASSUME NEW j \in Jobs, ~OnOrder(j), OnOrder(j)', \A k \in Jobs : k # j => job'[k] = job[k]
    PROVE  /\ OpenOrders' = OpenOrders \cup {OrderOf(j)'}
           /\ \A p \in OpenOrders : p.by # j
<1>1. \A k \in Jobs : k # j => OrderOf(k)' = OrderOf(k) /\ (OnOrder(k)' <=> OnOrder(k))
  BY DEF OrderOf, OnOrder
<1>2. OpenOrders' = {OrderOf(k)' : k \in {i \in Jobs : OnOrder(i)'}}  BY DEF OpenOrders
<1>3. \A k \in Jobs : OrderOf(k).by = k  BY DEF OrderOf
<1> QED  BY <1>1, <1>2, <1>3 DEF OpenOrders

LEMMA OrderIsOrder ==
    ASSUME TypeOK, NEW j \in Jobs
    PROVE  OrderOf(j) \in Library!Order
BY DEF TypeOK, Job, OrderOf, Library!Order

-----------------------------------------------------------------------------
(* ... its steps *)

LEMMA AskPlaces ==
    ASSUME Content, TypeOK', NEW j \in Jobs, NEW f \in Files, NEW n \in Names, NEW force \in BOOLEAN,
           Ask(j, f, n, force)
    PROVE  [Library!Next]_(Library!vars)
<1>1. job \in [Jobs -> Job]  BY DEF Content, Inv, TypeOK
<1>2. /\ job'[j].file = f /\ job'[j].name = n /\ job'[j].force = force /\ job'[j].stage = "asked"
      /\ \A k \in Jobs : k # j => job'[k] = job[k]
  BY <1>1 DEF Ask
<1>3. ~OnOrder(j) /\ OnOrder(j)'
  BY <1>2 DEF Ask, OnOrder, Final, Running, Pulling
<1> DEFINE o == OrderOf(j)'
<1>4. /\ o \in Library!Order /\ o.by = j /\ o.name = n /\ o.force = force
  BY <1>2 DEF OrderOf, Library!Order
<1>5. OpenOrders' = OpenOrders \cup {o} /\ \A p \in OpenOrders : p.by # j
  BY <1>2, <1>3, OrderJoins
<1>6. UNCHANGED Shelf /\ DOMAIN Shelf = DOMAIN file  BY DEF Ask, dirVars, Shelf
<1> HIDE DEF o
<1>7. Library!Wanted(o)  BY <1>4, <1>6 DEF Ask, Free, Library!Wanted
<1>8. Library!Place(o)  BY <1>4, <1>5, <1>6, <1>7 DEF Library!Place
<1> QED  BY <1>4, <1>8 DEF Library!Next

LEMMA DeleteDeletes ==
    ASSUME NEW n \in Names, Delete(n)
    PROVE  Library!Next
<1>1. Shelf' = [m \in DOMAIN Shelf \ {n} |-> Shelf[m]] /\ n \in DOMAIN Shelf \ InUse
  BY ShelfAfterDrop DEF Delete, Shelf
<1>2. OpenOrders' = OpenOrders  BY DEF Delete, OpenOrders, OrderOf, OnOrder
<1>3. Library!Delete(n)  BY <1>1, <1>2 DEF Library!Delete
<1> QED  BY <1>3 DEF Library!Next

\* The order of a job that ends before its file is in place is given up; after that its
\* end is nobody's business.
LEMMA EndGivesUp ==
    ASSUME Content, NEW j \in Jobs, NEW stage \in Final, job[j].stage \in Running,
           job' = [job EXCEPT ![j].stage = stage], UNCHANGED file
    PROVE  [Library!Next]_(Library!vars)
<1>1. job'[j].stage = stage /\ \A k \in Jobs : k # j => job'[k] = job[k]
  BY DEF Content, Inv, TypeOK
<1>2. ~OnOrder(j)'  BY <1>1 DEF OnOrder, Final, Running, Pulling
<1>3. CASE OnOrder(j)
  <2>1. OrderOf(j) \in OpenOrders /\ OpenOrders' = OpenOrders \ {OrderOf(j)}
    BY <1>1, <1>2, <1>3, OrderLeaves
  <2>2. UNCHANGED Shelf  BY DEF Shelf
  <2>3. Library!GiveUp({OrderOf(j)})  BY <2>1, <2>2 DEF Library!GiveUp
  <2> QED  BY <2>1, <2>3 DEF Library!Next
<1>4. CASE ~OnOrder(j)
  <2>1. \A k \in Jobs : (OnOrder(k)' <=> OnOrder(k)) /\ (OnOrder(k) => OrderOf(k)' = OrderOf(k))
    BY <1>1, <1>2, <1>4 DEF OnOrder, OrderOf
  <2> QED  BY <2>1, OrdersStay
<1> QED  BY <1>3, <1>4

\* Steps on the way to the directory.
LEMMA WorkIsUnseen ==
    ASSUME Content, NEW j \in Jobs, UNCHANGED file, OnOrder(j), OnOrder(j)',
           job'[j].file = job[j].file, job'[j].name = job[j].name, job'[j].force = job[j].force,
           \A k \in Jobs : k # j => job'[k] = job[k]
    PROVE  UNCHANGED Library!vars
<1>1. \A k \in Jobs : (OnOrder(k)' <=> OnOrder(k)) /\ (OnOrder(k) => OrderOf(k)' = OrderOf(k))
  <2> SUFFICES ASSUME NEW k \in Jobs
               PROVE  (OnOrder(k)' <=> OnOrder(k)) /\ (OnOrder(k) => OrderOf(k)' = OrderOf(k))
    OBVIOUS
  <2>1. CASE k = j  BY <2>1 DEF OrderOf
  <2>2. CASE k # j  BY <2>2 DEF OrderOf, OnOrder
  <2> QED  BY <2>1, <2>2
<1> QED  BY <1>1, OrdersStay

\* The file that is put in place is the one of the order, and the order still stands: the
\* name is free, or the order has force (ClaimedIsFree).
LEMMA InstallMeets ==
    ASSUME Content, NEW j \in Jobs, job[j].stage \in {"copying", "checked"},
           part[job[j].name] = Whole(job[j].file), NEW digest, Install(j, digest)
    PROVE  Library!Next
<1> DEFINE o == OrderOf(j)
<1>0. /\ TypeOK /\ job[j].file \in Files /\ job[j].force \in BOOLEAN /\ Claims(j)
      /\ OnOrder(j) /\ job[j].stage # "recording"
  BY WritersClaim DEF Content, Inv, TypeOK, Job, OnOrder, Writing, Running, Pulling
<1>1. job' = [job EXCEPT ![j].stage = "recording"]  BY DEF Install, End, GoTo
<1>2. job'[j].stage = "recording" /\ \A k \in Jobs : k # j => job'[k] = job[k]
  BY <1>0, <1>1 DEF TypeOK
<1>3. o \in OpenOrders /\ OpenOrders' = OpenOrders \ {o}
  BY <1>0, <1>2, OrderLeaves DEF OnOrder
<1>4. o.file = job[j].file /\ o.name = job[j].name /\ o.force = job[j].force  BY DEF OrderOf
<1>5. file' = Put(file, o.name, Whole(o.file)) /\ o.file \in Files
  BY <1>0, <1>4 DEF Install
<1>6. o \in Library!Order  BY <1>0, OrderIsOrder
<1>7. DOMAIN Shelf = DOMAIN file  BY DEF Shelf
<1>8. Library!Wanted(o)
  BY <1>0, <1>4, <1>7 DEF Content, Inv, ClaimedIsFree, Library!Wanted
<1> HIDE DEF o
<1>9. Shelf' = [m \in DOMAIN Shelf \cup {o.name} |-> IF m = o.name THEN o.file ELSE Shelf[m]]
  BY <1>5, ShelfAfterPut DEF Content
<1>10. Library!Meet(o)  BY <1>3, <1>8, <1>9 DEF Library!Meet
<1> QED  BY <1>6, <1>10 DEF Library!Next

\* Steps of a job: those that may end it, those that put a file in place, the others.
LEMMA StepsAreOrders ==
    ASSUME Content, AllHashed, NEW j \in Jobs, Step(j) \/ Stop(j)
    PROVE  [Library!Next]_(Library!vars)
<1>0. TypeOK /\ job[j] \in Job /\ job \in [Jobs -> Job] /\ job[j].file \in Files
  BY DEF Content, Inv, TypeOK, Job
<1>1. ASSUME NEW stage \in Final \cup Running, GoTo(j, stage)
      PROVE  /\ job'[j].stage = stage /\ job'[j].file = job[j].file
             /\ job'[j].name = job[j].name /\ job'[j].force = job[j].force
             /\ \A k \in Jobs : k # j => job'[k] = job[k]
  BY <1>0, <1>1 DEF GoTo, Job
<1>2. ASSUME NEW stage \in {"copying", "requesting", "receiving", "checking"}, GoTo(j, stage), OnOrder(j),
             UNCHANGED file
      PROVE  [Library!Next]_(Library!vars)
  <2>1. stage \in Running \ {"recording"}  BY DEF Running, Pulling
  <2>2. OnOrder(j)'  BY <1>1, <1>2, <2>1 DEF OnOrder
  <2> QED  BY <1>1, <1>2, <2>1, <2>2, WorkIsUnseen
<1>3. ASSUME NEW stage \in Final, End(j, stage), UNCHANGED file, job[j].stage \in Running
      PROVE  [Library!Next]_(Library!vars)
  BY <1>3, EndGivesUp DEF End, GoTo
<1>4. ASSUME job' = job, UNCHANGED file
      PROVE  [Library!Next]_(Library!vars)
  <2>1. \A k \in Jobs : (OnOrder(k)' <=> OnOrder(k)) /\ (OnOrder(k) => OrderOf(k)' = OrderOf(k))
    BY <1>4 DEF OnOrder, OrderOf
  <2> QED  BY <1>4, <2>1, OrdersStay
<1>5. CASE OpenCopy(j)
  <2>1. OnOrder(j)  BY <1>5 DEF OpenCopy, At, OnOrder, Running
  <2> QED  BY <1>2, <1>5, <2>1 DEF OpenCopy
<1>6. CASE CopyBlock(j)  BY <1>4, <1>6 DEF CopyBlock
<1>7. CASE FinishCopy(j) \/ FinishPull(j)
  <2> DEFINE n == job[j].name
             f == job[j].file
  <2>1. CASE FinishCopy(j)
    <3>1. job[j].stage = "copying" /\ Install(j, part[n])  BY <2>1 DEF FinishCopy, At
    <3>2. part[n] = Whole(f)  BY <2>1, FinishedIsWhole
    <3> QED  BY <3>1, <3>2, InstallMeets
  <2>2. CASE FinishPull(j) /\ Verified(j) /\ Install(j, job[j].digest)
    <3>1. job[j].stage = "checked" /\ part[n] = Whole(f)
      BY <2>2 DEF FinishPull, At, AllHashed, Content, PartsAreKnown, Verified
    <3> QED  BY <2>2, <3>1, InstallMeets
  <2>3. CASE FinishPull(j) /\ End(j, "failed") /\ UNCHANGED file
    BY <1>3, <2>3 DEF FinishPull, At, Final, Running, Pulling
  <2> QED  BY <1>7, <2>1, <2>2, <2>3 DEF FinishPull
<1>8. CASE Begin(j)
  <2>1. job[j].stage = "asked" /\ OnOrder(j) /\ job[j].stage \in Running /\ UNCHANGED file
    BY <1>8 DEF Begin, At, OnOrder, Running, dirVars
  <2>2. CASE GoTo(j, "requesting")  BY <1>2, <2>1, <2>2
  <2>3. CASE GoTo(j, "failed")  BY <2>1, <2>3, EndGivesUp DEF GoTo, Final
  <2> QED  BY <1>8, <2>2, <2>3 DEF Begin
<1>9. CASE Respond(j)
  <2>1. OnOrder(j) /\ job[j].stage \in Running /\ UNCHANGED file
    BY <1>9 DEF Respond, At, OnOrder, Running, Pulling
  <2>2. CASE End(j, "refused")  BY <1>3, <2>1, <2>2 DEF Final
  <2>3. CASE GoTo(j, "receiving")  BY <1>2, <2>1, <2>3
  <2> QED  BY <1>9, <2>2, <2>3 DEF Respond
<1>10. CASE Receive(j)
  <2>1. job[j].stage \in Running /\ UNCHANGED file
    BY <1>10 DEF Receive, At, Running, Pulling
  <2>2. CASE End(j, "failed")  BY <1>3, <2>1, <2>2 DEF Final
  <2>3. CASE job' = job  BY <1>4, <2>1, <2>3
  <2> QED  BY <1>10, <2>2, <2>3 DEF Receive
<1>11. CASE EndStream(j)
  <2>1. OnOrder(j) /\ UNCHANGED file /\ GoTo(j, "checking")
    BY <1>11 DEF EndStream, At, OnOrder, Running, Pulling, dirVars
  <2> QED  BY <1>2, <2>1
<1>12. CASE Digest(j)
  <2>1. /\ job[j].stage = "checking" /\ UNCHANGED file
        /\ job' = [job EXCEPT ![j].digest = part[job[j].name], ![j].stage = "checked"]
    BY <1>12 DEF Digest, At, dirVars
  <2>2. /\ job'[j].stage = "checked" /\ job'[j].file = job[j].file
        /\ job'[j].name = job[j].name /\ job'[j].force = job[j].force
        /\ \A k \in Jobs : k # j => job'[k] = job[k]
    BY <1>0, <2>1 DEF Job
  <2>3. OnOrder(j) /\ OnOrder(j)'  BY <2>1, <2>2 DEF OnOrder, Running, Pulling
  <2> QED  BY <2>1, <2>2, <2>3, WorkIsUnseen
<1>13. CASE Record(j)
  BY <1>3, <1>13 DEF Record, dirVars, Final, Running
<1>14. CASE Stop(j)
  <2>1. PICK stage \in Final : End(j, stage)  BY <1>14 DEF Stop, Final
  <2> QED  BY <1>3, <1>14, <2>1 DEF Stop
<1> QED
  BY <1>5, <1>6, <1>7, <1>8, <1>9, <1>10, <1>11, <1>12, <1>13, <1>14 DEF Step

LEMMA LibraryStep ==
    ASSUME AllHashed, Content, Content', [Next]_vars
    PROVE  [Library!Next]_(Library!vars)
<1>1. CASE \E j \in Jobs, f \in Files, n \in Names, force \in BOOLEAN :
              AskImport(j, f, n, force) \/ AskPull(j, f, n, force)
  <2>1. PICK j \in Jobs, f \in Files, n \in Names, force \in BOOLEAN : Ask(j, f, n, force)
    BY <1>1 DEF AskImport, AskPull
  <2>2. TypeOK'  BY DEF Content, Inv
  <2> QED  BY <2>1, <2>2, AskPlaces
<1>2. CASE \E n \in Names : Delete(n)  BY <1>2, DeleteDeletes
<1>3. CASE \E j \in Jobs : Step(j) \/ Stop(j)  BY <1>3, StepsAreOrders
<1>4. CASE Crash
  <2>1. \A k \in Jobs : ~OnOrder(k)'
    BY <1>4 DEF Crash, Content, Inv, TypeOK, Job, OnOrder, Final, Running, Pulling
  <2>2. OpenOrders' = {}
    <3>1. OpenOrders' = {OrderOf(k)' : k \in {i \in Jobs : OnOrder(i)'}}  BY DEF OpenOrders
    <3> QED  BY <2>1, <3>1
  <2>3. UNCHANGED Shelf  BY <1>4 DEF Crash, dirVars, Shelf
  <2>4. Library!GiveUp(OpenOrders)  BY <2>2, <2>3 DEF Library!GiveUp
  <2> QED  BY <2>4 DEF Library!Next
<1>5. CASE UNCHANGED vars
  <2>1. \A k \in Jobs : (OnOrder(k)' <=> OnOrder(k)) /\ (OnOrder(k) => OrderOf(k)' = OrderOf(k))
    BY <1>5 DEF vars, OnOrder, OrderOf
  <2> QED  BY <1>5, <2>1, OrdersStay DEF vars, dirVars
<1> QED  BY <1>1, <1>2, <1>3, <1>4, <1>5 DEF Next

LEMMA LibraryInit ==
    ASSUME Init
    PROVE  Library!Init
<1>1. \A j \in Jobs : job[j].stage = "done"  BY DEF Init, NoJob
<1>2. OpenOrders = {}  BY <1>1 DEF OpenOrders, OnOrder, Running, Pulling
<1>3. DOMAIN file = {}  BY DEF Init, NoFiles
<1>4. Shelf = [n \in {} |-> n]  BY <1>3 DEF Shelf
<1> QED  BY <1>2, <1>4 DEF Library!Init

\* The directory of models and its jobs implement the library (ModelLibrary), where every
\* SHA256 is known: what appears under a name is the file that was ordered for it, whole and at
\* once, and only if the name is free then or the order has force; what fails, is cancelled or
\* dies with the process changes nothing (run_import, run_pull, delete_model).
THEOREM DirectoryIsALibrary ==
    ASSUME Inhabited, AllHashed
    PROVE  Spec => LibraryIsKept
<1>1. Spec => []Content
  <2>1. Init => Content  BY ContentAtStart, Inhabited
  <2>2. Content /\ [Next]_vars => Content'  BY AllHashed, ContentIsKept
  <2> QED  BY <2>1, <2>2, PTL DEF Spec
<1>2. Init => Library!Init  BY LibraryInit
<1>3. Content /\ Content' /\ [Next]_vars => [Library!Next]_(Library!vars)
  BY AllHashed, LibraryStep
<1> QED  BY <1>1, <1>2, <1>3, PTL DEF Spec, LibraryIsKept, Library!Spec
=============================================================================
