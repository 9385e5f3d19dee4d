----------------------------- MODULE ModelStore -----------------------------
(***************************************************************************)
(* The models directory and the jobs that fill it: importing a local GGUF  *)
(* file, pulling one from a hub or a URL, deleting one (app/admin/         *)
(* models.py, app/admin/jobs.py, app/api/models_routes.py).                *)
(*                                                                         *)
(* A model is a sequence of blocks, each known by the file it comes from;  *)
(* its SHA256 is the sequence itself. Jobs are tasks of one event loop: a  *)
(* step runs from one await to the next, and a process that dies loses the *)
(* jobs and the claims and keeps the directory.                            *)
(***************************************************************************)
EXTENDS Integers, Sequences, FiniteSets

CONSTANTS
    Names,      \* names of models
    InUse,      \* the one the engine has loaded, the one MODEL_FILE names
    Local,      \* files of the host
    Remote,     \* files of the hub and of other servers
    Size,       \* of each file, in blocks
    Announced,  \* remote files whose server says how long they are
    Hashed,     \* remote files whose SHA256 the hub or the administrator gives
    Ranged,     \* remote files whose server can send a part
    MaxBytes,   \* MODEL_PULL_MAX_BYTES, in blocks
    Jobs,
    MaxAsks,    \* requests made
    MaxCrashes

Files == Local \cup Remote

ASSUME ConstantsAssumption ==
    /\ InUse \subseteq Names /\ Local \cap Remote = {}
    /\ Size \in [Files -> Nat \ {0}]
    /\ Announced \subseteq Remote /\ Hashed \subseteq Remote /\ Ranged \subseteq Announced
    /\ MaxBytes \in Nat /\ MaxAsks \in Nat /\ MaxCrashes \in Nat

VARIABLES
    file,        \* models: the blocks by name
    hash,        \* <name>.sha256
    part,        \* <name>.part
    active,      \* _active, the names claimed
    job,
    asks, crashes

dirVars == <<file, hash, part>>
vars == <<dirVars, active, job, asks, crashes>>

Final   == {"done", "failed", "refused", "cancelled"}
\* Stages at which a pull holds its claim; an import holds its own until it has ended.
Pulling == {"requesting", "receiving", "checking", "checked"}
Running == {"asked", "copying", "recording"} \cup Pulling

Job == [file : Files, name : Names, force : BOOLEAN, stage : Final \cup Running, digest : Seq(Files)]
NoJob(f, n) == [file |-> f, name |-> n, force |-> FALSE, stage |-> "done", digest |-> <<>>]

Imports(j) == job[j].file \in Local
Claims(j) == job[j].stage \in Pulling \/ (Imports(j) /\ job[j].stage \in Running)

Put(table, n, content) == [m \in DOMAIN table \cup {n} |-> IF m = n THEN content ELSE table[m]]
Drop(table, n) == [m \in DOMAIN table \ {n} |-> table[m]]

Whole(f) == [i \in 1..Size[f] |-> f]
IsDirectory(d) == DOMAIN d \subseteq Names /\ \A n \in DOMAIN d : d[n] \in Seq(Files)

TypeOK ==
    /\ IsDirectory(file) /\ IsDirectory(hash) /\ IsDirectory(part)
    /\ active \subseteq Names
    /\ job \in [Jobs -> Job]
    /\ asks \in Nat /\ crashes \in Nat

NoFiles == [n \in {} |-> <<>>]

Init ==
    /\ file = NoFiles /\ hash = NoFiles /\ part = NoFiles
    /\ active = {}
    /\ job = [j \in Jobs |-> NoJob(CHOOSE f \in Files : TRUE, CHOOSE n \in Names : TRUE)]
    /\ asks = 0 /\ crashes = 0

-----------------------------------------------------------------------------
(* Requests *)

Free(n, force) == force \/ n \notin DOMAIN file

Ask(j, f, n, force) ==
    /\ job[j].stage \in Final /\ asks < MaxAsks
    /\ Free(n, force)
    /\ asks' = asks + 1
    /\ job' = [job EXCEPT ![j] = [file |-> f, name |-> n, force |-> force,
                                  stage |-> "asked", digest |-> <<>>]]
    /\ UNCHANGED <<dirVars, crashes>>

Claim(n) == n \notin active /\ active' = active \cup {n}

\* import_model: prepare_import, the claim, the job.
AskImport(j, f, n, force) == f \in Local /\ Ask(j, f, n, force) /\ Claim(n)

\* pull_model: prepare_pull. The job claims the name later, once it knows it.
AskPull(j, f, n, force) == f \in Remote /\ Ask(j, f, n, force) /\ UNCHANGED active

\* delete_model, refused for the model in use. Its .part stays.
Delete(n) ==
    /\ n \in DOMAIN file \ InUse
    /\ file' = Drop(file, n) /\ hash' = Drop(hash, n)
    /\ UNCHANGED <<part, active, job, asks, crashes>>

-----------------------------------------------------------------------------
(* Jobs *)

BugMisspelt(j, stage) ==
    job' = [job EXCEPT ![j].stage = IF stage = "cancelled" THEN "canceled" ELSE stage]
GoTo(j, stage) == job' = [job EXCEPT ![j].stage = stage]
At(j, kind, stage) == job[j].file \in kind /\ job[j].stage = stage

\* The claim of an import is released when its job has ended, however it ends; that of
\* a pull when run_pull returns.
BugKeptOnFailure(j, stage) ==
    IF Claims(j) /\ (stage = "done" \/ ~Imports(j)) THEN active \ {job[j].name} ELSE active
ReleasedAt(j, stage) ==
    IF Claims(j) /\ (stage \in Final \/ ~Imports(j)) THEN active \ {job[j].name} ELSE active

BugRetries(j, stage) ==
    GoTo(j, IF stage = "refused" THEN "asked" ELSE stage) /\ active' = ReleasedAt(j, stage)
End(j, stage) == GoTo(j, stage) /\ active' = ReleasedAt(j, stage)

Quiet == UNCHANGED <<asks, crashes>>

\* The job fails, or is cancelled at its next await. An import in the middle of its copy
\* leaves no .part; a pull keeps the bytes it received, to resume.
PartAfterStop(j) ==
    IF Imports(j) /\ job[j].stage \in {"asked", "copying"} THEN Drop(part, job[j].name) ELSE part

Stop(j) ==
    /\ job[j].stage \in Running
    /\ \E stage \in {"failed", "cancelled"} : End(j, stage)
    /\ part' = PartAfterStop(j)
    /\ UNCHANGED <<file, hash>> /\ Quiet

\* os.replace, and the SHA256 of the new file beside it.
Install(j, digest) ==
    LET n == job[j].name IN
    /\ file' = Put(file, n, part[n]) /\ part' = Drop(part, n)
    /\ hash' = Put(hash, n, digest)
    /\ End(j, "recording")

\* run_import opens <name>.part, whatever is there, and copies block by block.
OpenCopy(j) ==
    /\ At(j, Local, "asked")
    /\ part' = Put(part, job[j].name, <<>>)
    /\ GoTo(j, "copying")
    /\ UNCHANGED <<file, hash, active>> /\ Quiet

CopyBlock(j) ==
    LET n == job[j].name IN
    /\ At(j, Local, "copying") /\ Len(part[n]) < Size[job[j].file]
    /\ part' = [part EXCEPT ![n] = Append(@, job[j].file)]
    /\ UNCHANGED <<file, hash, active, job>> /\ Quiet

\* A copy whose length is not the one of the plan is not kept: see Stop.
FinishCopy(j) ==
    LET n == job[j].name IN
    /\ At(j, Local, "copying") /\ Len(part[n]) = Size[job[j].file]
    /\ Install(j, part[n]) /\ Quiet

BugChecksOnce(j) ==
    /\ At(j, Remote, "asked") /\ Claim(job[j].name) /\ GoTo(j, "requesting")
    /\ UNCHANGED <<dirVars, asks, crashes>>
\* run_pull: the name may have been taken, or claimed, since the request.
Begin(j) ==
    /\ At(j, Remote, "asked")
    /\ LET n == job[j].name IN
       \/ Free(n, job[j].force) /\ Claim(n) /\ GoTo(j, "requesting")
       \/ ~Free(n, job[j].force) /\ GoTo(j, "failed") /\ UNCHANGED active
       \/ n \in active /\ GoTo(j, "failed") /\ UNCHANGED active
    /\ UNCHANGED <<dirVars>> /\ Quiet

Received(n) == IF n \in DOMAIN part THEN Len(part[n]) ELSE 0

\* _download asks for what follows the .part it finds, whoever left it. A server that
\* cannot send a part starts again; one that has nothing left to send answers 416.
Respond(j) ==
    LET n == job[j].name
        f == job[j].file
        resumed == Received(n) > 0 /\ f \in Ranged
        tooLong == f \in Announced /\ Size[f] > MaxBytes
        refused == (resumed /\ Received(n) >= Size[f]) \/ tooLong IN
    /\ At(j, Remote, "requesting")
    /\ \/ refused /\ End(j, "refused") /\ UNCHANGED part
       \/ /\ ~refused
          /\ part' = IF resumed THEN part ELSE Put(part, n, <<>>)
          /\ GoTo(j, "receiving") /\ UNCHANGED active
    /\ UNCHANGED <<file, hash>> /\ Quiet

Receive(j) ==
    LET n == job[j].name
        f == job[j].file IN
    /\ At(j, Remote, "receiving") /\ Received(n) < Size[f]
    /\ \/ /\ Received(n) < MaxBytes
          /\ part' = [part EXCEPT ![n] = Append(@, f)] /\ UNCHANGED <<active, job>>
       \/ /\ Received(n) >= MaxBytes
          /\ part' = Drop(part, n) /\ End(j, "failed")
    /\ UNCHANGED <<file, hash>> /\ Quiet

\* The stream ends. Where the length was announced, a short one is an interrupted pull
\* (see Stop); where it was not, nothing tells a short one.
EndStream(j) ==
    LET f == job[j].file IN
    /\ At(j, Remote, "receiving")
    /\ f \in Announced => Received(job[j].name) = Size[f]
    /\ GoTo(j, "checking")
    /\ UNCHANGED <<dirVars, active>> /\ Quiet

\* sha256_of, in a thread: other jobs run meanwhile.
Digest(j) ==
    /\ At(j, Remote, "checking")
    /\ job' = [job EXCEPT ![j].digest = part[job[j].name], ![j].stage = "checked"]
    /\ UNCHANGED <<dirVars, active>> /\ Quiet

BugAnyDigest(j) == TRUE
Verified(j) == job[j].file \in Hashed => job[j].digest = Whole(job[j].file)

FinishPull(j) ==
    /\ At(j, Remote, "checked")
    /\ \/ Verified(j) /\ Install(j, job[j].digest)
       \/ /\ ~Verified(j)
          /\ part' = Drop(part, job[j].name) /\ End(j, "failed")
          /\ UNCHANGED <<file, hash>>
    /\ Quiet

\* The event model.import or model.pull is committed, and the job is done.
Record(j) ==
    /\ job[j].stage = "recording"
    /\ End(j, "done")
    /\ UNCHANGED dirVars /\ Quiet

Step(j) ==
    \/ OpenCopy(j) \/ CopyBlock(j) \/ FinishCopy(j)
    \/ Begin(j) \/ Respond(j) \/ Receive(j) \/ EndStream(j) \/ Digest(j) \/ FinishPull(j)
    \/ Record(j)

\* The process dies between two steps. (Within one, a new file can be left beside the
\* hash of the file it replaced: that is not modelled.)
Crash ==
    /\ crashes < MaxCrashes
    /\ crashes' = crashes + 1
    /\ job' = [j \in Jobs |-> IF job[j].stage \in Running THEN [job[j] EXCEPT !.stage = "failed"] ELSE job[j]]
    /\ active' = {}
    /\ UNCHANGED <<dirVars, asks>>

Next ==
    \/ \E j \in Jobs, f \in Files, n \in Names, force \in BOOLEAN :
          AskImport(j, f, n, force) \/ AskPull(j, f, n, force)
    \/ \E n \in Names : Delete(n)
    \/ \E j \in Jobs : Step(j) \/ Stop(j)
    \/ Crash

Spec == Init /\ [][Next]_vars

\* A job goes on: a copy is made of local reads, and a pull has a time limit
\* (MODEL_PULL_TIMEOUT_SECONDS), so it is never left waiting for a server.
FairSpec == Spec /\ \A j \in Jobs : WF_vars(Step(j) \/ Stop(j))

-----------------------------------------------------------------------------
(* Properties *)

\* A model in the directory is one whole file, whatever was interrupted, resumed, imported
\* and pulled under its name before (os.replace of a checked .part), and the SHA256 recorded
\* beside it is its own.
ModelsAreWhole ==
    /\ \A n \in DOMAIN file : \E f \in Files : file[n] = Whole(f)
    /\ \A n \in DOMAIN hash : n \in DOMAIN file /\ hash[n] = file[n]

\* A model is only replaced by a job that was told to (force), although the name is
\* looked at long before the file is put in place.
ReplacedOnlyByForce ==
    [][\A n \in DOMAIN file \cap DOMAIN file' :
          file'[n] # file[n] => \E j \in Jobs : job[j].name = n /\ job[j].force /\ Claims(j)]_vars

\* The directory is a library: which model of a name is whole, and what is on order.
Shelf == [n \in DOMAIN file |-> CHOOSE f \in Files : file[n] = Whole(f)]
OnOrder(j) == job[j].stage \in Running \ {"recording"}
OrderOf(j) == [by |-> j, file |-> job[j].file, name |-> job[j].name, force |-> job[j].force]
OpenOrders == {OrderOf(j) : j \in {i \in Jobs : OnOrder(i)}}

Library == INSTANCE ModelLibrary WITH Clients <- Jobs, shelf <- Shelf, open <- OpenOrders

\* Whatever interleaving of requests, copies, downloads, failures and crashes, the directory
\* changes as ModelLibrary says: a name gets the file that was ordered for it, whole and in one
\* step, if it is then still free or the order has force, and loses it to a deletion only.
LibraryIsKept == Library!Spec

\* A name is claimed as long as a job needs it and no longer: a claim left behind would
\* refuse the name until the next start.
ClaimsMatchJobs == active = {job[j].name : j \in {i \in Jobs : Claims(i)}}

\* Every job ends, whatever it waits for; with ClaimsMatchJobs its name becomes free again.
EveryJobEnds == \A j \in Jobs : job[j].stage \in Running ~> job[j].stage \in Final
=============================================================================
