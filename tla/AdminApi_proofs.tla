--------------------------- MODULE AdminApi_proofs ---------------------------
(***************************************************************************)
(* What holds of the Admin API for every set of requests, service calls,   *)
(* variables, addresses, limits and pages: the encryption key is kept, the *)
(* API implements AtomicRequests, guesses are limited, a search answers    *)
(* what the log held when it began, and the types.                         *)
(***************************************************************************)
EXTENDS AdminApi, FiniteSetTheorems, SequenceTheorems, TLAPS

----------------------------------------------------------------------------
(* The settings file *)

Stages == {"none", "read", "held", "emptied", "backed", "cleared"}
Save   == [at : Stages, name : Names, lines : File, previous : File]

\* A save has the key among what it has read; the file has it until the save empties it, and
\* by then the backup has it too.
KeyAt(s) ==
    Saving(s) =>
        /\ SecretKey \in save[s].lines
        /\ save[s].at # "cleared" => SecretKey \in env
        /\ save[s].at \in {"held", "emptied", "backed", "cleared"} => SecretKey \in save[s].previous
        /\ save[s].at \in {"backed", "cleared"} => SecretKey \in bak

FileInv ==
    /\ env \in File /\ bak \in File /\ save \in [Savers -> Save]
    /\ ~blind /\ ~overlap =>
         /\ SecretKey \in env \cup bak
         /\ \A s, o \in Savers : Saving(s) /\ Saving(o) => s = o
         /\ \A s \in Savers : KeyAt(s)

FileStep(s) ==
    (\E name \in Names : Begin(s, name)) \/ Refuse(s) \/ Unfinished(s) \/ WriteFile(s) \/ CutShort(s)

USE SettingsAssumption, RequestsAssumption

LEMMA FileInit == SettingsInit => FileInv
BY DEF SettingsInit, FileInv, NoSave, Save, Stages, Saving, KeyAt, File

LEMMA FileKept ==
    ASSUME FileInv, NEW s \in Savers, FileStep(s)
    PROVE  FileInv'
<1> USE DEF FileInv, Save, Stages, Saving, KeyAt, File
<1>1. ASSUME NEW name \in Names, Begin(s, name)
      PROVE  FileInv'
  BY <1>1 DEF Begin, NoSave
<1>2. CASE Refuse(s)      BY <1>2 DEF Refuse, NoSave
<1>3. CASE ReadPrevious(s)
  <2> DEFINE read == [save[s] EXCEPT !.at = "held", !.previous = env]
  <2>0. read \in Save
    <3>1. save[s] \in Save /\ env \in File
      BY DEF FileInv
    <3>2. "held" \in Stages
      BY DEF Stages
    <3>3. QED BY ONLY <3>1, <3>2 DEF Save
  <2>1. save' = [save EXCEPT ![s] = read] /\ save' \in [Savers -> Save]
    BY <1>3, <2>0 DEF ReadPrevious
  <2>2. \A o \in Savers : Saving(o)' => Saving(o)
    BY <1>3 DEF ReadPrevious
  <2>3. ASSUME ~blind, ~overlap, NEW o \in Savers
        PROVE  KeyAt(o)'
    <3>1. CASE o = s  BY <3>1, <2>3, <1>3 DEF ReadPrevious
    <3>2. CASE o # s  BY <3>2, <2>3, <1>3 DEF ReadPrevious
    <3>3. QED BY <3>1, <3>2
  <2>4. QED BY <2>1, <2>2, <2>3, <1>3 DEF ReadPrevious
<1>4. CASE EmptyBackup(s) BY <1>4 DEF EmptyBackup, Goes
<1>5. CASE WriteBackup(s) BY <1>5 DEF WriteBackup, Goes
<1>6. CASE EmptyFile(s)   BY <1>6 DEF EmptyFile, Goes
<1>7. CASE WriteFile(s)   BY <1>7 DEF WriteFile, NoSave
<1>8. CASE CutShort(s)    BY <1>8 DEF CutShort, NoSave
<1>9. QED BY <1>1, <1>2, <1>3, <1>4, <1>5, <1>6, <1>7, <1>8, FileStep(s) DEF FileStep, Unfinished

----------------------------------------------------------------------------
(* The requests *)

Every   == Steps \cup Kinds
Places  == {"new", "handler", "saving", "reading", "committed", "over"}
Request == [at : Places, kind : Kinds, todo : SUBSET Every, answer : Answers]

PipeTypeOK ==
    /\ req \in [Requests -> Request]
    /\ made \in [Requests -> SUBSET Every] /\ noted \in [Requests -> SUBSET Every]

\* What a request asks for agrees with its kind.
Asked(r) ==
    /\ req[r].kind = "change" => req[r].todo \subseteq Steps
    /\ req[r].kind # "change" => req[r].todo = {req[r].kind}
    /\ At(r, "new") => req[r].todo = {} /\ req[r].kind = "change"
    /\ Open(r) => req[r].todo # {}

\* A transaction holds part of what is asked: changes, then their events.
InTransaction(r) ==
    /\ made[r] \subseteq req[r].todo \cap Steps /\ noted[r] \subseteq req[r].todo
    /\ req[r].kind = "change" => noted[r] \subseteq made[r]
    /\ noted[r] # {} /\ req[r].kind = "config" => r \in written

\* Nothing is in the database before the commit, and everything once it is made.
InDatabase(r) ==
    /\ ~At(r, "over") => req[r].answer = "none"
    /\ req[r].at \in {"new", "handler", "saving", "reading"} => \A c \in Every : <<r, c>> \notin events
    /\ At(r, "committed") => \A c \in req[r].todo : <<r, c>> \in events

\* Only a request about the settings writes their file, and once.
InFile(r) ==
    /\ r \in written => req[r].kind = "config"
    /\ At(r, "saving") => req[r].kind = "config" /\ r \notin written

PipeInv ==
    PipeTypeOK /\ \A r \in Requests : Asked(r) /\ InTransaction(r) /\ InDatabase(r) /\ InFile(r)

LEMMA PipeInit == Init => PipeInv
BY DEF Init, PipeInv, PipeTypeOK, Request, Places, Kinds, Answers, Every,
       Asked, InTransaction, InDatabase, InFile, At, Open

LEMMA EndsKeeps ==
    ASSUME PipeInv, NEW r \in Requests, NEW answer \in Answers, Ends(r, answer)
    PROVE  PipeInv'
<1> USE DEF PipeInv, PipeTypeOK, Request, Places, Every, Asked, InTransaction, InDatabase, InFile,
            At, Open
<1> DEFINE over == [req[r] EXCEPT !.at = "over", !.answer = answer]
<1>1. /\ req' = [req EXCEPT ![r] = over]
      /\ made' = [made EXCEPT ![r] = {}] /\ noted' = [noted EXCEPT ![r] = {}]
      /\ UNCHANGED <<rows, events, written>>
  BY DEF Ends, RollBack
<1>2. /\ over \in Request
      /\ over.at = "over" /\ over.kind = req[r].kind /\ over.todo = req[r].todo
      /\ over.answer = answer
  <2>1. req[r] \in Request
    OBVIOUS
  <2>2. QED BY ONLY <2>1, answer \in Answers DEF Request, Places
<1> HIDE DEF over
<1>3. PipeTypeOK'
  BY <1>1, <1>2
<1>4. ASSUME NEW q \in Requests
      PROVE  (Asked(q) /\ InTransaction(q) /\ InDatabase(q) /\ InFile(q))'
  <2>1. CASE q = r
    BY <2>1, <1>1, <1>2
  <2>2. CASE q # r
    <3>1. req'[q] = req[q] /\ made'[q] = made[q] /\ noted'[q] = noted[q]
      BY <2>2, <1>1
    <3>2. QED BY <3>1, <1>1
  <2>3. QED BY <2>1, <2>2
<1>5. QED BY <1>3, <1>4

LEMMA AcceptKeeps ==
    ASSUME PipeInv, NEW r \in Requests, NEW a \in Addresses, NEW kind \in Kinds,
           NEW todo \in SUBSET Every, todo # {},
           kind = "change" => todo \subseteq Steps, kind # "change" => todo = {kind},
           Accept(r, a, kind, todo)
    PROVE  PipeInv'
BY DEF PipeInv, PipeTypeOK, Request, Places, Every, Asked, InTransaction, InDatabase, InFile,
       At, Open, Accept, Kinds, Answers

LEMMA PipeKept ==
    ASSUME PipeInv, [Next]_vars
    PROVE  PipeInv'
<1>3. ASSUME NEW r \in Requests, NEW a \in Addresses, ArriveChange(r, a)
      PROVE  PipeInv'
  <2>1. PICK todo : todo \in SUBSET Steps /\ todo # {} /\ Accept(r, a, "change", todo)
    BY <1>3, Zenon DEF ArriveChange
  <2>2. todo \in SUBSET Every /\ todo # {} /\ todo \subseteq Steps /\ "change" \in Kinds
    BY <2>1 DEF Every, Kinds
  <2>3. QED BY <2>1, <2>2, AcceptKeeps
<1>4. ASSUME NEW r \in Requests, NEW a \in Addresses, ArriveConfig(r, a)
      PROVE  PipeInv'
  BY <1>4, AcceptKeeps DEF ArriveConfig, Every, Kinds
<1>9. ASSUME NEW r \in Requests, Answer(r) \/ Refused(r) \/ Failed(r) \/ TimeLimit(r)
      PROVE  PipeInv'
  BY <1>9, EndsKeeps DEF Answer, Refused, Failed, TimeLimit, Answers
<1> USE DEF PipeInv, PipeTypeOK, Request, Places, Every, Asked, InTransaction, InDatabase, InFile,
            At, Open, Kinds, Answers
<1>1. CASE UNCHANGED pipeVars
  BY <1>1 DEF pipeVars
<1>2. ASSUME NEW r \in Requests, NEW a \in Addresses, TurnAway(r, a)
      PROVE  PipeInv'
  BY <1>2 DEF TurnAway
<1>5. ASSUME NEW r \in Requests, NEW a \in Addresses, ArriveSearch(r, a)
      PROVE  PipeInv'
  BY <1>5 DEF ArriveSearch
<1>6. ASSUME NEW r \in Requests, NEW call \in Steps \cup Kinds, Change(r, call)
      PROVE  PipeInv'
  BY <1>6 DEF Change, CanWrite
<1>7. ASSUME NEW r \in Requests, NEW call \in Steps \cup Kinds, Record(r, call)
      PROVE  PipeInv'
  BY <1>7 DEF Record, CanWrite
<1>8. ASSUME NEW r \in Requests, Commit(r)
      PROVE  PipeInv'
  BY <1>8 DEF Commit
<1>10. ASSUME NEW r \in Requests, NEW name \in Names, SaveBegins(r, name)
       PROVE  PipeInv'
  BY <1>10 DEF SaveBegins
<1>11. ASSUME NEW r \in Requests, SaveEnds(r)
       PROVE  PipeInv'
  BY <1>11 DEF SaveEnds
<1>12. ASSUME NEW r \in Requests, SaveRefused(r)
       PROVE  PipeInv'
  BY <1>12 DEF SaveRefused
<1>13. ASSUME NEW r \in Requests, SearchBatch(r)
       PROVE  PipeInv'
  BY <1>13 DEF SearchBatch
<1>14. CASE Restart
  <2> DEFINE cut(r) == [req[r] EXCEPT !.at = "over", !.answer = "cut"]
  <2>1. /\ req' = [r \in Requests |-> IF Open(r) THEN cut(r) ELSE req[r]]
        /\ made' = [r \in Requests |-> {}] /\ noted' = [r \in Requests |-> {}]
        /\ UNCHANGED <<rows, events, written>>
    BY ONLY <1>14 DEF Restart
  <2>5. ASSUME NEW r \in Requests
        PROVE  /\ cut(r) \in Request
               /\ cut(r).at = "over" /\ cut(r).kind = req[r].kind /\ cut(r).todo = req[r].todo
               /\ cut(r).answer = "cut"
    <3>1. req[r] \in Request
      OBVIOUS
    <3>2. QED BY ONLY <3>1 DEF Request, Places, Answers
  <2> HIDE DEF cut
  <2>2. PipeTypeOK'
    BY <2>1, <2>5
  <2>3. ASSUME NEW r \in Requests
        PROVE  (Asked(r) /\ InTransaction(r) /\ InDatabase(r) /\ InFile(r))'
    <3>1. CASE Open(r)
      <4>1. req'[r] = cut(r)
        BY <2>1, <3>1
      <4>2. QED BY <4>1, <2>1, <2>5
    <3>2. CASE ~Open(r)
      <4>1. req'[r] = req[r]
        BY <2>1, <3>2
      <4>2. QED BY <4>1, <2>1, <3>2
    <3>3. QED BY <3>1, <3>2
  <2>4. QED BY <2>2, <2>3
<1>15. (\E a \in Addresses : Guess(a)) \/ Turn \/ Purge \/ Script \/ Clock
         \/ (\E r \in Requests : SaveGoesOn(r)) => UNCHANGED pipeVars
  BY DEF Guess, Turn, Purge, Script, Clock, SaveGoesOn
<1>16. QED
  BY <1>1, <1>2, <1>3, <1>4, <1>5, <1>6, <1>7, <1>8, <1>9, <1>10, <1>11, <1>12, <1>13, <1>14,
     <1>15 DEF Next, vars

----------------------------------------------------------------------------
(* The theorems *)

LEMMA FileAlways == Spec => []FileInv
<1>1. Init => FileInv
  BY FileInit DEF Init
<1>2. ASSUME FileInv, [Next]_vars
      PROVE  FileInv'
  <2>1. CASE UNCHANGED settingsVars
    BY <1>2, <2>1 DEF settingsVars, FileInv, Saving, KeyAt
  <2>2. ASSUME NEW s \in Savers, FileStep(s)
        PROVE  FileInv'
    BY <2>2, <1>2, FileKept
  <2>3. ASSUME NEW r \in Requests, NEW name \in Names, SaveBegins(r, name)
        PROVE  FileStep("api")
    BY <2>3 DEF SaveBegins, FileStep
  <2>4. ASSUME NEW r \in Requests, SaveGoesOn(r) \/ SaveEnds(r) \/ SaveRefused(r)
        PROVE  FileStep("api")
    BY <2>4 DEF SaveGoesOn, SaveEnds, SaveRefused, FileStep
  <2>5. Script => FileStep("script")
    BY DEF Script, FileStep
  <2>6. Restart => FileStep("api")
    BY DEF Restart, FileStep
  <2>7. ASSUME NEW r \in Requests, NEW answer \in Answers, Ends(r, answer)
        PROVE  UNCHANGED settingsVars
    BY <2>7 DEF Ends
  <2>8. ASSUME NEW r \in Requests,
               \/ Commit(r) \/ SearchBatch(r) \/ (\E call \in Steps \cup Kinds : Change(r, call) \/ Record(r, call))
               \/ (\E a \in Addresses : TurnAway(r, a) \/ ArriveChange(r, a) \/ ArriveConfig(r, a)
                                          \/ ArriveSearch(r, a))
        PROVE  UNCHANGED settingsVars
    BY <2>8 DEF Commit, SearchBatch, Change, Record, TurnAway, ArriveChange, ArriveConfig,
                ArriveSearch, Accept
  <2>9. Turn \/ Purge \/ Clock \/ (\E a \in Addresses : Guess(a)) => UNCHANGED settingsVars
    BY DEF Turn, Purge, Clock, Guess
  <2>10. ASSUME NEW r \in Requests, Answer(r) \/ Refused(r) \/ Failed(r) \/ TimeLimit(r)
         PROVE  UNCHANGED settingsVars
    BY <2>10, <2>7 DEF Answer, Refused, Failed, TimeLimit, Answers
  <2>11. "api" \in Savers /\ "script" \in Savers
    BY DEF Savers
  <2>12. CASE UNCHANGED vars
    BY <2>12, <2>1 DEF vars
  <2>13. CASE Script \/ Restart
    BY <2>13, <2>5, <2>6, <2>2, <2>11
  <2>14. QED
    BY <1>2, <2>1, <2>2, <2>3, <2>4, <2>8, <2>9, <2>10, <2>11, <2>12, <2>13 DEF Next
<1>3. QED BY <1>1, <1>2, PTL DEF Spec

\* Whatever the API and the script write, and wherever they are cut short, the encryption key
\* is in the settings file or in its backup, but for the two cases KeyIsKept names.
THEOREM KeyStays == Spec => []KeyIsKept
<1>1. FileInv => KeyIsKept
  BY DEF FileInv, KeyIsKept
<1>2. QED BY <1>1, FileAlways, PTL

LEMMA PipeAlways == Spec => []PipeInv
<1>1. QED BY PipeInit, PipeKept, PTL DEF Spec

AskedOf  == [r \in Requests |-> req[r].todo]
AnswerOf == [r \in Requests |-> req[r].answer]

\* An answer given to an open request is a reply of the abstract specification.
LEMMA EndsReplies ==
    ASSUME PipeInv, NEW r \in Requests, NEW answer \in {"ok", "refused", "failed", "late"},
           Ends(r, answer), req[r].answer = "none",
           answer = "ok" => Atomic!CarriedOut(r),
           answer = "failed" => ~Atomic!CarriedOut(r),
           answer = "refused" => ~Atomic!CarriedOut(r) /\ r \notin written
    PROVE  Atomic!Reply(r, answer)
<1>1. /\ req' = [req EXCEPT ![r] = [@ EXCEPT !.at = "over", !.answer = answer]]
      /\ UNCHANGED <<rows, events, written>> /\ req \in [Requests -> Request]
  BY DEF Ends, RollBack, PipeInv, PipeTypeOK
<1>2. \A q \in Requests : req'[q].todo = req[q].todo
                         /\ req'[q].answer = IF q = r THEN answer ELSE req[q].answer
  BY <1>1 DEF Request
<1>3. AnswerOf[r] = "none" /\ AskedOf' = AskedOf /\ AnswerOf' = [AnswerOf EXCEPT ![r] = answer]
  BY <1>2 DEF AskedOf, AnswerOf
<1>4. QED BY <1>1, <1>3 DEF Atomic!Reply, AskedOf, AnswerOf

LEMMA NotCarriedOut ==
    ASSUME PipeInv, NEW r \in Requests, req[r].at \in {"new", "handler", "saving", "reading"}
    PROVE  ~Atomic!CarriedOut(r)
BY DEF PipeInv, InDatabase, Atomic!CarriedOut, Every, Kinds

\* A step that leaves what the abstract specification sees.
Unseen ==
    /\ UNCHANGED <<rows, events, written>>
    /\ AskedOf' = AskedOf /\ AnswerOf' = AnswerOf

LEMMA UnseenStutters == Unseen => UNCHANGED Atomic!vars
BY DEF Unseen, Atomic!vars, AskedOf, AnswerOf

LEMMA AcceptIsAccept ==
    ASSUME PipeInv, NEW r \in Requests, NEW kind \in Kinds, At(r, "new"),
           NEW calls, calls \in (SUBSET Steps) \cup {{"config"}, {"search"}},
           NEW at,
           req' = [req EXCEPT ![r].at = at, ![r].kind = kind, ![r].todo = calls],
           UNCHANGED <<rows, events, written>>
    PROVE  Atomic!Accept(r)
<1>1. /\ req \in [Requests -> Request] /\ req[r].answer = "none" /\ req[r].todo = {}
  BY DEF PipeInv, PipeTypeOK, InDatabase, Asked, At
<1>2. \A q \in Requests : req'[q].todo = (IF q = r THEN calls ELSE req[q].todo)
                         /\ req'[q].answer = req[q].answer
  BY <1>1 DEF Request
<1>3. AskedOf' = [AskedOf EXCEPT ![r] = calls] /\ AnswerOf' = AnswerOf
      /\ AskedOf[r] = {} /\ AnswerOf[r] = "none"
  BY <1>1, <1>2 DEF AskedOf, AnswerOf
<1>4. calls \in (SUBSET Steps) \cup {{other} : other \in {"config", "search"}}
  OBVIOUS
<1>5. QED BY <1>3, <1>4 DEF Atomic!Accept, AskedOf, AnswerOf

LEMMA CommitCarriesOut ==
    ASSUME PipeInv, NEW r \in Requests, Commit(r)
    PROVE  Atomic!CarryOut(r)
<1>1. /\ At(r, "handler") /\ noted[r] = req[r].todo
      /\ rows' = rows \cup ({r} \X made[r]) /\ events' = events \cup ({r} \X noted[r])
      /\ req' = [req EXCEPT ![r].at = "committed"] /\ UNCHANGED written
      /\ req \in [Requests -> Request]
  BY DEF Commit, PipeInv, PipeTypeOK
<1>2. Asked(r) /\ InTransaction(r) /\ InDatabase(r)
  BY DEF PipeInv
<1>3. req[r].todo # {} /\ req[r].answer = "none"
  BY <1>1, <1>2 DEF Asked, Open, At, InDatabase
<1>4. made[r] = req[r].todo \cap Steps
  <2>1. CASE req[r].kind = "change"
    BY <2>1, <1>1, <1>2 DEF InTransaction, Asked
  <2>2. CASE req[r].kind # "change"
    <3>1. req[r].kind \in Kinds
      BY <1>1 DEF Request
    <3>2. req[r].todo \cap Steps = {}
      BY <3>1, <2>2, <1>2 DEF Asked, Kinds
    <3>3. QED BY <3>2, <1>2 DEF InTransaction
  <2>3. QED BY <2>1, <2>2
<1>5. req[r].todo = {"config"} => r \in written
  <2>1. SUFFICES ASSUME req[r].todo = {"config"} PROVE r \in written
    OBVIOUS
  <2>2. req[r].kind = "config"
    BY <2>1, <1>2, <1>3 DEF Asked
  <2>3. QED BY <2>1, <2>2, <1>1, <1>2 DEF InTransaction
<1>6. ~Atomic!CarriedOut(r)
  BY <1>1, NotCarriedOut DEF At
<1>7. AskedOf' = AskedOf /\ AnswerOf' = AnswerOf /\ AskedOf[r] = req[r].todo /\ AnswerOf[r] = "none"
  BY <1>1, <1>3 DEF AskedOf, AnswerOf, Request
<1>8. QED BY <1>1, <1>3, <1>4, <1>5, <1>6, <1>7 DEF Atomic!CarryOut, AskedOf, AnswerOf

\* A request that gets its answer without the database: turned away, or a setting refused.
LEMMA RefusalReplies ==
    ASSUME PipeInv, NEW r \in Requests, req[r].at \in {"new", "saving"},
           req' = [req EXCEPT ![r].at = "over", ![r].answer = "refused"],
           UNCHANGED <<rows, events, written>>
    PROVE  Atomic!Reply(r, "refused")
<1>1. req \in [Requests -> Request] /\ Asked(r) /\ InDatabase(r) /\ InFile(r)
  BY DEF PipeInv, PipeTypeOK
<1>2. req[r].answer = "none" /\ r \notin written
  BY <1>1 DEF InDatabase, InFile, Asked, At
<1>3. \A q \in Requests : req'[q].todo = req[q].todo
                         /\ req'[q].answer = IF q = r THEN "refused" ELSE req[q].answer
  BY <1>1 DEF Request
<1>4. AnswerOf[r] = "none" /\ AskedOf' = AskedOf
      /\ AnswerOf' = [AnswerOf EXCEPT ![r] = "refused"]
  BY <1>2, <1>3 DEF AskedOf, AnswerOf
<1>5. ~Atomic!CarriedOut(r)
  BY NotCarriedOut
<1>6. QED BY <1>2, <1>4, <1>5 DEF Atomic!Reply, AskedOf, AnswerOf

LEMMA SaveWrites ==
    ASSUME PipeInv, NEW r \in Requests, SaveEnds(r)
    PROVE  Atomic!Write(r)
<1>1. /\ At(r, "saving") /\ req' = [req EXCEPT ![r].at = "handler"]
      /\ written' = written \cup {r} /\ UNCHANGED <<rows, events>>
      /\ req \in [Requests -> Request]
  BY DEF SaveEnds, PipeInv, PipeTypeOK
<1>2. req[r].answer = "none" /\ req[r].todo = {"config"}
  BY <1>1 DEF PipeInv, InDatabase, InFile, Asked, At
<1>3. AskedOf' = AskedOf /\ AnswerOf' = AnswerOf
      /\ AskedOf[r] = {"config"} /\ AnswerOf[r] = "none"
  BY <1>1, <1>2 DEF AskedOf, AnswerOf, Request
<1>4. QED BY <1>1, <1>3 DEF Atomic!Write, AskedOf, AnswerOf

LEMMA RestartCuts ==
    ASSUME PipeInv, Restart, NEW some \in SUBSET Requests, some = {r \in Requests : Open(r)}
    PROVE  Atomic!Cut(some)
<1>1. /\ req' = [r \in Requests |->
                   IF Open(r) THEN [req[r] EXCEPT !.at = "over", !.answer = "cut"] ELSE req[r]]
      /\ UNCHANGED <<rows, events, written>> /\ req \in [Requests -> Request]
  BY DEF Restart, PipeInv, PipeTypeOK
<1>2. \A r \in Requests : req'[r].todo = req[r].todo
                         /\ req'[r].answer = IF Open(r) THEN "cut" ELSE req[r].answer
  BY <1>1 DEF Request
<1>3. \A r \in Requests : Open(r) => req[r].answer = "none"
  BY DEF PipeInv, InDatabase, Open, At
<1>4. /\ AskedOf' = AskedOf
      /\ AnswerOf' = [r \in Requests |->
                        IF r \in some THEN "cut" ELSE AnswerOf[r]]
  BY <1>2 DEF AskedOf, AnswerOf
<1>5. QED BY <1>1, <1>3, <1>4 DEF Atomic!Cut, AskedOf, AnswerOf

\* A request in the hands of its handler, or past it, gets its answer.
LEMMA AnswersReply ==
    ASSUME PipeInv, NEW r \in Requests, Answer(r) \/ Refused(r) \/ Failed(r) \/ TimeLimit(r)
    PROVE  \E reply \in {"ok", "refused", "failed", "late"} : Atomic!Reply(r, reply)
<1>1. Asked(r) /\ InDatabase(r) /\ InFile(r) /\ req[r] \in Request
  BY DEF PipeInv, PipeTypeOK
<1>2. \A place \in {"handler", "reading", "committed"} : At(r, place) => req[r].answer = "none"
  BY <1>1 DEF InDatabase, At
<1>3. CASE Answer(r)
  <2>1. At(r, "committed") /\ Ends(r, "ok")
    BY <1>3 DEF Answer
  <2>2. PICK c \in req[r].todo : TRUE
    BY <2>1, <1>1 DEF Asked, Open, At
  <2>3. <<r, c>> \in events
    BY <2>1, <2>2, <1>1 DEF InDatabase
  <2>4. c \in Steps \cup {"config", "search"}
    BY <2>2, <1>1 DEF Asked, Request, Kinds
  <2>5. Atomic!CarriedOut(r)
    BY <2>3, <2>4 DEF Atomic!CarriedOut
  <2>6. QED BY <2>1, <2>5, <1>2, EndsReplies
<1>4. CASE Refused(r)
  <2>1. At(r, "handler") /\ req[r].kind = "change" /\ Ends(r, "refused")
    BY <1>4 DEF Refused
  <2>2. ~Atomic!CarriedOut(r)
    BY <2>1, NotCarriedOut DEF At
  <2>3. r \notin written
    BY <2>1, <1>1 DEF InFile
  <2>4. QED BY <2>1, <2>2, <2>3, <1>2, EndsReplies
<1>5. CASE Failed(r)
  <2>1. req[r].at \in {"handler", "reading"} /\ Ends(r, "failed")
    BY <1>5 DEF Failed
  <2>2. ~Atomic!CarriedOut(r)
    BY <2>1, NotCarriedOut
  <2>3. req[r].answer = "none"
    BY <2>1, <1>2 DEF At
  <2>4. QED BY <2>1, <2>2, <2>3, EndsReplies
<1>6. CASE TimeLimit(r)
  <2>1. req[r].at \in {"handler", "reading", "committed"} /\ Ends(r, "late")
    BY <1>6 DEF TimeLimit
  <2>2. req[r].answer = "none"
    BY <2>1, <1>2 DEF At
  <2>3. QED BY <2>1, <2>2, EndsReplies
<1>7. QED BY <1>3, <1>4, <1>5, <1>6

LEMMA AtomicInit == Init => Atomic!Init
BY DEF Init, Atomic!Init

LEMMA StepRefines ==
    ASSUME PipeInv, [Next]_vars
    PROVE  [Atomic!Next]_(Atomic!vars)
<1>1. ASSUME Unseen PROVE [Atomic!Next]_(Atomic!vars)
  BY <1>1, UnseenStutters
<1>2. CASE UNCHANGED pipeVars
  BY <1>2, <1>1 DEF pipeVars, Unseen, AskedOf, AnswerOf
<1>3. (\E a \in Addresses : Guess(a)) \/ Turn \/ Purge \/ Script \/ Clock
        \/ (\E r \in Requests : SaveGoesOn(r)) \/ UNCHANGED vars => UNCHANGED pipeVars
  BY DEF Guess, Turn, Purge, Script, Clock, SaveGoesOn, vars
<1>4. ASSUME NEW r \in Requests, NEW a \in Addresses, TurnAway(r, a)
      PROVE  [Atomic!Next]_(Atomic!vars)
  <2>1. Atomic!Reply(r, "refused")
    BY <1>4, RefusalReplies DEF TurnAway, At
  <2>2. QED BY <2>1 DEF Atomic!Next
<1>5. ASSUME NEW r \in Requests, NEW a \in Addresses,
             ArriveChange(r, a) \/ ArriveConfig(r, a) \/ ArriveSearch(r, a)
      PROVE  [Atomic!Next]_(Atomic!vars)
  <2>1. "change" \in Kinds /\ "config" \in Kinds /\ "search" \in Kinds
    BY DEF Kinds
  <2>2. CASE ArriveChange(r, a)
    <3>1. PICK todo : todo \in SUBSET Steps /\ Accept(r, a, "change", todo)
      BY <2>2, Zenon DEF ArriveChange
    <3>2. Atomic!Accept(r)
      BY <3>1, <2>1, AcceptIsAccept DEF Accept
    <3>3. QED BY <3>2 DEF Atomic!Next
  <2>3. CASE ArriveConfig(r, a)
    <3>1. Accept(r, a, "config", {"config"})
      BY <2>3 DEF ArriveConfig
    <3>2. Atomic!Accept(r)
      BY <3>1, <2>1, AcceptIsAccept DEF Accept
    <3>3. QED BY <3>2 DEF Atomic!Next
  <2>4. CASE ArriveSearch(r, a)
    <3>1. /\ At(r, "new") /\ UNCHANGED <<rows, events, written>>
          /\ req' = [req EXCEPT ![r].at = "reading", ![r].kind = "search", ![r].todo = {"search"}]
      BY <2>4 DEF ArriveSearch
    <3>2. Atomic!Accept(r)
      BY <3>1, <2>1, AcceptIsAccept
    <3>3. QED BY <3>2 DEF Atomic!Next
  <2>5. QED BY <1>5, <2>2, <2>3, <2>4
<1>6. ASSUME NEW r \in Requests, NEW call \in Steps \cup Kinds, Change(r, call) \/ Record(r, call)
      PROVE  [Atomic!Next]_(Atomic!vars)
  BY <1>6, <1>1 DEF Change, Record, Unseen, AskedOf, AnswerOf
<1>7. ASSUME NEW r \in Requests, Commit(r)
      PROVE  [Atomic!Next]_(Atomic!vars)
  BY <1>7, CommitCarriesOut DEF Atomic!Next
<1>8. ASSUME NEW r \in Requests, Answer(r) \/ Refused(r) \/ Failed(r) \/ TimeLimit(r)
      PROVE  [Atomic!Next]_(Atomic!vars)
  BY <1>8, AnswersReply DEF Atomic!Next
<1>9. ASSUME NEW r \in Requests, NEW name \in Names, SaveBegins(r, name)
      PROVE  [Atomic!Next]_(Atomic!vars)
  <2>1. /\ req' = [req EXCEPT ![r].at = "saving"] /\ UNCHANGED <<rows, events, written>>
        /\ req \in [Requests -> Request]
    BY <1>9 DEF SaveBegins, PipeInv, PipeTypeOK
  <2>2. Unseen
    BY <2>1 DEF Unseen, AskedOf, AnswerOf, Request
  <2>3. QED BY <2>2, <1>1
<1>10. ASSUME NEW r \in Requests, SaveEnds(r)
       PROVE  [Atomic!Next]_(Atomic!vars)
  BY <1>10, SaveWrites DEF Atomic!Next
<1>11. ASSUME NEW r \in Requests, SaveRefused(r)
       PROVE  [Atomic!Next]_(Atomic!vars)
  <2>1. Atomic!Reply(r, "refused")
    BY <1>11, RefusalReplies DEF SaveRefused, At
  <2>2. QED BY <2>1 DEF Atomic!Next
<1>12. ASSUME NEW r \in Requests, SearchBatch(r)
       PROVE  [Atomic!Next]_(Atomic!vars)
  <2>1. /\ req' = [req EXCEPT ![r].at = "handler"] \/ req' = req
        /\ UNCHANGED <<rows, events, written>> /\ req \in [Requests -> Request]
    BY <1>12 DEF SearchBatch, PipeInv, PipeTypeOK
  <2>2. Unseen
    BY <2>1 DEF Unseen, AskedOf, AnswerOf, Request
  <2>3. QED BY <2>2, <1>1
<1>13. CASE Restart
  <2>1. PICK some \in SUBSET Requests : some = {r \in Requests : Open(r)}
    OBVIOUS
  <2>2. Atomic!Cut(some)
    BY <1>13, <2>1, RestartCuts
  <2>3. QED BY <2>2 DEF Atomic!Next
<1>14. QED
  BY <1>2, <1>3, <1>4, <1>5, <1>6, <1>7, <1>8, <1>9, <1>10, <1>11, <1>12, <1>13 DEF Next

\* The Admin API implements the abstract specification: whatever the interleaving of requests,
\* a call is carried out whole and on record or not at all, and the answer says which.
THEOREM ApiIsAtomic == Spec => RequestsAreAtomic
<1>1. QED BY AtomicInit, StepRefines, PipeAlways, PTL DEF Spec, RequestsAreAtomic, Atomic!Spec

----------------------------------------------------------------------------
(* The limiter *)

Counts  == [Ages -> Nat]
\* What so many losses of the failures of an address allow.
Paid(n) == FailureLimit * n

\* The failures kept are among the wrong keys looked at; the others were lost to an eviction or
\* a restart that is no older than they are, and each took no more than the limit.
Accounted(a) ==
    /\ \A g, h \in Ages : g <= h => failures[a][g] <= failures[a][h]
    /\ \A g \in Inside :
         /\ failures[a][g] <= FailureLimit
         /\ failures[a][g] <= guesses[a][g]
         /\ guesses[a][g] <= failures[a][g] + Paid(evictions[a][g])

LimitInv ==
    /\ failures \in [Addresses -> Counts] /\ guesses \in [Addresses -> Counts]
    /\ evictions \in [Addresses -> Counts]
    /\ \A a \in Addresses : Accounted(a)

LEMMA PaidGrows ==
    /\ \A n \in Nat : Paid(n) \in Nat /\ Paid(n + 1) = Paid(n) + FailureLimit
    /\ Paid(0) = 0
BY LimitAssumption DEF Paid

LEMMA AgesAre ==
    /\ Window \in Nat /\ FailureLimit \in Nat \ {0}
    /\ Inside \subseteq Ages /\ Window \in Inside /\ Window + 1 \in Ages /\ 0 \in Inside
    /\ \A g \in Ages : g \in Inside \/ g = Window + 1
    /\ \A g \in Inside : g <= Window /\ g \in Nat
    /\ \A g \in Inside \ {0} : g - 1 \in Inside
BY LimitAssumption DEF Inside, Ages

LEMMA CountsAre ==
    /\ None \in Counts /\ \A g \in Ages : None[g] = 0
    /\ \A c \in Counts : /\ More(c) \in Counts
                         /\ \A g \in Ages : More(c)[g] = c[g] + 1
BY AgesAre DEF None, More, Counts

LEMMA RecentIs ==
    ASSUME LimitInv, NEW a \in Addresses
    PROVE  /\ Recent(a) \in Counts
           /\ \A g \in Inside : Recent(a)[g] = failures[a][g]
           /\ Recent(a)[Window + 1] = failures[a][Window]
BY AgesAre DEF LimitInv, Recent, Counts, Inside, Ages

LEMMA LookUpAccounts ==
    ASSUME LimitInv, NEW a \in Addresses, LookUp(a)
    PROVE  LimitInv'
<1>1. /\ failures' = [failures EXCEPT ![a] = Recent(a)]
      /\ guesses' = guesses /\ evictions' = evictions
  BY DEF LookUp
<1>2. failures' \in [Addresses -> Counts]
  BY <1>1, RecentIs DEF LimitInv
<1>3. ASSUME NEW b \in Addresses
      PROVE  Accounted(b)'
  <2>1. CASE b # a
    BY <2>1, <1>1 DEF LimitInv, Accounted
  <2>2. CASE b = a
    <3>1. failures'[b] = Recent(a) /\ Accounted(a) /\ failures[a] \in Counts
      BY <2>2, <1>1 DEF LimitInv
    <3>2. \A g, h \in Ages : g <= h => failures'[b][g] <= failures'[b][h]
      BY <3>1, RecentIs, AgesAre DEF Accounted, Counts
    <3>3. QED BY <2>2, <3>1, <3>2, <1>1, RecentIs DEF Accounted
  <2>3. QED BY <2>1, <2>2
<1>4. QED BY <1>1, <1>2, <1>3 DEF LimitInv

LEMMA WrongKeyAccounts ==
    ASSUME LimitInv, NEW a \in Addresses, WrongKey(a)
    PROVE  LimitInv'
<1> DEFINE line  == IF failures[a][Window] = 0 THEN Append(Kept(a), a) ELSE tracked
           full  == Len(line) > MaxTracked
           after == [failures EXCEPT ![a] = More(Recent(a))]
           lost  == Head(line)
<1>1. /\ ~Blocked(a)
      /\ failures' = IF full THEN [after EXCEPT ![lost] = None] ELSE after
      /\ guesses' = [guesses EXCEPT ![a] = More(@)]
      /\ evictions' = IF full THEN [evictions EXCEPT ![lost] = More(@)] ELSE evictions
  BY DEF WrongKey
<1> HIDE DEF line, full, lost
<1>2. failures \in [Addresses -> Counts] /\ guesses \in [Addresses -> Counts]
      /\ evictions \in [Addresses -> Counts] /\ Recent(a) \in Counts
  BY RecentIs DEF LimitInv
<1>3. /\ failures' \in [Addresses -> Counts] /\ guesses' \in [Addresses -> Counts]
      /\ evictions' \in [Addresses -> Counts]
  BY <1>1, <1>2, CountsAre
<1>4. ASSUME NEW b \in Addresses
      PROVE  Accounted(b)'
  <2>1. failures'[b] = IF full /\ b = lost THEN None
                       ELSE IF b = a THEN More(Recent(a)) ELSE failures[b]
    BY <1>1, <1>2
  <2>2. guesses'[b] = IF b = a THEN More(guesses[a]) ELSE guesses[b]
    BY <1>1, <1>2
  <2>3. evictions'[b] = IF full /\ b = lost THEN More(evictions[b]) ELSE evictions[b]
    BY <1>1, <1>2
  <2>4. Accounted(b) /\ failures[b] \in Counts /\ guesses[b] \in Counts /\ evictions[b] \in Counts
    BY DEF LimitInv
  <2> DEFINE now == IF b = a THEN More(Recent(a)) ELSE failures[b]
  <2>5. /\ now \in Counts
        /\ \A g, h \in Ages : g <= h => now[g] <= now[h]
        /\ \A g \in Inside : /\ now[g] <= FailureLimit /\ now[g] <= guesses'[b][g]
                             /\ guesses'[b][g] <= now[g] + Paid(evictions[b][g])
    <3>1. CASE b # a
      BY <3>1, <2>2, <2>4 DEF Accounted
    <3>2. CASE b = a
      <4>1. now \in Counts /\ (\A g \in Inside : now[g] = failures[a][g] + 1)
            /\ now[Window + 1] = failures[a][Window] + 1
        BY <3>2, <1>2, RecentIs, CountsAre, AgesAre
      <4>2. \A g \in Inside : guesses'[b][g] = guesses[a][g] + 1
        BY <3>2, <2>2, <2>4, CountsAre, AgesAre
      <4>3. failures[a][Window] < FailureLimit
        BY <1>1, <3>2, <2>4, AgesAre DEF Blocked, Counts
      <4>4. \A g \in Inside : failures[a][g] <= failures[a][Window]
        BY <2>4, <3>2, AgesAre DEF Accounted
      <4>5. \A g, h \in Ages : g <= h => now[g] <= now[h]
        BY <4>1, <2>4, <3>2, AgesAre DEF Accounted, Counts
      <4>6. \A g \in Inside : Paid(evictions[b][g]) \in Nat
        BY <2>4, AgesAre, PaidGrows DEF Counts
      <4>7. \A g \in Inside : failures[a][g] \in Nat /\ guesses[a][g] \in Nat
        BY <2>4, <3>2, AgesAre DEF Counts
      <4>8. Accounted(a) /\ evictions[a] = evictions[b]
        BY <2>4, <3>2
      <4> HIDE DEF now
      <4>9. \A g \in Inside : /\ now[g] <= FailureLimit /\ now[g] <= guesses'[b][g]
                              /\ guesses'[b][g] <= now[g] + Paid(evictions[b][g])
        BY <4>1, <4>2, <4>3, <4>4, <4>6, <4>7, <4>8, AgesAre DEF Accounted
      <4>10. QED BY <4>1, <4>5, <4>9
    <3>3. QED BY <3>1, <3>2
  <2> HIDE DEF now
  <2>6. CASE full /\ b = lost
    <3>1. failures'[b] = None /\ evictions'[b] = More(evictions[b])
      BY <2>1, <2>3, <2>6
    <3>2. \A g \in Inside : evictions[b][g] \in Nat /\ evictions'[b][g] = evictions[b][g] + 1
                            /\ now[g] \in Nat /\ guesses'[b][g] \in Nat /\ failures'[b][g] = 0
      BY <3>1, <2>4, <2>5, <1>3, CountsAre, AgesAre DEF Counts
    <3>3. ASSUME NEW g \in Inside
          PROVE  guesses'[b][g] <= failures'[b][g] + Paid(evictions'[b][g])
      <4>1. guesses'[b][g] <= now[g] + Paid(evictions[b][g]) /\ now[g] <= FailureLimit
        BY <2>5
      <4>2. Paid(evictions'[b][g]) = Paid(evictions[b][g]) + FailureLimit
            /\ Paid(evictions[b][g]) \in Nat
        BY <3>2, PaidGrows
      <4>3. now[g] \in Nat /\ guesses'[b][g] \in Nat /\ failures'[b][g] = 0 /\ FailureLimit \in Nat
        BY <3>2, AgesAre
      <4>4. QED BY ONLY <4>1, <4>2, <4>3
    <3>4. QED BY <3>1, <3>2, <3>3, CountsAre, AgesAre DEF Accounted
  <2>7. CASE ~(full /\ b = lost)
    <3>1. failures'[b] = now /\ evictions'[b] = evictions[b]
      BY <2>1, <2>3, <2>7 DEF now
    <3>2. QED BY <3>1, <2>5 DEF Accounted
  <2>8. QED BY <2>6, <2>7
<1>5. QED BY <1>3, <1>4 DEF LimitInv

LEMMA ForgetAccounts ==
    ASSUME LimitInv, Forget
    PROVE  LimitInv'
<1>1. /\ failures' = Nothing /\ guesses' = guesses
      /\ evictions' = [b \in Addresses |->
                         IF failures[b] = None THEN evictions[b] ELSE More(evictions[b])]
  BY DEF Forget
<1>2. failures' \in [Addresses -> Counts] /\ evictions' \in [Addresses -> Counts]
  BY <1>1, CountsAre DEF LimitInv, Nothing
<1>3. ASSUME NEW b \in Addresses
      PROVE  Accounted(b)'
  <2>1. /\ Accounted(b) /\ failures[b] \in Counts /\ guesses[b] \in Counts /\ evictions[b] \in Counts
        /\ failures'[b] = None /\ guesses'[b] = guesses[b]
    BY <1>1 DEF LimitInv, Nothing
  <2>2. ASSUME NEW g \in Inside
        PROVE  guesses[b][g] <= Paid(evictions'[b][g])
    <3>1. g \in Ages /\ evictions[b][g] \in Nat /\ failures[b][g] \in Nat /\ guesses[b][g] \in Nat
      BY <2>1, AgesAre DEF Counts
    <3>2. failures[b][g] <= FailureLimit /\ guesses[b][g] <= failures[b][g] + Paid(evictions[b][g])
      BY <2>1 DEF Accounted
    <3>3. CASE failures[b] = None
      BY <3>3, <3>1, <3>2, <1>1, CountsAre, PaidGrows
    <3>4. CASE failures[b] # None
      <4>1. evictions'[b][g] = evictions[b][g] + 1
        BY <3>4, <3>1, <1>1, <2>1, CountsAre
      <4>2. QED BY <4>1, <3>1, <3>2, PaidGrows, AgesAre
    <3>5. QED BY <3>3, <3>4
  <2>3. \A g \in Inside : Paid(evictions'[b][g]) \in Nat
    BY <1>2, PaidGrows, AgesAre DEF Counts
  <2>4. \A g \in Inside : guesses[b][g] \in Nat /\ failures'[b][g] = 0
    BY <2>1, AgesAre, CountsAre DEF Counts
  <2>5. \A g, h \in Ages : g <= h => failures'[b][g] <= failures'[b][h]
    BY <2>1, CountsAre
  <2>6. QED BY <2>1, <2>2, <2>3, <2>4, <2>5, AgesAre DEF Accounted
<1>4. QED BY <1>1, <1>2, <1>3 DEF LimitInv

LEMMA OlderIs ==
    ASSUME NEW c \in Counts
    PROVE  /\ Older(c) \in Counts /\ Clean(Older(c)) \in Counts
           /\ Older(c)[0] = 0 /\ Older(c)[Window + 1] = c[Window + 1]
           /\ \A g \in Inside \ {0} : Older(c)[g] = c[g - 1]
           /\ \A g \in Inside : Clean(Older(c))[g] = Older(c)[g]
<1>1. \A g \in Ages : Older(c)[g] = CASE g = 0 -> 0 [] g \in Inside \ {0} -> c[g - 1] [] OTHER -> c[g]
  BY DEF Older
<1>2. \A g \in Inside \ {0} : g \in Ages /\ g # 0 /\ g - 1 \in Ages
  BY AgesAre
<1>3. Window + 1 # 0 /\ Window + 1 \notin Inside /\ 0 \in Ages /\ Window + 1 \in Ages /\ Window \in Ages
  BY AgesAre DEF Inside
<1>4. Older(c)[0] = 0 /\ Older(c)[Window + 1] = c[Window + 1]
  BY <1>1, <1>3
<1>5. \A g \in Inside \ {0} : Older(c)[g] = c[g - 1]
  BY <1>1, <1>2
<1>6. \A g \in Ages : Older(c)[g] \in Nat
  BY <1>2, <1>4, <1>5, AgesAre DEF Counts
<1>7. Older(c) \in Counts
  BY <1>6 DEF Older, Counts
<1>8. Clean(Older(c)) \in Counts /\ \A g \in Inside : Clean(Older(c))[g] = Older(c)[g]
  BY <1>7, <1>3, AgesAre DEF Clean, Counts
<1>9. QED BY <1>4, <1>5, <1>7, <1>8

LEMMA TimeAccounts ==
    ASSUME LimitInv, TimePasses
    PROVE  LimitInv'
<1>1. /\ failures' = [a \in Addresses |-> Older(failures[a])]
      /\ guesses' = [a \in Addresses |-> Clean(Older(guesses[a]))]
      /\ evictions' = [a \in Addresses |-> Clean(Older(evictions[a]))]
  BY DEF TimePasses
<1>2. \A a \in Addresses : failures[a] \in Counts /\ guesses[a] \in Counts /\ evictions[a] \in Counts
  BY DEF LimitInv
<1>3. /\ failures' \in [Addresses -> Counts] /\ guesses' \in [Addresses -> Counts]
      /\ evictions' \in [Addresses -> Counts]
  BY <1>1, <1>2, OlderIs
<1>4. ASSUME NEW b \in Addresses
      PROVE  Accounted(b)'
  <2>1. Accounted(b) /\ failures[b] \in Counts /\ guesses[b] \in Counts /\ evictions[b] \in Counts
    BY <1>2 DEF LimitInv
  <2>2. \A g \in Inside \ {0} : /\ failures'[b][g] = failures[b][g - 1]
                                /\ guesses'[b][g] = guesses[b][g - 1]
                                /\ evictions'[b][g] = evictions[b][g - 1]
    BY <1>1, <2>1, OlderIs
  <2>3. /\ failures'[b][0] = 0 /\ guesses'[b][0] = 0 /\ evictions'[b][0] = 0
        /\ failures'[b][Window + 1] = failures[b][Window + 1]
    BY <1>1, <2>1, OlderIs, AgesAre
  <2>4. \A g \in Inside : /\ failures'[b][g] <= FailureLimit /\ failures'[b][g] <= guesses'[b][g]
                          /\ guesses'[b][g] <= failures'[b][g] + Paid(evictions'[b][g])
    <3>1. ASSUME NEW g \in Inside, g = 0
          PROVE  /\ failures'[b][g] <= FailureLimit /\ failures'[b][g] <= guesses'[b][g]
                 /\ guesses'[b][g] <= failures'[b][g] + Paid(evictions'[b][g])
      BY <3>1, <2>3, AgesAre, PaidGrows
    <3>2. ASSUME NEW g \in Inside \ {0}
          PROVE  /\ failures'[b][g] <= FailureLimit /\ failures'[b][g] <= guesses'[b][g]
                 /\ guesses'[b][g] <= failures'[b][g] + Paid(evictions'[b][g])
      <4>1. g - 1 \in Inside
        BY AgesAre
      <4>2. /\ failures[b][g - 1] <= FailureLimit /\ failures[b][g - 1] <= guesses[b][g - 1]
            /\ guesses[b][g - 1] <= failures[b][g - 1] + Paid(evictions[b][g - 1])
        BY <4>1, <2>1 DEF Accounted
      <4>3. QED BY <4>2, <2>2
    <3>3. QED BY <3>1, <3>2
  <2>5. ASSUME NEW g \in Ages, NEW h \in Ages, g <= h
        PROVE  failures'[b][g] <= failures'[b][h]
    <3>1. failures'[b] \in Counts /\ failures[b] \in Counts
      BY <1>3, <2>1
    <3>2. CASE g = 0
      BY <3>1, <3>2, <2>3 DEF Counts
    <3>3. CASE g = Window + 1
      <4>1. h = g
        BY <3>3, <2>5, AgesAre DEF Ages
      <4>2. QED BY <4>1, <3>1 DEF Counts
    <3>4. CASE g # 0 /\ g # Window + 1
      <4>1. g \in Inside \ {0} /\ g - 1 \in Inside /\ h # 0 /\ h \in Int /\ g \in Int
        BY <3>4, <2>5, AgesAre DEF Ages
      <4>2. CASE h = Window + 1
        <5>1. g - 1 <= Window + 1 /\ g - 1 \in Ages
          BY <4>1, AgesAre
        <5>2. QED BY <5>1, <4>1, <4>2, <2>1, <2>2, <2>3, AgesAre DEF Accounted
      <4>3. CASE h # Window + 1
        <5>1. h \in Inside \ {0} /\ h - 1 \in Inside /\ g - 1 <= h - 1
          BY <4>1, <4>3, <2>5, AgesAre
        <5>2. failures[b][g - 1] <= failures[b][h - 1]
          BY <5>1, <4>1, <2>1, AgesAre DEF Accounted
        <5>3. QED BY <5>1, <5>2, <4>1, <2>2
      <4>4. QED BY <4>2, <4>3
    <3>5. QED BY <3>2, <3>3, <3>4
  <2>6. QED BY <2>4, <2>5 DEF Accounted
<1>5. QED BY <1>3, <1>4 DEF LimitInv

LEMMA LimitStarts == LimitInit => LimitInv
<1>1. SUFFICES ASSUME LimitInit PROVE LimitInv
  OBVIOUS
<1>2. \A a \in Addresses : failures[a] = None /\ guesses[a] = None /\ evictions[a] = None
  BY <1>1 DEF LimitInit, Nothing
<1>3. \A a \in Addresses : Accounted(a)
  BY <1>2, CountsAre, PaidGrows, AgesAre DEF Accounted
<1>4. QED BY <1>1, <1>3, CountsAre DEF LimitInit, Nothing, LimitInv

\* The steps of the API that look at the limiter's table.
LEMMA LimitSteps ==
    ASSUME [Next]_vars
    PROVE  \/ \E a \in Addresses : LookUp(a) \/ WrongKey(a)
           \/ Forget \/ TimePasses \/ UNCHANGED limitVars
<1>1. ASSUME NEW a \in Addresses, Guess(a)
      PROVE  WrongKey(a)
  BY <1>1 DEF Guess
<1>2. ASSUME NEW a \in Addresses, NEW r \in Requests,
             TurnAway(r, a) \/ ArriveChange(r, a) \/ ArriveConfig(r, a) \/ ArriveSearch(r, a)
      PROVE  LookUp(a)
  BY <1>2, Zenon DEF TurnAway, ArriveChange, ArriveConfig, ArriveSearch, Accept
<1>3. ASSUME NEW r \in Requests, Answer(r) \/ Refused(r) \/ Failed(r) \/ TimeLimit(r)
      PROVE  UNCHANGED limitVars
  BY <1>3 DEF Answer, Refused, Failed, TimeLimit, Ends
<1>4. ASSUME NEW r \in Requests, NEW call \in Steps \cup Kinds, Change(r, call) \/ Record(r, call)
      PROVE  UNCHANGED limitVars
  BY <1>4 DEF Change, Record
<1>5. ASSUME NEW r \in Requests,
             Commit(r) \/ SaveGoesOn(r) \/ SaveEnds(r) \/ SaveRefused(r) \/ SearchBatch(r)
      PROVE  UNCHANGED limitVars
  BY <1>5 DEF Commit, SaveGoesOn, SaveEnds, SaveRefused, SearchBatch
<1>6. ASSUME NEW r \in Requests, NEW name \in Names, SaveBegins(r, name)
      PROVE  UNCHANGED limitVars
  BY <1>6 DEF SaveBegins
<1>7. Turn \/ Purge \/ Script \/ UNCHANGED vars => UNCHANGED limitVars
  BY DEF Turn, Purge, Script, vars
<1>8. (Restart => Forget) /\ (Clock => TimePasses)
  BY DEF Restart, Clock
<1>9. QED BY <1>1, <1>2, <1>3, <1>4, <1>5, <1>6, <1>7, <1>8, Zenon DEF Next

LEMMA LimitAlways == Spec => []LimitInv
<1>1. Init => LimitInv
  BY LimitStarts DEF Init
<1>2. LimitInv /\ [Next]_vars => LimitInv'
  <2>1. SUFFICES ASSUME LimitInv, [Next]_vars PROVE LimitInv'
    OBVIOUS
  <2>2. CASE UNCHANGED limitVars
    BY <2>1, <2>2 DEF limitVars, LimitInv, Accounted
  <2>3. QED BY <2>1, <2>2, LimitSteps, LookUpAccounts, WrongKeyAccounts, ForgetAccounts, TimeAccounts
<1>3. QED BY <1>1, <1>2, PTL DEF Spec

\* However wrong keys, restarts and evictions of a table of any size follow one another, an
\* address gets FAILURE_LIMIT guesses in a window, and as many again for each loss of its
\* failures; and it is shut out only for its own.
THEOREM GuessesStayLimited == Spec => []GuessesAreLimited
<1>1. LimitInv => GuessesAreLimited
  <2>1. SUFFICES ASSUME LimitInv, NEW a \in Addresses
                 PROVE  /\ guesses[a][Window] <= FailureLimit * (1 + evictions[a][Window])
                        /\ Blocked(a) => guesses[a][Window] >= FailureLimit
    BY DEF GuessesAreLimited
  <2>2. Accounted(a) /\ failures[a][Window] \in Nat /\ guesses[a][Window] \in Nat
        /\ evictions[a][Window] \in Nat
    BY <2>1, AgesAre DEF LimitInv, Counts
  <2>3. FailureLimit * (1 + evictions[a][Window]) = Paid(evictions[a][Window]) + FailureLimit
    <3>1. 1 + evictions[a][Window] = evictions[a][Window] + 1
      BY <2>2
    <3>2. FailureLimit * (1 + evictions[a][Window]) = Paid(evictions[a][Window] + 1)
      BY <3>1 DEF Paid
    <3>3. QED BY <3>2, <2>2, PaidGrows
  <2>4. QED BY <2>2, <2>3, AgesAre, PaidGrows DEF Accounted, Blocked
<1>2. QED BY <1>1, LimitAlways, PTL
----------------------------------------------------------------------------
(* The search of the log *)

\* A table: finitely many rows, no two with the same id.
Table(S) ==
    /\ S \subseteq Row /\ IsFiniteSet(S)
    /\ \A r, s \in S : r.id = s.id => r = s

\* The newest of the rows of S.
Top(T, S) == T \subseteq S /\ \A t \in T, r \in S : r.id > t.id => r \in T

Smaller(m, n) == IF m <= n THEN m ELSE n

\* The page of a list that starts behind offset.
Page(S, offset, limit) ==
    {<<Place(S, r) - offset, r.id>> : r \in {s \in S : Place(S, s) - offset \in 1..limit}}

\* What later rows add to the page, with n rows before them.
Addition(S, n, offset, limit) ==
    {<<n + Place(S, r) - offset, r.id>> : r \in {s \in S : n + Place(S, s) - offset \in 1..limit}}

USE SearchAssumption

LEMMA PartOfTable ==
    ASSUME NEW S, Table(S), NEW T, T \subseteq S
    PROVE  Table(T)
BY FS_Subset DEF Table

LEMMA IdsAreNumbers ==
    ASSUME NEW S, Table(S), NEW r \in S
    PROVE  r \in Row /\ r.id \in Ids /\ r.id \in Int
BY DEF Table, Row, Ids

\* Two sets of which each member of one has a member of the other are of one size.
LEMMA OneToOne ==
    ASSUME NEW S, IsFiniteSet(S), NEW T, NEW f \in [S -> T],
           \A r, s \in S : f[r] = f[s] => r = s, \A t \in T : \E r \in S : f[r] = t
    PROVE  Cardinality(S) = Cardinality(T)
<1>1. f \in Injection(S, T)
  BY DEF Injection, IsInjective
<1>2. f \in Surjection(S, T)
  BY DEF Surjection
<1>3. ExistsBijection(S, T)
  BY <1>1, <1>2 DEF ExistsBijection, Bijection
<1>4. QED BY <1>3, FS_Bijection

\* Each row has a place of its own, from 1 to the number of rows, and newer rows come first.
LEMMA PlaceIsPlace ==
    ASSUME NEW S, Table(S)
    PROVE  /\ Cardinality(S) \in Nat
           /\ \A r \in S : Place(S, r) \in 1..Cardinality(S)
           /\ \A r, s \in S : r.id > s.id <=> Place(S, r) < Place(S, s)
<1> DEFINE Above(r) == {s \in S : s.id > r.id}
<1>1. IsFiniteSet(S) /\ Cardinality(S) \in Nat
  BY FS_CardinalityType DEF Table
<1>2. ASSUME NEW r \in S
      PROVE  /\ IsFiniteSet(Above(r)) /\ Cardinality(Above(r)) \in Nat
             /\ Place(S, r) = Cardinality(Above(r)) + 1 /\ Place(S, r) \in Nat \ {0}
  <2>1. IsFiniteSet(Above(r))  BY <1>1, FS_Subset
  <2>2. Place(S, r) = Cardinality(Above(r)) + 1  BY DEF Place
  <2>3. QED BY <2>1, <2>2, FS_CardinalityType
<1>3. ASSUME NEW r \in S, NEW T, T \subseteq S, Above(r) \subseteq T, r \in T
      PROVE  Cardinality(T) \in Nat /\ Place(S, r) <= Cardinality(T)
  <2>1. r \notin Above(r)
    BY IdsAreNumbers
  <2>2. IsFiniteSet(T) /\ Cardinality(T) \in Nat
    BY <1>1, <1>3, FS_Subset, FS_CardinalityType
  <2>3. Cardinality(Above(r) \cup {r}) = Cardinality(Above(r)) + 1
    BY <1>2, <2>1, FS_AddElement
  <2>4. (Above(r) \cup {r}) \subseteq T
    BY <1>3
  <2>5. Cardinality(Above(r) \cup {r}) <= Cardinality(T)
    BY <2>2, <2>4, FS_Subset
  <2>6. QED BY <1>2, <2>2, <2>3, <2>5
<1>4. ASSUME NEW r \in S PROVE Place(S, r) \in 1..Cardinality(S)
  <2>1. Place(S, r) <= Cardinality(S)
    BY <1>3
  <2> HIDE DEF Above
  <2>2. QED BY <2>1, <1>1, <1>2
<1>5. ASSUME NEW r \in S, NEW s \in S, r.id > s.id
      PROVE  Place(S, r) < Place(S, s)
  <2>1. Above(r) \subseteq Above(s) /\ r \in Above(s)
    BY <1>5, IdsAreNumbers
  <2>2. Place(S, r) <= Cardinality(Above(s))
    BY <2>1, <1>3
  <2> HIDE DEF Above
  <2>3. QED BY <2>2, <1>2
<1> HIDE DEF Above
<1>6. ASSUME NEW r \in S, NEW s \in S, ~(r.id > s.id)
      PROVE  ~(Place(S, r) < Place(S, s))
  <2>1. CASE r.id = s.id
    <3>1. r = s  BY <2>1 DEF Table
    <3>2. QED BY <3>1, <1>2
  <2>2. CASE s.id > r.id
    BY <2>2, <1>5, <1>2
  <2>3. QED BY <2>1, <2>2, <1>6, IdsAreNumbers
<1>7. QED BY <1>1, <1>4, <1>5, <1>6

\* And every place is taken.
LEMMA PlacesAreTaken ==
    ASSUME NEW S, Table(S), NEW n \in 1..Cardinality(S)
    PROVE  \E r \in S : Place(S, r) = n
<1> DEFINE f == [r \in S |-> Place(S, r)]
<1>1. Cardinality(S) \in Nat /\ IsFiniteSet(1..Cardinality(S))
      /\ Cardinality(1..Cardinality(S)) = Cardinality(S)
  BY PlaceIsPlace, FS_Interval
<1>2. f \in [S -> 1..Cardinality(S)]
  BY PlaceIsPlace
<1>3. ASSUME NEW r \in S, NEW s \in S, f[r] = f[s] PROVE r = s
  <2>1. ~(r.id > s.id) /\ ~(s.id > r.id)
    BY <1>3, PlaceIsPlace
  <2>2. r.id = s.id
    BY <2>1, IdsAreNumbers
  <2>3. QED BY <2>2 DEF Table
<1>4. f \in Injection(S, 1..Cardinality(S))
  <2> HIDE DEF f
  <2>1. QED BY <1>2, <1>3 DEF Injection, IsInjective
<1>5. f \in Surjection(S, 1..Cardinality(S))
  BY <1>1, <1>4, FS_Injection
<1>6. QED BY <1>5 DEF Surjection

\* So many rows have a place between two bounds.
LEMMA Between ==
    ASSUME NEW S, Table(S), NEW a \in Nat, NEW b \in Nat
    PROVE  Cardinality({r \in S : Place(S, r) - a \in 1..b})
             = IF Cardinality(S) <= a THEN 0 ELSE Smaller(b, Cardinality(S) - a)
<1> DEFINE n == Cardinality(S)
           m == IF n <= a THEN 0 ELSE Smaller(b, n - a)
           T == {r \in S : Place(S, r) - a \in 1..b}
           f == [r \in T |-> Place(S, r) - a]
<1>1. n \in Nat /\ m \in Nat /\ m <= b
  BY PlaceIsPlace DEF Smaller
<1>2. ASSUME NEW r \in T PROVE f[r] \in 1..m
  <2>1. r \in S /\ Place(S, r) \in 1..n /\ Place(S, r) - a \in 1..b
    BY PlaceIsPlace
  <2>2. f[r] = Place(S, r) - a  OBVIOUS
  <2> HIDE DEF n, f
  <2>3. QED BY <2>1, <2>2, <1>1 DEF Smaller
<1>3. ASSUME NEW r \in T, NEW s \in T, f[r] = f[s] PROVE r = s
  <2>1. r \in S /\ s \in S /\ Place(S, r) = Place(S, s)
    BY <1>3, PlaceIsPlace
  <2>2. ~(r.id > s.id) /\ ~(s.id > r.id)
    BY <2>1, PlaceIsPlace
  <2>3. r.id = s.id
    BY <2>1, <2>2, IdsAreNumbers
  <2>4. QED BY <2>1, <2>3 DEF Table
<1>4. ASSUME NEW k \in 1..m PROVE \E r \in T : f[r] = k
  <2>1. k + a \in 1..n /\ k \in 1..b
    <3>1. n \in Nat  BY <1>1
    <3> HIDE DEF n
    <3>2. QED BY <3>1 DEF Smaller
  <2>2. PICK r \in S : Place(S, r) = k + a
    BY <2>1, PlacesAreTaken
  <2>3. Place(S, r) - a = k  BY <2>1, <2>2
  <2>4. QED BY <2>1, <2>2, <2>3
<1>5. f \in [T -> 1..m]
  BY <1>2
<1>6. IsFiniteSet(T)
  BY FS_Subset DEF Table
<1> HIDE DEF T, f, m
<1>7. Cardinality(1..m) = m
  BY <1>1, FS_Interval
<1>8. Cardinality(T) = Cardinality(1..m)
  BY <1>3, <1>4, <1>5, <1>6, OneToOne
<1>9. QED BY <1>7, <1>8 DEF T, m, n

\* The rows on top keep their places, and the others come behind them.
LEMMA PlaceInPart ==
    ASSUME NEW S, Table(S), NEW T, Top(T, S)
    PROVE  /\ \A r \in T : Place(T, r) = Place(S, r)
           /\ \A r \in S \ T : Place(S, r) = Cardinality(T) + Place(S \ T, r)
<1> DEFINE Above(U, r) == {s \in U : s.id > r.id}
<1>1. ASSUME NEW U, NEW r PROVE Place(U, r) = Cardinality(Above(U, r)) + 1
  BY DEF Place
<1>2. IsFiniteSet(T) /\ Cardinality(T) \in Nat
  BY PartOfTable, FS_CardinalityType DEF Top, Table
<1>3. ASSUME NEW r \in T PROVE Place(T, r) = Place(S, r)
  <2>1. Above(T, r) = Above(S, r)
    BY DEF Top
  <2>2. QED BY <2>1, <1>1
<1>4. ASSUME NEW r \in S \ T PROVE Place(S, r) = Cardinality(T) + Place(S \ T, r)
  <2>1. ASSUME NEW t \in T PROVE t \in Above(S, r)
    <3>1. t \in S /\ ~(r.id > t.id) /\ r # t
      BY DEF Top
    <3>2. r.id # t.id
      BY <3>1 DEF Table
    <3>3. QED BY <3>1, <3>2, IdsAreNumbers
  <2>2. Above(S, r) = T \cup Above(S \ T, r) /\ T \cap Above(S \ T, r) = {}
    BY <2>1
  <2>3. IsFiniteSet(Above(S \ T, r)) /\ Cardinality(Above(S \ T, r)) \in Nat
    <3>1. Above(S \ T, r) \subseteq S  OBVIOUS
    <3> HIDE DEF Above
    <3>2. QED BY <3>1, FS_Subset, FS_CardinalityType DEF Table
  <2> HIDE DEF Above
  <2>4. Cardinality(Above(S, r)) = Cardinality(T) + Cardinality(Above(S \ T, r))
    <3>1. Cardinality(T \cap Above(S \ T, r)) = 0
      BY <2>2, FS_EmptySet
    <3>2. Cardinality(T \cup Above(S \ T, r))
            = Cardinality(T) + Cardinality(Above(S \ T, r)) - Cardinality(T \cap Above(S \ T, r))
      BY <1>2, <2>3, FS_Union
    <3>3. QED BY <1>2, <2>2, <2>3, <3>1, <3>2
  <2>5. QED BY <1>1, <1>2, <2>3, <2>4
<1>5. QED BY <1>3, <1>4

\* The n newest rows.
LEMMA NewestAreTop ==
    ASSUME NEW S, Table(S), NEW n \in Nat
    PROVE  /\ Top(Newest(S, n), S)
           /\ Cardinality(Newest(S, n)) = Smaller(n, Cardinality(S))
           /\ Cardinality(Newest(S, n)) < n => Newest(S, n) = S
<1>1. Cardinality(S) \in Nat /\ \A r \in S : Place(S, r) \in 1..Cardinality(S)
  BY PlaceIsPlace
<1>2. Newest(S, n) = {r \in S : Place(S, r) - 0 \in 1..n}
  BY <1>1 DEF Newest
<1>3. Cardinality(Newest(S, n)) = Smaller(n, Cardinality(S))
  <2>1. Cardinality(Newest(S, n)) = IF Cardinality(S) <= 0 THEN 0 ELSE Smaller(n, Cardinality(S) - 0)
    BY <1>2, Between
  <2>2. QED BY <1>1, <2>1 DEF Smaller
<1>4. ASSUME NEW t \in Newest(S, n), NEW r \in S, r.id > t.id PROVE r \in Newest(S, n)
  <2>1. Place(S, r) < Place(S, t) /\ t \in S /\ Place(S, t) <= n
    BY <1>4, PlaceIsPlace DEF Newest
  <2>2. Place(S, r) <= n
    BY <1>1, <2>1
  <2>3. QED BY <2>2 DEF Newest
<1>5. Cardinality(Newest(S, n)) < n => Newest(S, n) = S
  <2>1. SUFFICES ASSUME Cardinality(Newest(S, n)) < n PROVE Newest(S, n) = S
    OBVIOUS
  <2>2. Cardinality(S) < n
    BY <1>1, <1>3, <2>1 DEF Smaller
  <2>3. QED BY <1>1, <2>2 DEF Newest
<1>6. Newest(S, n) \subseteq S
  BY DEF Newest
<1>7. QED BY <1>3, <1>4, <1>5, <1>6 DEF Top

\* A page has as many entries as there are rows for it, and newer rows come first on it.
LEMMA PageIsPage ==
    ASSUME NEW S, Table(S), NEW offset \in Nat, NEW limit \in Nat
    PROVE  LET page == Page(S, offset, limit)
           IN  /\ page \subseteq (Nat \X Ids) /\ IsFiniteSet(page)
               /\ Cardinality(page) = IF Cardinality(S) <= offset THEN 0
                                      ELSE Smaller(limit, Cardinality(S) - offset)
               /\ \A p \in page : p[1] \in 1..Cardinality(page) /\ \E r \in S : p[2] = r.id
               /\ \A p, q \in page : p[1] < q[1] <=> p[2] > q[2]
<1> DEFINE page == Page(S, offset, limit)
           n == Cardinality(S)
           m == IF n <= offset THEN 0 ELSE Smaller(limit, n - offset)
           T == {r \in S : Place(S, r) - offset \in 1..limit}
           entry == [r \in T |-> <<Place(S, r) - offset, r.id>>]
<1>1. n \in Nat /\ \A r \in S : Place(S, r) \in 1..n
  BY PlaceIsPlace
<1>2. page = {entry[r] : r \in T}
  BY DEF Page
<1>3. ASSUME NEW r \in T
      PROVE  /\ r \in S /\ Place(S, r) \in 1..n /\ Place(S, r) - offset \in 1..limit
             /\ entry[r] = <<Place(S, r) - offset, r.id>> /\ r.id \in Ids
  BY <1>1, IdsAreNumbers
<1>4. IsFiniteSet(T) /\ Cardinality(T) = m
  BY Between, FS_Subset DEF Table
<1>5. ASSUME NEW r \in T, NEW s \in T, entry[r] = entry[s] PROVE r = s
  BY <1>3, <1>5 DEF Table
<1> HIDE DEF T, entry, n, page
<1>6. entry \in [T -> page]
  BY <1>2 DEF entry
<1>7. \A p \in page : \E r \in T : entry[r] = p
  BY <1>2
<1>8. Cardinality(page) = m
  BY <1>4, <1>5, <1>6, <1>7, OneToOne
<1>9. IsFiniteSet(page)
  BY <1>4, <1>6, <1>7, FS_Surjection DEF Surjection
<1>10. ASSUME NEW p \in page
       PROVE  \E r \in T : p = <<Place(S, r) - offset, r.id>> /\ r \in S /\ r.id \in Ids
                           /\ p[1] \in Nat /\ p[2] \in Ids /\ p[1] \in 1..m
  <2>1. PICK r \in T : entry[r] = p
    BY <1>7
  <2>2. p = <<Place(S, r) - offset, r.id>> /\ p[1] = Place(S, r) - offset /\ p[2] = r.id
    <3>1. p = <<Place(S, r) - offset, r.id>>
      BY <2>1, <1>3, Zenon
    <3>2. QED BY <3>1
  <2>3. Place(S, r) - offset \in 1..m
    BY <1>1, <1>3 DEF Smaller
  <2>4. Place(S, r) - offset \in Nat
    BY <1>3
  <2>5. QED BY <1>3, <2>2, <2>3, <2>4
<1>11. ASSUME NEW p \in page, NEW q \in page PROVE p[1] < q[1] <=> p[2] > q[2]
  <2>1. PICK r \in T : p = <<Place(S, r) - offset, r.id>>
    BY <1>10
  <2>2. PICK s \in T : q = <<Place(S, s) - offset, s.id>>
    BY <1>10
  <2>3. Place(S, r) - offset < Place(S, s) - offset <=> Place(S, r) < Place(S, s)
    BY <1>3, <1>1
  <2>4. Place(S, r) < Place(S, s) <=> r.id > s.id
    BY <1>3, PlaceIsPlace
  <2>5. QED BY <2>1, <2>2, <2>3, <2>4
<1>12. QED BY <1>8, <1>9, <1>10, <1>11 DEF page, n

\* What the later rows add to a page.
LEMMA PageGrows ==
    ASSUME NEW S, Table(S), NEW T, Top(T, S), NEW offset \in Nat, NEW limit \in Nat
    PROVE  Page(S, offset, limit) =
             Page(T, offset, limit) \cup Addition(S \ T, Cardinality(T), offset, limit)
<1> DEFINE h == S \ T
           n == Cardinality(T)
           New == {<<n + Place(h, r) - offset, r.id>> :
                     r \in {s \in h : n + Place(h, s) - offset \in 1..limit}}
<1>1. /\ T \subseteq S /\ \A r \in T : Place(S, r) = Place(T, r)
      /\ \A r \in h : Place(S, r) = n + Place(h, r)
  BY PlaceInPart DEF Top
<1>2. \A r \in S : r \in T \/ r \in h
  OBVIOUS
<1>0. /\ n \in Int /\ \A r \in S : Place(S, r) \in Int
      /\ \A r \in h : Place(h, r) \in Int
  BY PartOfTable, PlaceIsPlace DEF Top
<1> HIDE DEF h, n
<1>3. Page(S, offset, limit) \subseteq Page(T, offset, limit) \cup New
  <2>1. SUFFICES ASSUME NEW r \in S, Place(S, r) - offset \in 1..limit
                 PROVE  <<Place(S, r) - offset, r.id>> \in Page(T, offset, limit) \cup New
    BY DEF Page
  <2>2. CASE r \in T
    BY <2>1, <2>2, <1>1 DEF Page
  <2>3. CASE r \in h
    <3>1. Place(S, r) = n + Place(h, r)
      BY <2>3, <1>1
    <3>2. n + Place(h, r) - offset \in 1..limit
      BY <2>1, <3>1, <1>0, <2>3
    <3>3. <<n + Place(h, r) - offset, r.id>> \in New
      BY <2>3, <3>2, Zenon
    <3>4. Place(S, r) - offset = n + Place(h, r) - offset
      BY <3>1, <1>0, <2>3
    <3>5. QED BY <3>3, <3>4
  <2>4. QED BY <1>2, <2>2, <2>3
<1>4. Page(T, offset, limit) \subseteq Page(S, offset, limit)
  BY <1>1 DEF Page
<1>5. New \subseteq Page(S, offset, limit)
  <2>1. h \subseteq S  BY DEF h
  <2>2. SUFFICES ASSUME NEW r \in h, n + Place(h, r) - offset \in 1..limit
                 PROVE  <<n + Place(h, r) - offset, r.id>> \in Page(S, offset, limit)
    OBVIOUS
  <2>3. r \in S /\ Place(S, r) = n + Place(h, r)
    BY <1>1, <2>1
  <2>4. Place(S, r) - offset \in 1..limit
    BY <2>2, <2>3, <1>0
  <2>5. <<Place(S, r) - offset, r.id>> \in Page(S, offset, limit)
    BY <2>3, <2>4, Zenon DEF Page
  <2>6. Place(S, r) - offset = n + Place(h, r) - offset
    BY <2>3, <1>0
  <2>7. QED BY <2>5, <2>6
<1>6. Page(S, offset, limit) = Page(T, offset, limit) \cup New
  BY <1>3, <1>4, <1>5
<1>7. New = Addition(h, n, offset, limit)
  BY DEF Addition
<1>8. QED BY <1>6, <1>7 DEF h, n

LEMMA PageIsFull ==
    ASSUME NEW S, Table(S), NEW T, Top(T, S), NEW offset \in Nat, NEW limit \in Nat,
           T = S \/ Cardinality(T) >= offset + limit
    PROVE  Page(S, offset, limit) = Page(T, offset, limit)
<1> DEFINE h == S \ T
           n == Cardinality(T)
           Added == {s \in h : n + Place(h, s) - offset \in 1..limit}
<1>1. Page(S, offset, limit) = Page(T, offset, limit) \cup Addition(h, n, offset, limit)
  BY PageGrows
<1>2. Table(T) /\ Table(h)
  BY PartOfTable DEF Top
<1>3. n \in Nat /\ \A r \in h : Place(h, r) \in Nat \ {0}
  BY <1>2, PlaceIsPlace
<1> HIDE DEF h, n
<1>4. Added = {}
  <2>1. CASE T = S
    BY <2>1 DEF h
  <2>2. CASE n >= offset + limit
    BY <2>2, <1>3
  <2>3. QED BY <2>1, <2>2 DEF n
<1>5. Addition(h, n, offset, limit) = {}
  BY <1>4 DEF Addition
<1>6. QED BY <1>1, <1>5

Below(S, last) == {r \in S : r.id < last}
From(S, last)  == {r \in S : r.id >= last}

\* The search has looked at the rows of S down to the last one seen.
Story(S) ==
    LET seen == From(Hits(S), search.last)
    IN  /\ search.skipped = Smaller(search.offset, Cardinality(seen))
        /\ search.found = Page(seen, search.offset, search.limit)
        /\ search.at = "read" =>
             seen = Hits(S) \/ Cardinality(seen) >= search.offset + search.limit

\* Whatever it has looked at, the list has no gap and the newer rows are first.
InOrder ==
    /\ IsFiniteSet(search.found) /\ Cardinality(search.found) <= search.limit
    /\ \A p \in search.found : p[1] \in 1..Cardinality(search.found) /\ p[2] >= search.last
    /\ \A p, q \in search.found : p[1] < q[1] <=> p[2] > q[2]

SearchInv ==
    /\ SearchTypeOK /\ Table(log) /\ Table(first)
    /\ search.skipped <= search.offset /\ InOrder
    /\ search.last > MaxId => search.found = {} /\ search.skipped = 0
    /\ search.at = "none" => search = NoSearch /\ ~purged
    /\ ~purged => Story(first)
    /\ ~purged /\ search.last <= MaxId =>
         /\ Below(log, search.last) = Below(first, search.last)
         /\ \E r \in log : r.id >= search.last

\* The next batch is what comes next.
LEMMA SeenGrows ==
    ASSUME NEW S, Table(S), NEW last \in 1..MaxId + 1, NEW next \in 1..MaxId + 1,
           LET batch == Newest(Below(S, last), BatchSize)
           IN  IF batch = {} THEN next = last
               ELSE (\E r \in batch : r.id = next) /\ \A r \in batch : next <= r.id
    PROVE  LET batch == Newest(Below(S, last), BatchSize)
               seen  == From(Hits(S), last)
               now   == From(Hits(S), next)
           IN  /\ Top(seen, now) /\ now \ seen = Hits(batch) /\ Table(now) /\ Table(batch)
               /\ next <= last
               /\ Cardinality(batch) < BatchSize => now = Hits(S)
<1> DEFINE batch == Newest(Below(S, last), BatchSize)
           seen  == From(Hits(S), last)
           now   == From(Hits(S), next)
<1>1. Table(Below(S, last)) /\ Table(now)
  BY PartOfTable DEF Below, From, Hits
<1>2. /\ Top(batch, Below(S, last))
      /\ Cardinality(batch) < BatchSize => batch = Below(S, last)
  BY <1>1, NewestAreTop
<1>3. batch \subseteq Below(S, last) /\ Table(batch)
  BY <1>1, <1>2, PartOfTable DEF Top
<1>4. \A r \in S : r.id \in Int
  BY IdsAreNumbers
<1>5. \A r \in batch : r \in S /\ r.id < last
  BY <1>3 DEF Below
<1> HIDE DEF batch
<1>6. IF batch = {} THEN next = last
      ELSE (\E r \in batch : r.id = next) /\ \A r \in batch : next <= r.id
  BY DEF batch
<1>7. next <= last
  BY <1>4, <1>5, <1>6
<1>8. ASSUME NEW r \in S, next <= r.id, r.id < last PROVE r \in batch
  <2>1. PICK b \in batch : b.id = next
    BY <1>4, <1>6, <1>8
  <2>2. CASE r.id = b.id
    BY <2>1, <2>2, <1>5 DEF Table
  <2>3. CASE r.id > b.id
    BY <2>1, <2>3, <1>2, <1>8 DEF Top, Below
  <2>4. QED BY <2>1, <2>2, <2>3, <1>4, <1>5, <1>8
<1>9. now \ seen = Hits(batch)
  <2>1. ASSUME NEW r \in now \ seen PROVE r \in Hits(batch)
    BY <1>4, <1>8 DEF From, Hits
  <2>2. ASSUME NEW r \in Hits(batch) PROVE r \in now \ seen
    BY <1>4, <1>5, <1>6 DEF From, Hits
  <2>3. QED BY <2>1, <2>2
<1>10. Top(seen, now)
  BY <1>4, <1>7 DEF Top, From, Hits
<1>11. ASSUME batch = Below(S, last) PROVE now = Hits(S)
  <2>1. SUFFICES ASSUME NEW r \in Hits(S) PROVE r.id >= next
    BY DEF From
  <2>2. r \in S
    BY DEF Hits
  <2>3. CASE r.id < last
    BY <2>2, <2>3, <1>4, <1>6, <1>11 DEF Below
  <2>4. QED BY <2>2, <2>3, <1>4, <1>7
<1>12. QED BY <1>1, <1>2, <1>3, <1>7, <1>9, <1>10, <1>11 DEF batch

LEMMA SearchFields ==
    ASSUME SearchTypeOK
    PROVE  /\ search.last \in 1..MaxId + 1 /\ search.skipped \in Nat
           /\ search.limit \in Nat \ {0} /\ search.offset \in Nat
           /\ search.found \subseteq (Nat \X Ids)
<1>1. search \in [at : {"none", "reading", "read"}, last : 1..MaxId + 1, skipped : Nat,
                  found : SUBSET (Nat \X Ids), limit : PageSizes \cup {1}, offset : Offsets \cup {0}]
  BY DEF SearchTypeOK
<1>2. /\ search.last \in 1..MaxId + 1 /\ search.skipped \in Nat
      /\ search.limit \in PageSizes \cup {1} /\ search.offset \in Offsets \cup {0}
      /\ search.found \in SUBSET (Nat \X Ids)
  BY <1>1
<1>3. PageSizes \subseteq Nat \ {0} /\ Offsets \subseteq Nat
  OBVIOUS
<1>4. search.limit \in Nat \ {0}
  <2>1. CASE search.limit \in PageSizes
    BY <2>1, <1>3
  <2>2. CASE search.limit = 1
    BY <2>2
  <2>3. QED BY <1>2, <2>1, <2>2
<1>5. search.offset \in Nat
  <2>1. CASE search.offset \in Offsets
    BY <2>1, <1>3
  <2>2. CASE search.offset = 0
    BY <2>2
  <2>3. QED BY <1>2, <2>1, <2>2
<1>6. search.found \subseteq (Nat \X Ids)
  <2> DEFINE pairs == Nat \X Ids
  <2>1. search.found \in SUBSET pairs
    BY <1>2
  <2> HIDE DEF pairs
  <2>2. search.found \subseteq pairs
    BY <2>1
  <2>3. QED BY <2>2 DEF pairs
<1>7. QED BY <1>2, <1>4, <1>5, <1>6

\* Looking at a batch is looking further.
LEMMA FoundGrows ==
    ASSUME SearchTypeOK, NEW S, Table(S), NEW T, Top(T, S),
           search.skipped = Smaller(search.offset, Cardinality(T)),
           search.found = Page(T, search.offset, search.limit)
    PROVE  /\ Skipped(S \ T) = Smaller(search.offset, Cardinality(S))
           /\ Found(S \ T) = Page(S, search.offset, search.limit)
<1> DEFINE h == S \ T
           n == Cardinality(T)
           o == search.offset
           m == search.limit
           c == Cardinality(search.found)
           New == {<<n + Place(h, r) - o, r.id>> : r \in {s \in h : n + Place(h, s) - o \in 1..m}}
<1>1. o \in Nat /\ m \in Nat \ {0} /\ search.skipped \in Nat
  BY SearchFields
<1>2. Table(T) /\ Table(h)
  BY PartOfTable DEF Top
<1>3. /\ n \in Nat /\ Cardinality(h) \in Nat /\ Cardinality(S) \in Nat
      /\ \A r \in h : Place(h, r) \in Nat \ {0}
  <2>1. n \in Nat /\ Cardinality(S) \in Nat
    BY <1>2, PlaceIsPlace
  <2> HIDE DEF h, n
  <2>2. Cardinality(h) \in Nat /\ \A r \in h : Place(h, r) \in 1..Cardinality(h)
    BY <1>2, PlaceIsPlace
  <2>3. QED BY <2>1, <2>2
<1>4. Cardinality(S) = n + Cardinality(h)
  <2>1. S \cap T = T /\ IsFiniteSet(S)
    BY DEF Top, Table
  <2>2. Cardinality(h) = Cardinality(S) - Cardinality(S \cap T)
    BY <2>1, FS_Difference
  <2>3. Cardinality(S \cap T) = n
    BY <2>1
  <2> HIDE DEF h, n
  <2>4. QED BY <2>2, <2>3, <1>3
<1>5. c = IF n <= o THEN 0 ELSE Smaller(m, n - o)
  BY <1>1, <1>2, PageIsPage
<1>6. Page(S, o, m) = search.found \cup New
  <2>1. Page(S, o, m) = search.found \cup Addition(h, n, o, m)
    BY <1>1, PageGrows
  <2>2. New = Addition(h, n, o, m)
    BY DEF Addition
  <2>3. QED BY <2>1, <2>2
<1> HIDE DEF h, n, o, m, c
<1>7. ToSkip = (IF o <= n THEN 0 ELSE o - n) /\ Room = m - c
  BY <1>1, <1>3 DEF ToSkip, Room, Smaller, n, o, m, c
<1>8. Skipped(h) = Smaller(o, Cardinality(S))
  BY <1>1, <1>3, <1>4, <1>7 DEF Skipped, Smaller, n, o
<1>9. ASSUME NEW r \in h
      PROVE  /\ n + Place(h, r) - o \in 1..m <=> Place(h, r) - ToSkip \in 1..Room
             /\ n + Place(h, r) - o \in 1..m => c + Place(h, r) - ToSkip = n + Place(h, r) - o
  BY <1>1, <1>3, <1>5, <1>7 DEF Smaller
<1>10. Found(h) = search.found \cup New
  <2>1. ASSUME NEW r \in h, n + Place(h, r) - o \in 1..m
        PROVE  <<n + Place(h, r) - o, r.id>> \in Found(h)
    <3>1. r \in Taken(h) /\ c + Place(h, r) - ToSkip = n + Place(h, r) - o
      BY <2>1, <1>9 DEF Taken
    <3>2. <<c + Place(h, r) - ToSkip, r.id>> \in Found(h)
      BY <3>1, Zenon DEF Found, c
    <3>3. QED BY <3>1, <3>2
  <2>2. ASSUME NEW r \in Taken(h)
        PROVE  <<c + Place(h, r) - ToSkip, r.id>> \in New
    <3>1. r \in h /\ n + Place(h, r) - o \in 1..m /\ c + Place(h, r) - ToSkip = n + Place(h, r) - o
      BY <1>9 DEF Taken
    <3>2. <<n + Place(h, r) - o, r.id>> \in New
      BY <3>1, Zenon
    <3>3. QED BY <3>1, <3>2
  <2>3. Found(h) \subseteq search.found \cup New
    BY <2>2 DEF Found, c
  <2>4. New \subseteq Found(h)
    BY <2>1
  <2>5. search.found \subseteq Found(h)
    BY DEF Found
  <2>6. QED BY <2>3, <2>4, <2>5
<1>11. QED BY <1>6, <1>8, <1>10 DEF h, n, o, m

LEMMA OrderGrows ==
    ASSUME SearchTypeOK, search.skipped <= search.offset, InOrder,
           NEW h, Table(h), NEW next \in 1..MaxId + 1, next <= search.last,
           \A r \in h : r.id < search.last /\ next <= r.id
    PROVE  /\ Skipped(h) \in Nat /\ Skipped(h) <= search.offset
           /\ Found(h) \subseteq (Nat \X Ids) /\ IsFiniteSet(Found(h))
           /\ Cardinality(Found(h)) <= search.limit
           /\ \A p \in Found(h) : p[1] \in 1..Cardinality(Found(h)) /\ p[2] >= next
           /\ \A p, q \in Found(h) : p[1] < q[1] <=> p[2] > q[2]
<1> DEFINE c == Cardinality(search.found)
           page == Page(h, ToSkip, Room)
           behind == [p \in page |-> <<c + p[1], p[2]>>]
           New == {behind[p] : p \in page}
<1>1. /\ IsFiniteSet(search.found) /\ c \in Nat /\ c <= search.limit
      /\ search.skipped \in Nat /\ search.offset \in Nat /\ search.limit \in Nat
      /\ Cardinality(h) \in Nat
  BY SearchFields, PlaceIsPlace, FS_CardinalityType DEF InOrder
<1>2. ToSkip \in Nat /\ Room \in Nat /\ Room = search.limit - c
  BY <1>1 DEF ToSkip, Room
<1>3. Skipped(h) \in Nat /\ Skipped(h) <= search.offset
  BY <1>1, <1>2 DEF Skipped, ToSkip
<1>4. /\ page \subseteq (Nat \X Ids) /\ IsFiniteSet(page)
      /\ Cardinality(page) \in Nat /\ Cardinality(page) <= Room
      /\ \A p \in page : p[1] \in 1..Cardinality(page) /\ \E r \in h : p[2] = r.id
      /\ \A p, q \in page : p[1] < q[1] <=> p[2] > q[2]
  <2>1. /\ page \subseteq (Nat \X Ids) /\ IsFiniteSet(page)
        /\ Cardinality(page) = IF Cardinality(h) <= ToSkip THEN 0
                               ELSE Smaller(Room, Cardinality(h) - ToSkip)
        /\ \A p \in page : p[1] \in 1..Cardinality(page) /\ \E r \in h : p[2] = r.id
        /\ \A p, q \in page : p[1] < q[1] <=> p[2] > q[2]
    BY <1>2, PageIsPage
  <2>2. Cardinality(page) \in Nat /\ Cardinality(page) <= Room
    <3>1. Cardinality(page) = IF Cardinality(h) <= ToSkip THEN 0
                              ELSE Smaller(Room, Cardinality(h) - ToSkip)
      BY <2>1
    <3> HIDE DEF page
    <3>2. QED BY <3>1, <1>1, <1>2 DEF Smaller
  <2> HIDE DEF page
  <2>3. QED BY <2>1, <2>2
<1>5. Found(h) = search.found \cup New
  <2>1. ASSUME NEW r \in Taken(h)
        PROVE  <<c + Place(h, r) - ToSkip, r.id>> \in New
    <3>1. r \in h /\ Place(h, r) - ToSkip \in 1..Room /\ Place(h, r) \in Int
      BY PlaceIsPlace DEF Taken
    <3>2. <<Place(h, r) - ToSkip, r.id>> \in page
      BY <3>1, Zenon DEF Page
    <3>3. behind[<<Place(h, r) - ToSkip, r.id>>] = <<c + (Place(h, r) - ToSkip), r.id>>
      BY <3>2
    <3>4. c + (Place(h, r) - ToSkip) = c + Place(h, r) - ToSkip
      BY <1>1, <1>2, <3>1
    <3>5. behind[<<Place(h, r) - ToSkip, r.id>>] \in New
      BY <3>2
    <3>6. QED BY <3>3, <3>4, <3>5
  <2>2. ASSUME NEW p \in page
        PROVE  behind[p] \in Found(h)
    <3>1. PICK r \in {s \in h : Place(h, s) - ToSkip \in 1..Room} :
               p = <<Place(h, r) - ToSkip, r.id>>
      BY DEF Page
    <3>2. r \in Taken(h) /\ Place(h, r) \in Int
      BY <3>1, PlaceIsPlace DEF Taken
    <3>3. behind[p] = <<c + (Place(h, r) - ToSkip), r.id>>
      BY <3>1
    <3>4. c + (Place(h, r) - ToSkip) = c + Place(h, r) - ToSkip
      BY <1>1, <1>2, <3>2
    <3>5. <<c + Place(h, r) - ToSkip, r.id>> \in Found(h)
      BY <3>2, Zenon DEF Found, c
    <3>6. QED BY <3>3, <3>4, <3>5
  <2>3. Found(h) \subseteq search.found \cup New
    BY <2>1 DEF Found, c
  <2>4. New \subseteq Found(h)
    BY <2>2
  <2>5. search.found \subseteq Found(h)
    BY DEF Found
  <2>6. QED BY <2>3, <2>4, <2>5
<1> HIDE DEF page, c
<1>6. ASSUME NEW p \in page
      PROVE  /\ behind[p] = <<c + p[1], p[2]>> /\ behind[p][1] = c + p[1] /\ behind[p][2] = p[2]
             /\ p[1] \in 1..Cardinality(page) /\ p[2] \in Ids
             /\ c + p[1] \in c + 1..c + Cardinality(page) /\ next <= p[2] /\ p[2] < search.last
             /\ p = <<p[1], p[2]>>
  <2>1. p \in Nat \X Ids /\ p[1] \in 1..Cardinality(page)
    BY <1>4
  <2>2. PICK r \in h : p[2] = r.id
    BY <1>4
  <2>3. next <= p[2] /\ p[2] < search.last
    BY <2>2
  <2>4. c + p[1] \in c + 1..c + Cardinality(page)
    BY <2>1, <1>1, <1>4
  <2>5. QED BY <2>1, <2>3, <2>4
<1>7. ASSUME NEW p \in page, NEW q \in page, behind[p] = behind[q] PROVE p = q
  <2>1. c + p[1] = c + q[1] /\ p[2] = q[2]
    BY <1>6, <1>7
  <2>2. p[1] = q[1]
    BY <2>1, <1>6, <1>1, <1>4
  <2>3. QED BY <2>1, <2>2, <1>6
<1> HIDE DEF behind
<1>8. IsFiniteSet(New) /\ Cardinality(New) = Cardinality(page)
  <2>1. behind \in [page -> New]
    BY DEF behind
  <2>2. \A b \in New : \E p \in page : behind[p] = b
    OBVIOUS
  <2> HIDE DEF New
  <2>3. IsFiniteSet(New)
    BY <1>4, <2>1, <2>2, FS_Surjection DEF Surjection
  <2>4. QED BY <1>4, <1>7, <2>1, <2>2, <2>3, OneToOne
<1>9. ASSUME NEW b \in New
      PROVE  /\ b \in Nat \X Ids /\ b[1] \in Int /\ b[2] \in Int
             /\ c < b[1] /\ b[1] <= c + Cardinality(page)
             /\ next <= b[2] /\ b[2] < search.last
  <2>1. PICK p \in page : b = behind[p]
    OBVIOUS
  <2>2. b = <<c + p[1], p[2]>> /\ b[1] = c + p[1] /\ b[2] = p[2] /\ p[2] \in Ids
        /\ next <= p[2] /\ p[2] < search.last /\ c + p[1] \in c + 1..c + Cardinality(page)
    BY <2>1, <1>6
  <2>3. c + p[1] \in Nat
    BY <2>2, <1>1, <1>4
  <2>4. QED BY <2>2, <2>3, <1>1, <1>4 DEF Ids
<1>10. ASSUME NEW b \in search.found
       PROVE  /\ b \in Nat \X Ids /\ b[1] \in Int /\ b[2] \in Int
              /\ b[1] \in 1..c /\ b[2] >= search.last /\ b[2] >= next
  <2>1. b \in Nat \X Ids /\ b[1] \in 1..c /\ b[2] >= search.last
    BY SearchFields DEF InOrder, c
  <2>2. search.last \in Int
    BY SearchFields
  <2>3. b[2] \in Int
    BY <2>1 DEF Ids
  <2>4. QED BY <2>1, <2>2, <2>3
<1>11. IsFiniteSet(Found(h)) /\ Cardinality(Found(h)) = c + Cardinality(page)
  <2>1. ASSUME NEW b \in search.found, b \in New PROVE FALSE
    BY <2>1, <1>1, <1>9, <1>10
  <2>2. search.found \cap New = {}
    BY <2>1
  <2> HIDE DEF New
  <2>3. Cardinality(search.found \cap New) = 0
    BY <2>2, FS_EmptySet
  <2>4. IsFiniteSet(search.found \cup New)
        /\ Cardinality(search.found \cup New) = c + Cardinality(New) - Cardinality(search.found \cap New)
    BY <1>1, <1>8, FS_Union DEF c
  <2>5. QED BY <1>1, <1>4, <1>5, <1>8, <2>3, <2>4
<1>12. ASSUME NEW b \in New, NEW d \in New PROVE b[1] < d[1] <=> b[2] > d[2]
  <2>1. PICK p \in page : b = behind[p]
    OBVIOUS
  <2>2. PICK q \in page : d = behind[q]
    OBVIOUS
  <2>3. b[1] = c + p[1] /\ b[2] = p[2] /\ d[1] = c + q[1] /\ d[2] = q[2]
    BY <2>1, <2>2, <1>6
  <2>4. p[1] < q[1] <=> p[2] > q[2]
    BY <1>4
  <2>5. p[1] \in Int /\ q[1] \in Int
    BY <1>4, <1>6
  <2>6. QED BY <1>1, <2>3, <2>4, <2>5
<1> HIDE DEF New
<1>13. ASSUME NEW b \in search.found, NEW d \in New
       PROVE  b[1] < d[1] /\ b[2] > d[2] /\ ~(d[1] < b[1]) /\ ~(d[2] > b[2])
  BY <1>1, <1>9, <1>10, SearchFields
<1>14. \A p, q \in Found(h) : p[1] < q[1] <=> p[2] > q[2]
  <2>1. \A p, q \in search.found : p[1] < q[1] <=> p[2] > q[2]
    BY DEF InOrder
  <2>2. QED BY <1>5, <1>12, <1>13, <2>1
<1>15. \A p \in Found(h) : p \in Nat \X Ids /\ p[1] \in 1..(c + Cardinality(page)) /\ p[2] >= next
  BY <1>1, <1>4, <1>5, <1>9, <1>10
<1>16. Cardinality(Found(h)) <= search.limit
  BY <1>1, <1>2, <1>4, <1>11
<1>17. QED BY <1>3, <1>11, <1>14, <1>15, <1>16

LEMMA NothingSeen ==
    ASSUME NEW S, Table(S), NEW offset \in Nat, NEW limit
    PROVE  From(Hits(S), MaxId + 1) = {} /\ Cardinality({}) = 0
           /\ Page({}, offset, limit) = {} /\ Smaller(offset, 0) = 0
<1>1. \A r \in S : r.id \in 1..MaxId
  BY IdsAreNumbers DEF Ids
<1>2. From(Hits(S), MaxId + 1) = {}
  BY <1>1 DEF From, Hits
<1>3. Page({}, offset, limit) = {}
  BY DEF Page
<1>4. QED BY <1>2, <1>3, FS_EmptySet DEF Smaller

LEMMA EmptyBatch ==
    ASSUME SearchTypeOK, search.found = {}, search.skipped = 0
    PROVE  Found({}) = {} /\ Skipped({}) = 0
<1>1. Found({}) = {}
  BY DEF Found, Taken
<1>2. search.offset \in Nat /\ Cardinality({}) = 0
  BY SearchFields, FS_EmptySet
<1>3. QED BY <1>1, <1>2 DEF Skipped, ToSkip

\* What a batch does.
LEMMA BatchIs ==
    ASSUME SearchTypeOK, Batch
    PROVE  LET batch == Newest(Below(log, search.last), BatchSize)
               hits  == Hits(batch)
           IN  /\ search.at = "reading"
               /\ search' \in [at : {"none", "reading", "read"}, last : 1..MaxId + 1,
                               skipped : {Skipped(hits)}, found : {Found(hits)},
                               limit : {search.limit}, offset : {search.offset}]
               /\ IF batch = {} THEN search'.last = search.last
                  ELSE (\E r \in batch : r.id = search'.last) /\ \A r \in batch : search'.last <= r.id
               /\ search'.at = IF Cardinality(batch) < BatchSize \/ Cardinality(Found(hits)) = search.limit
                               THEN "read" ELSE "reading"
               /\ IF search.last > MaxId THEN first' = log /\ purged' = FALSE
                                         ELSE UNCHANGED <<first, purged>>
               /\ log' = log
<1> DEFINE batch == Newest(Below(log, search.last), BatchSize)
<1>1. Looks(batch)
  BY DEF Batch, Below
<1> HIDE DEF batch
<1> DEFINE hits == Hits(batch)
           over == Cardinality(batch) < BatchSize \/ Cardinality(Found(hits)) = search.limit
<1>2. /\ search.at = "reading" /\ log' = log
      /\ IF search.last > MaxId THEN first' = log /\ purged' = FALSE
                                ELSE UNCHANGED <<first, purged>>
  BY <1>1 DEF Looks
<1>3. PICK last \in 1..MaxId + 1 :
        /\ IF batch = {} THEN last = search.last
           ELSE (\E r \in batch : r.id = last) /\ \A r \in batch : last <= r.id
        /\ search' = [search EXCEPT !.at = IF over THEN "read" ELSE "reading",
                         !.last = last, !.skipped = Skipped(hits), !.found = Found(hits)]
  BY <1>1, Zenon DEF Looks
<1>4. search \in [at : {"none", "reading", "read"}, last : 1..MaxId + 1, skipped : Nat,
                  found : SUBSET (Nat \X Ids), limit : PageSizes \cup {1}, offset : Offsets \cup {0}]
  BY DEF SearchTypeOK
<1> HIDE DEF over, hits
<1>5. /\ search' \in [at : {"none", "reading", "read"}, last : 1..MaxId + 1,
                       skipped : {Skipped(hits)}, found : {Found(hits)},
                       limit : {search.limit}, offset : {search.offset}]
      /\ search'.last = last /\ search'.at = IF over THEN "read" ELSE "reading"
  BY <1>3, <1>4
<1>6. QED BY <1>2, <1>3, <1>5 DEF over, hits, batch

LEMMA BatchKeeps ==
    ASSUME SearchInv, Batch
    PROVE  SearchInv'
<1> DEFINE S     == IF search.last > MaxId THEN log ELSE first
           batch == Newest(Below(log, search.last), BatchSize)
           hits  == Hits(batch)
           next  == search'.last
<1>1. /\ SearchTypeOK /\ InOrder /\ Table(log) /\ Table(first) /\ search.skipped <= search.offset
  BY DEF SearchInv
<1>2. /\ search.last \in 1..MaxId + 1 /\ search.skipped \in Nat
      /\ search.limit \in Nat \ {0} /\ search.offset \in Nat
  BY <1>1, SearchFields
<1>3. /\ search.at = "reading"
      /\ search' \in [at : {"none", "reading", "read"}, last : 1..MaxId + 1,
                      skipped : {Skipped(hits)}, found : {Found(hits)},
                      limit : {search.limit}, offset : {search.offset}]
      /\ IF batch = {} THEN next = search.last
         ELSE (\E r \in batch : r.id = next) /\ \A r \in batch : next <= r.id
      /\ search'.at = IF Cardinality(batch) < BatchSize \/ Cardinality(Found(hits)) = search.limit
                      THEN "read" ELSE "reading"
      /\ IF search.last > MaxId THEN first' = log /\ purged' = FALSE
                                ELSE UNCHANGED <<first, purged>>
      /\ log' = log
  BY <1>1, BatchIs
<1>4. /\ search'.skipped = Skipped(hits) /\ search'.found = Found(hits) /\ next \in 1..MaxId + 1
      /\ search'.limit = search.limit /\ search'.offset = search.offset
      /\ search'.at \in {"reading", "read"}
  BY <1>3
<1>5. next <= search.last /\ Table(batch) /\ hits \subseteq batch
  BY <1>1, <1>2, <1>3, <1>4, SeenGrows DEF Hits
<1>6. \A r \in batch : r.id \in Ids /\ r \in log /\ r.id < search.last /\ next <= r.id
  <2>1. \A r \in batch : r \in log /\ r.id < search.last
    BY DEF Newest, Below
  <2>2. \A r \in batch : next <= r.id
    BY <1>3
  <2>3. QED BY <1>1, <2>1, <2>2, IdsAreNumbers
<1> HIDE DEF batch
<1>7. Table(hits)
  BY <1>5, PartOfTable
<1>8. /\ Skipped(hits) \in Nat /\ Skipped(hits) <= search.offset
      /\ Found(hits) \subseteq (Nat \X Ids) /\ IsFiniteSet(Found(hits))
      /\ Cardinality(Found(hits)) <= search.limit
      /\ \A p \in Found(hits) : p[1] \in 1..Cardinality(Found(hits)) /\ p[2] >= next
      /\ \A p, q \in Found(hits) : p[1] < q[1] <=> p[2] > q[2]
  BY <1>1, <1>4, <1>5, <1>6, <1>7, OrderGrows
<1> HIDE DEF hits, next
<1>9. SearchTypeOK'
  <2>1. log' \subseteq Row /\ first' \subseteq Row /\ purged' \in BOOLEAN
    BY <1>1, <1>3 DEF SearchTypeOK
  <2>2. search.limit \in PageSizes \cup {1} /\ search.offset \in Offsets \cup {0}
    BY <1>1 DEF SearchTypeOK
  <2>3. Found(hits) \in SUBSET (Nat \X Ids)
    BY <1>8
  <2>4. search' \in [at : {"none", "reading", "read"}, last : 1..MaxId + 1, skipped : Nat,
                     found : SUBSET (Nat \X Ids), limit : PageSizes \cup {1}, offset : Offsets \cup {0}]
    BY <1>3, <1>8, <2>2, <2>3
  <2>5. QED BY <2>1, <2>4 DEF SearchTypeOK
<1>10. InOrder' /\ search'.skipped <= search'.offset
  BY <1>4, <1>8 DEF InOrder, next
<1>11. Table(log)' /\ Table(first)' /\ Table(S)
  BY <1>1, <1>3 DEF Table
<1>12. search'.last > MaxId => search'.found = {} /\ search'.skipped = 0
  <2>1. SUFFICES ASSUME next > MaxId PROVE search'.found = {} /\ search'.skipped = 0
    BY DEF next
  <2>2. batch = {}
    <3>1. ASSUME NEW r \in batch PROVE FALSE
      <4>1. r.id \in 1..MaxId /\ next <= r.id
        BY <1>6 DEF Ids
      <4>2. QED BY <4>1, <2>1, <1>4
    <3>2. QED BY <3>1
  <2>3. search.last > MaxId /\ hits = {}
    BY <2>1, <2>2, <1>3, <1>4 DEF hits, Hits
  <2>4. search.found = {} /\ search.skipped = 0
    BY <2>3 DEF SearchInv
  <2>5. QED BY <1>1, <1>4, <2>3, <2>4, EmptyBatch
<1>13. ASSUME ~purged' PROVE first' = S /\ Story(S) /\ Below(log, search.last) = Below(S, search.last)
  <2>1. CASE search.last > MaxId
    <3>1. S = log /\ first' = S /\ search.last = MaxId + 1
      BY <2>1, <1>2, <1>3
    <3>2. From(Hits(S), search.last) = {} /\ Cardinality({}) = 0
          /\ Page({}, search.offset, search.limit) = {} /\ Smaller(search.offset, 0) = 0
      BY <1>2, <1>11, <3>1, NothingSeen
    <3>3. search.found = {} /\ search.skipped = 0
      BY <2>1 DEF SearchInv
    <3>4. Story(S)
      BY <3>2, <3>3, <1>3 DEF Story
    <3>5. QED BY <3>1, <3>4
  <2>2. CASE ~(search.last > MaxId)
    <3>1. S = first /\ first' = S /\ ~purged
      BY <2>2, <1>3, <1>13
    <3>2. QED BY <2>2, <3>1, <1>2 DEF SearchInv
  <2>3. QED BY <2>1, <2>2
<1> HIDE DEF S
<1>14. ASSUME ~purged' PROVE Story(first)'
  <2> DEFINE seen == From(Hits(S), search.last)
             now  == From(Hits(S), next)
  <2>1. first' = S /\ Table(S) /\ Story(S) /\ batch = Newest(Below(S, search.last), BatchSize)
    BY <1>11, <1>13, <1>14 DEF batch
  <2>2. /\ Top(seen, now) /\ now \ seen = hits /\ Table(now) /\ Table(batch)
        /\ Cardinality(batch) < BatchSize => now = Hits(S)
    <3> DEFINE b == Newest(Below(S, search.last), BatchSize)
    <3>1. IF b = {} THEN next = search.last
          ELSE (\E r \in b : r.id = next) /\ \A r \in b : next <= r.id
      BY <1>3, <2>1
    <3>2. /\ Top(seen, now) /\ now \ seen = Hits(b) /\ Table(now) /\ Table(b)
          /\ Cardinality(b) < BatchSize => now = Hits(S)
      BY <1>2, <1>4, <2>1, <3>1, SeenGrows
    <3> HIDE DEF seen, now, b
    <3>3. b = batch
      BY <2>1 DEF b
    <3>4. QED BY <3>2, <3>3 DEF hits
  <2>3. search.skipped = Smaller(search.offset, Cardinality(seen))
        /\ search.found = Page(seen, search.offset, search.limit)
    BY <2>1 DEF Story
  <2>4. Skipped(hits) = Smaller(search.offset, Cardinality(now))
        /\ Found(hits) = Page(now, search.offset, search.limit)
    <3> HIDE DEF seen, now
    <3>1. QED BY <1>1, <2>2, <2>3, FoundGrows
  <2>5. search'.at = "read" => now = Hits(S) \/ Cardinality(now) >= search.offset + search.limit
    <3>1. SUFFICES ASSUME Cardinality(Found(hits)) = search.limit
                   PROVE  Cardinality(now) >= search.offset + search.limit
      BY <1>3, <2>2
    <3> HIDE DEF seen, now
    <3>2. Cardinality(Found(hits)) = IF Cardinality(now) <= search.offset THEN 0
                                     ELSE Smaller(search.limit, Cardinality(now) - search.offset)
      BY <1>2, <2>2, <2>4, PageIsPage
    <3>3. Cardinality(now) \in Nat
      BY <2>2, PlaceIsPlace
    <3>4. QED BY <1>2, <3>1, <3>2, <3>3 DEF Smaller
  <2>6. QED BY <1>4, <2>1, <2>4, <2>5 DEF Story, next
<1>15. ASSUME ~purged', search'.last <= MaxId
       PROVE  /\ Below(log, search.last)' = Below(first, search.last)'
              /\ (\E r \in log : r.id >= search.last)'
  <2>1. Below(log, next) = Below(S, next)
    <3>1. Below(log, search.last) = Below(S, search.last)
      BY <1>13, <1>15
    <3>2. \A r : r \in log \/ r \in S => r.id \in Int
      BY <1>1, <1>11, IdsAreNumbers
    <3>3. QED BY <1>2, <1>4, <1>5, <3>1, <3>2 DEF Below
  <2>2. first' = S /\ log' = log
    BY <1>3, <1>13, <1>15
  <2>3. CASE batch = {}
    <3>1. search'.last = search.last
      BY <2>3, <1>3 DEF next
    <3>2. search.last <= MaxId /\ ~(search.last > MaxId)
      BY <3>1, <1>15, <1>2
    <3>3. ~purged
      BY <3>2, <1>3, <1>15
    <3>4. \E r \in log : r.id >= search.last
      BY <3>2, <3>3 DEF SearchInv
    <3>5. QED BY <2>1, <2>2, <3>1, <3>4 DEF next
  <2>4. CASE batch # {}
    <3>1. PICK r \in batch : r.id = next
      BY <2>4, <1>3
    <3>2. r \in log /\ r.id >= next
      BY <3>1, <1>4, <1>6
    <3>3. QED BY <2>1, <2>2, <3>2 DEF next
  <2>5. QED BY <2>3, <2>4
<1>16. QED BY <1>4, <1>9, <1>10, <1>11, <1>12, <1>14, <1>15 DEF SearchInv

LEMMA StoryBegins ==
    ASSUME NEW S, Table(S), search.last = MaxId + 1, search.found = {}, search.skipped = 0,
           search.offset \in Nat, search.at # "read"
    PROVE  Story(S)
BY NothingSeen DEF Story

LEMMA NoSearchIs ==
    ASSUME SearchTypeOK, Table(log), search = NoSearch, ~purged, first = {}
    PROVE  SearchInv
<1>1. /\ search.last = MaxId + 1 /\ search.found = {} /\ search.skipped = 0 /\ search.offset = 0
      /\ search.at = "none" /\ search.limit = 1
  BY DEF NoSearch
<1>2. Table(first)
  BY FS_EmptySet DEF Table
<1>3. Story(first)
  BY <1>1, <1>2, StoryBegins
<1>4. InOrder
  BY <1>1, FS_EmptySet DEF InOrder
<1>5. ~(search.last <= MaxId)
  BY <1>1
<1>6. QED BY <1>1, <1>2, <1>3, <1>4, <1>5 DEF SearchInv

LEMMA NoSearchType ==
    ASSUME search = NoSearch, log \subseteq Row, first = {}, purged \in BOOLEAN
    PROVE  SearchTypeOK
<1>1. MaxId + 1 \in 1..MaxId + 1
  OBVIOUS
<1>2. NoSearch \in [at : {"none", "reading", "read"}, last : 1..MaxId + 1, skipped : Nat,
                    found : SUBSET (Nat \X Ids), limit : PageSizes \cup {1}, offset : Offsets \cup {0}]
  BY <1>1 DEF NoSearch
<1>3. QED BY <1>2 DEF SearchTypeOK

LEMMA SearchStarts == SearchInit => SearchInv
<1>1. SUFFICES ASSUME SearchInit PROVE SearchInv
  OBVIOUS
<1>2. log = {} /\ first = {} /\ search = NoSearch /\ purged = FALSE
  BY <1>1 DEF SearchInit
<1>3. Table(log)
  BY <1>2, FS_EmptySet DEF Table
<1>4. QED BY <1>2, <1>3, NoSearchIs, NoSearchType

LEMMA LogKeeps ==
    ASSUME SearchInv, NEW owner \in Owners, NEW hit \in BOOLEAN, Log(owner, hit)
    PROVE  SearchInv'
<1>1. PICK id \in Ids :
        /\ \A r \in log : r.id < id
        /\ log' = log \cup {[id |-> id, owner |-> owner, hit |-> hit]}
        /\ UNCHANGED <<search, first, purged>>
  BY DEF Log
<1> DEFINE new == [id |-> id, owner |-> owner, hit |-> hit]
<1>2. new \in Row /\ new.id = id /\ id \in Int
  BY DEF Row, Ids
<1>3. SearchTypeOK /\ Table(log) /\ \A r \in log : r.id \in Int
  BY IdsAreNumbers DEF SearchInv
<1> HIDE DEF new
<1>4. log' = log \cup {new}
  BY <1>1 DEF new
<1>5. Table(log')
  <2>1. IsFiniteSet(log') /\ log' \subseteq Row
    BY <1>2, <1>3, <1>4, FS_AddElement DEF Table
  <2>2. ASSUME NEW r \in log', NEW s \in log', r.id = s.id PROVE r = s
    BY <2>2, <1>1, <1>2, <1>3, <1>4 DEF Table
  <2>3. QED BY <2>1, <2>2 DEF Table
<1>6. SearchTypeOK'
  BY <1>1, <1>3, <1>5 DEF SearchTypeOK, Table
<1>7. ASSUME ~purged, search.last <= MaxId
      PROVE  /\ Below(log', search.last) = Below(first, search.last)
             /\ \E r \in log' : r.id >= search.last
  <2>1. Below(log, search.last) = Below(first, search.last) /\ \E r \in log : r.id >= search.last
    BY <1>7 DEF SearchInv
  <2>2. search.last \in Int
    BY <1>3, SearchFields
  <2>3. ~(new.id < search.last)
    BY <1>1, <1>2, <1>3, <2>1, <2>2
  <2>4. Below(log', search.last) = Below(log, search.last)
    BY <1>4, <2>3 DEF Below
  <2>5. QED BY <1>4, <2>1, <2>4
<1>8. QED BY <1>1, <1>5, <1>6, <1>7 DEF SearchInv, InOrder, Story, Table

LEMMA PurgeKeeps ==
    ASSUME SearchInv, NEW owner, PurgeRows(owner)
    PROVE  SearchInv'
<1>1. /\ log' \subseteq log /\ first' = {} /\ search' = search /\ purged' = (search.at # "none")
  BY DEF PurgeRows
<1>2. Table(log)' /\ Table(first)' /\ SearchTypeOK'
  <2>1. Table(log')
    BY <1>1, PartOfTable DEF SearchInv
  <2>2. QED BY <1>1, <2>1, FS_EmptySet DEF SearchInv, SearchTypeOK, Table
<1>3. CASE search.at = "none"
  <2>1. search' = NoSearch /\ ~purged' /\ first' = {}
    BY <1>1, <1>3 DEF SearchInv
  <2>2. SearchTypeOK' /\ Table(log)' /\ (search = NoSearch)' /\ (~purged)' /\ (first = {})' => SearchInv'
    BY NoSearchIs, PTL
  <2>3. QED BY <1>2, <2>1, <2>2
<1>4. CASE search.at # "none"
  <2>1. purged' /\ search'.at # "none"
    BY <1>1, <1>4
  <2>2. QED BY <1>1, <1>2, <2>1 DEF SearchInv, InOrder
<1>5. QED BY <1>3, <1>4

LEMMA BeginKeeps ==
    ASSUME SearchInv, search.at = "none", NEW limit \in PageSizes, NEW offset \in Offsets,
           BeginSearch(limit, offset)
    PROVE  SearchInv'
<1>1. /\ search = NoSearch /\ ~purged /\ SearchTypeOK /\ Table(log) /\ Table(first)
      /\ UNCHANGED <<log, first, purged>>
  BY DEF SearchInv, BeginSearch
<1>2. search' = [NoSearch EXCEPT !.at = "reading", !.limit = limit, !.offset = offset]
  BY DEF BeginSearch
<1>3. /\ search'.at = "reading" /\ search'.last = MaxId + 1 /\ search'.skipped = 0
      /\ search'.found = {} /\ search'.limit = limit /\ search'.offset = offset
  BY <1>2 DEF NoSearch
<1>4. limit \in Nat /\ offset \in Nat /\ MaxId + 1 \in 1..MaxId + 1
  OBVIOUS
<1>5. SearchTypeOK'
  <2>1. search' \in [at : {"none", "reading", "read"}, last : 1..MaxId + 1, skipped : Nat,
                     found : SUBSET (Nat \X Ids), limit : PageSizes \cup {1}, offset : Offsets \cup {0}]
    BY <1>2, <1>4 DEF NoSearch
  <2>2. QED BY <1>1, <2>1 DEF SearchTypeOK
<1>6. Story(first)'
  <2>1. From(Hits(first'), MaxId + 1) = {} /\ Cardinality({}) = 0
        /\ Page({}, offset, limit) = {} /\ Smaller(offset, 0) = 0
    BY <1>1, <1>4, NothingSeen
  <2>2. QED BY <1>3, <2>1 DEF Story
<1>7. InOrder'
  BY <1>3, <1>4, FS_EmptySet DEF InOrder
<1>8. Table(log)' /\ Table(first)'
  BY <1>1 DEF Table
<1>9. ~(search'.last <= MaxId) /\ search'.skipped <= search'.offset
  BY <1>3, <1>4
<1>10. QED BY <1>3, <1>5, <1>6, <1>7, <1>8, <1>9 DEF SearchInv

LEMMA DropKeeps ==
    ASSUME SearchInv, DropSearch
    PROVE  SearchInv'
<1>1. search' = NoSearch /\ first' = {} /\ purged' = FALSE /\ log' = log
  BY DEF DropSearch
<1>2. Table(log)' /\ log' \subseteq Row
  BY <1>1 DEF SearchInv, Table
<1>3. SearchTypeOK'
  <2>1. (search = NoSearch)' /\ (log \subseteq Row)' /\ (first = {})' /\ (purged \in BOOLEAN)' => SearchTypeOK'
    BY NoSearchType, PTL
  <2>2. QED BY <1>1, <1>2, <2>1
<1>4. SearchTypeOK' /\ Table(log)' /\ (search = NoSearch)' /\ (~purged)' /\ (first = {})' => SearchInv'
  BY NoSearchIs, PTL
<1>5. QED BY <1>1, <1>2, <1>3, <1>4

\* Whichever batches it took, and whatever was written between them.
LEMMA AnswerIsSnapshot ==
    ASSUME SearchInv
    PROVE  SearchIsASnapshot
<1> DEFINE hits   == Hits(first)
           Wanted == {r \in hits : Place(hits, r) - search.offset \in 1..search.limit}
           seen   == From(hits, search.last)
<1>1. \A p, q \in search.found : p[1] < q[1] <=> p[2] > q[2]
  BY DEF SearchInv, InOrder
<1>2. ASSUME search.at = "read", ~purged
      PROVE  search.found = {<<Place(hits, r) - search.offset, r.id>> : r \in Wanted}
  <2>1. Story(first) /\ Table(first) /\ SearchTypeOK
    BY <1>2 DEF SearchInv
  <2>2. search.offset \in Nat /\ search.limit \in Nat /\ search.last \in Int
    BY <2>1, SearchFields
  <2>3. /\ search.found = Page(seen, search.offset, search.limit)
        /\ seen = hits \/ Cardinality(seen) >= search.offset + search.limit
    BY <2>1, <1>2 DEF Story
  <2>4. Table(hits) /\ \A r \in hits : r.id \in Int
    <3>1. Table(hits)
      BY <2>1, PartOfTable DEF Hits
    <3> HIDE DEF hits
    <3>2. QED BY <3>1, IdsAreNumbers
  <2> HIDE DEF hits
  <2>5. Top(seen, hits)
    BY <2>2, <2>4 DEF Top, From
  <2> HIDE DEF seen
  <2>6. search.found = Page(hits, search.offset, search.limit)
    <3>1. search.limit \in Nat /\ search.offset \in Nat
      BY <2>2
    <3>2. Page(hits, search.offset, search.limit) = Page(seen, search.offset, search.limit)
      BY <2>3, <2>4, <2>5, <3>1, PageIsFull
    <3>3. QED BY <2>3, <3>2
  <2>7. QED BY <2>6, Zenon DEF Page
<1>3. QED BY <1>1, <1>2 DEF SearchIsASnapshot

\* The steps of the API that touch the log or the search.
LEMMA SearchSteps ==
    ASSUME [Next]_vars
    PROVE  \/ \E owner \in Owners, hit \in BOOLEAN : Log(owner, hit)
           \/ \E owner \in Owners : PurgeRows(owner)
           \/ search.at = "none" /\ \E limit \in PageSizes, offset \in Offsets : BeginSearch(limit, offset)
           \/ Batch \/ DropSearch \/ UNCHANGED searchVars
<1>1. ASSUME NEW r \in Requests, NEW answer, Ends(r, answer)
      PROVE  DropSearch \/ UNCHANGED searchVars
  BY <1>1 DEF Ends
<1>2. ASSUME NEW r \in Requests, Answer(r) \/ Refused(r) \/ Failed(r) \/ TimeLimit(r)
      PROVE  DropSearch \/ UNCHANGED searchVars
  BY <1>1, <1>2 DEF Answer, Refused, Failed, TimeLimit
<1>3. ASSUME NEW a \in Addresses, NEW r \in Requests,
             Guess(a) \/ TurnAway(r, a) \/ ArriveChange(r, a) \/ ArriveConfig(r, a)
      PROVE  UNCHANGED searchVars
  BY <1>3, Zenon DEF Guess, TurnAway, ArriveChange, ArriveConfig, Accept, searchVars
<1>4. ASSUME NEW a \in Addresses, NEW r \in Requests, ArriveSearch(r, a)
      PROVE  search.at = "none" /\ \E limit \in PageSizes, offset \in Offsets : BeginSearch(limit, offset)
  BY <1>4, Zenon DEF ArriveSearch
<1>5. ASSUME NEW r \in Requests, NEW call \in Steps \cup Kinds, Change(r, call) \/ Record(r, call)
      PROVE  UNCHANGED searchVars
  BY <1>5 DEF Change, Record
<1>6. ASSUME NEW r \in Requests, NEW name \in Names,
             Commit(r) \/ SaveBegins(r, name) \/ SaveGoesOn(r) \/ SaveEnds(r) \/ SaveRefused(r)
      PROVE  UNCHANGED searchVars
  BY <1>6 DEF Commit, SaveBegins, SaveGoesOn, SaveEnds, SaveRefused
<1>7. ASSUME NEW r \in Requests, Commit(r) \/ SaveGoesOn(r) \/ SaveEnds(r) \/ SaveRefused(r)
      PROVE  UNCHANGED searchVars
  BY <1>7 DEF Commit, SaveGoesOn, SaveEnds, SaveRefused
<1>8. ASSUME NEW r \in Requests, SearchBatch(r)
      PROVE  Batch
  BY <1>8 DEF SearchBatch
<1>9. Turn => \E owner \in Owners, hit \in BOOLEAN : Log(owner, hit)
  BY DEF Turn
<1>10. Purge => \E owner \in Owners : PurgeRows(owner)
  BY DEF Purge
<1>11. Restart => DropSearch
  BY DEF Restart
<1>12. Script \/ Clock \/ UNCHANGED vars => UNCHANGED searchVars
  BY DEF Script, Clock, vars
<1>13. ASSUME NEW a \in Addresses, Guess(a)
       PROVE  UNCHANGED searchVars
  BY <1>13 DEF Guess
<1>14. QED
  BY <1>2, <1>3, <1>4, <1>5, <1>6, <1>7, <1>8, <1>9, <1>10, <1>11, <1>12, <1>13, Zenon DEF Next

LEMMA SearchAlways == Spec => []SearchInv
<1>1. Init => SearchInv
  BY SearchStarts DEF Init
<1>2. SearchInv /\ [Next]_vars => SearchInv'
  <2>1. SUFFICES ASSUME SearchInv, [Next]_vars PROVE SearchInv'
    OBVIOUS
  <2>2. CASE UNCHANGED searchVars
    BY <2>1, <2>2 DEF searchVars, SearchInv, SearchTypeOK, InOrder, Story, Table
  <2>3. QED BY <2>1, <2>2, SearchSteps, LogKeeps, PurgeKeeps, BeginKeeps, BatchKeeps, DropKeeps
<1>3. QED BY <1>1, <1>2, PTL DEF Spec

\* For every batch size, page size and offset, and however turns and purges come between the
\* batches, a search answers its page of the log as the first batch saw it.
THEOREM SearchesAreSnapshots == Spec => []SearchIsASnapshot
<1>1. QED BY AnswerIsSnapshot, SearchAlways, PTL
----------------------------------------------------------------------------
(* The types *)

\* No address has two places in the table, and In(a, s) is that it has one.
Line(s)  == s \in Seq(Addresses) /\ \A i, j \in 1..Len(s) : s[i] = s[j] => i = j
In(a, s) == \E i \in 1..Len(s) : s[i] = a

TableInv ==
    /\ Line(tracked) /\ Len(tracked) <= MaxTracked
    /\ \A a \in Addresses : failures[a] # None <=> In(a, tracked)

LEMMA ConcatIs ==
    ASSUME NEW S, NEW a \in Seq(S), NEW b \in Seq(S), NEW c, c = a \o b
    PROVE  /\ c \in Seq(S) /\ Len(c) = Len(a) + Len(b)
           /\ \A i \in 1..Len(a) + Len(b) : c[i] = IF i <= Len(a) THEN a[i] ELSE b[i - Len(a)]
BY ConcatProperties

LEMMA RemovedFromLine ==
    ASSUME NEW s, Line(s), NEW k \in 1..Len(s)
    PROVE  /\ Line(RemoveAt(s, k)) /\ Len(RemoveAt(s, k)) = Len(s) - 1
           /\ \A a : In(a, RemoveAt(s, k)) <=> In(a, s) /\ a # s[k]
<1> DEFINE t == RemoveAt(s, k)
           u == SubSeq(s, 1, k - 1)
           v == SubSeq(s, k + 1, Len(s))
<1>1. s \in Seq(Addresses) /\ Len(s) \in Nat /\ k \in Int
      /\ \A i \in 1..Len(s) : s[i] \in Addresses
  BY LenProperties, ElementOfSeq DEF Line
<1>2. /\ u \in Seq(Addresses) /\ Len(u) = k - 1 /\ \A i \in 1..k - 1 : u[i] = s[i]
  <2>1. k - 1 \in Int /\ \A i \in 1..k - 1 : s[i] \in Addresses
    BY <1>1
  <2>2. /\ u \in Seq(Addresses) /\ Len(u) = IF 1 <= k - 1 THEN k - 1 - 1 + 1 ELSE 0
        /\ \A i \in 1..k - 1 - 1 + 1 : u[i] = s[1 + i - 1]
    BY <2>1, SubSeqProperties
  <2> HIDE DEF u
  <2>3. QED BY <2>2, <1>1
<1>3. /\ v \in Seq(Addresses) /\ Len(v) = Len(s) - k /\ \A i \in 1..Len(s) - k : v[i] = s[k + i]
  <2>1. k + 1 \in Int /\ \A i \in k + 1..Len(s) : s[i] \in Addresses
    BY <1>1
  <2>2. /\ v \in Seq(Addresses) /\ Len(v) = IF k + 1 <= Len(s) THEN Len(s) - (k + 1) + 1 ELSE 0
        /\ \A i \in 1..Len(s) - (k + 1) + 1 : v[i] = s[k + 1 + i - 1]
    BY <1>1, <2>1, SubSeqProperties
  <2> HIDE DEF v
  <2>3. Len(v) = Len(s) - k
    BY <2>2, <1>1
  <2>4. ASSUME NEW i \in 1..Len(s) - k PROVE v[i] = s[k + i]
    <3>1. i \in 1..Len(s) - (k + 1) + 1 /\ k + 1 + i - 1 = k + i
      BY <1>1
    <3>2. QED BY <2>2, <3>1
  <2>5. QED BY <2>2, <2>3, <2>4
<1>4. t = u \o v
  BY DEF RemoveAt
<1> HIDE DEF t, u, v
<1>5. /\ t \in Seq(Addresses) /\ Len(t) = Len(s) - 1
      /\ \A i \in 1..Len(s) - 1 : t[i] = IF i < k THEN s[i] ELSE s[i + 1]
  <2>1. /\ t \in Seq(Addresses) /\ Len(t) = Len(u) + Len(v)
        /\ \A i \in 1..Len(u) + Len(v) : t[i] = IF i <= Len(u) THEN u[i] ELSE v[i - Len(u)]
    <3>1. u \in Seq(Addresses) /\ v \in Seq(Addresses)
      BY <1>2, <1>3
    <3>2. QED BY <3>1, <1>4, ConcatIs
  <2>2. Len(t) = Len(s) - 1
    BY <2>1, <1>1, <1>2, <1>3
  <2>3. ASSUME NEW i \in 1..Len(s) - 1
        PROVE  t[i] = IF i < k THEN s[i] ELSE s[i + 1]
    <3>1. t[i] = IF i <= k - 1 THEN u[i] ELSE v[i - (k - 1)]
      BY <2>1, <1>1, <1>2, <1>3
    <3>2. CASE i < k
      BY <3>1, <3>2, <1>1, <1>2
    <3>3. CASE ~(i < k)
      <4>1. i - (k - 1) \in 1..Len(s) - k /\ k + (i - (k - 1)) = i + 1 /\ ~(i <= k - 1)
        BY <3>3, <1>1
      <4>2. QED BY <3>1, <3>3, <4>1, <1>3
    <3>4. QED BY <3>2, <3>3
  <2>4. QED BY <2>1, <2>2, <2>3
<1>6. \A i, j \in 1..Len(s) : s[i] = s[j] => i = j
  BY DEF Line
<1>7. ASSUME NEW i \in 1..Len(t), NEW j \in 1..Len(t), t[i] = t[j] PROVE i = j
  <2> DEFINE at(n) == IF n < k THEN n ELSE n + 1
  <2>1. at(i) \in 1..Len(s) /\ at(j) \in 1..Len(s) /\ t[i] = s[at(i)] /\ t[j] = s[at(j)]
    BY <1>1, <1>5
  <2>2. at(i) = at(j)
    BY <2>1, <1>6, <1>7
  <2>3. QED BY <2>2, <1>1, <1>5
<1>8. ASSUME NEW a PROVE In(a, t) <=> In(a, s) /\ a # s[k]
  <2>1. ASSUME NEW i \in 1..Len(t) PROVE In(t[i], s) /\ t[i] # s[k]
    <3>1. i \in Int /\ i <= Len(s) - 1 /\ 1 <= i
      BY <1>1, <1>5
    <3>2. CASE i < k
      <4>1. t[i] = s[i] /\ i \in 1..Len(s) /\ i # k
        BY <3>1, <3>2, <1>1, <1>5
      <4>2. QED BY <4>1, <1>6 DEF In
    <3>3. CASE ~(i < k)
      <4>1. t[i] = s[i + 1] /\ i + 1 \in 1..Len(s) /\ i + 1 # k
        BY <3>1, <3>3, <1>1, <1>5
      <4>2. QED BY <4>1, <1>6 DEF In
    <3>4. QED BY <3>2, <3>3
  <2>2. ASSUME NEW i \in 1..Len(s), s[i] # s[k] PROVE In(s[i], t)
    <3>1. i \in Int /\ i # k /\ i <= Len(s) /\ 1 <= i
      BY <1>1, <2>2
    <3>2. CASE i < k
      <4>1. t[i] = s[i] /\ i \in 1..Len(t)
        BY <3>1, <3>2, <1>1, <1>5
      <4>2. QED BY <4>1 DEF In
    <3>3. CASE k < i
      <4>1. i - 1 \in 1..Len(t) /\ ~(i - 1 < k) /\ i - 1 + 1 = i
        BY <3>1, <3>3, <1>1, <1>5
      <4>2. t[i - 1] = s[i]
        BY <4>1, <1>5
      <4>3. QED BY <4>1, <4>2 DEF In
    <3>4. QED BY <3>1, <3>2, <3>3, <1>1
  <2>3. QED BY <2>1, <2>2 DEF In
<1>9. QED BY <1>5, <1>7, <1>8 DEF Line, t

LEMMA AddedToLine ==
    ASSUME NEW s, Line(s), NEW b \in Addresses, ~In(b, s)
    PROVE  /\ Line(Append(s, b)) /\ Len(Append(s, b)) = Len(s) + 1
           /\ \A a : In(a, Append(s, b)) <=> In(a, s) \/ a = b
<1> DEFINE t == Append(s, b)
<1>1. /\ t \in Seq(Addresses) /\ Len(t) = Len(s) + 1 /\ Len(s) \in Nat
      /\ \A i \in 1..Len(s) : t[i] = s[i]
      /\ t[Len(s) + 1] = b
  BY AppendProperties, LenProperties DEF Line
<1> HIDE DEF t
<1>2. \A i \in 1..Len(t) : i \in 1..Len(s) \/ i = Len(s) + 1
  BY <1>1
<1>3. ASSUME NEW i \in 1..Len(t), NEW j \in 1..Len(t), t[i] = t[j] PROVE i = j
  BY <1>1, <1>2, <1>3 DEF Line, In
<1>4. ASSUME NEW a PROVE In(a, t) <=> In(a, s) \/ a = b
  BY <1>1, <1>2 DEF In
<1>5. QED BY <1>1, <1>3, <1>4 DEF Line, t

LEMMA FirstOutOfLine ==
    ASSUME NEW s, Line(s), s # <<>>
    PROVE  /\ Line(Tail(s)) /\ Len(Tail(s)) = Len(s) - 1 /\ Head(s) \in Addresses
           /\ \A a : In(a, Tail(s)) <=> In(a, s) /\ a # Head(s)
<1> DEFINE t == Tail(s)
<1>1. /\ s \in Seq(Addresses) /\ Len(s) \in Nat \ {0} /\ Head(s) = s[1] /\ Head(s) \in Addresses
      /\ t \in Seq(Addresses) /\ Len(t) = Len(s) - 1
      /\ \A i \in 1..Len(s) - 1 : t[i] = s[i + 1]
  BY HeadTailProperties, EmptySeq DEF Line
<1> HIDE DEF t
<1>2. \A i \in 1..Len(t) : i + 1 \in 1..Len(s) /\ i + 1 # 1 /\ t[i] = s[i + 1]
  BY <1>1
<1>3. \A i \in 1..Len(s) : i # 1 => i - 1 \in 1..Len(t) /\ t[i - 1] = s[i]
  BY <1>1
<1>4. ASSUME NEW i \in 1..Len(t), NEW j \in 1..Len(t), t[i] = t[j] PROVE i = j
  <2>1. i + 1 = j + 1
    BY <1>2, <1>4 DEF Line
  <2>2. QED BY <2>1, <1>1
<1>5. 1 \in 1..Len(s)
  BY <1>1
<1>6. ASSUME NEW a PROVE In(a, t) <=> In(a, s) /\ a # Head(s)
  BY <1>1, <1>2, <1>3, <1>5 DEF In, Line
<1>7. QED BY <1>1, <1>4, <1>6 DEF Line, t

\* Nothing is kept when nothing is kept in all.
LEMMA NoneIs ==
    ASSUME NEW c \in Counts, \A g, h \in Ages : g <= h => c[g] <= c[h]
    PROVE  c = None <=> c[Window + 1] = 0
<1>1. \A g \in Ages : g <= Window + 1 /\ c[g] \in Nat /\ c[g] <= c[Window + 1]
  BY AgesAre DEF Ages, Counts
<1>2. ASSUME c[Window + 1] = 0 PROVE c = None
  <2>1. \A g \in Ages : c[g] = 0
    BY <1>1, <1>2
  <2>2. QED BY <2>1 DEF Counts, None
<1>3. QED BY <1>2, AgesAre, CountsAre

\* Looking an address up: it stays in the table while it has failures that count.
LEMMA KeptIs ==
    ASSUME LimitInv, TableInv, NEW a \in Addresses
    PROVE  /\ Line(Kept(a)) /\ Len(Kept(a)) <= MaxTracked
           /\ \A b : In(b, Kept(a)) <=> In(b, tracked) /\ (b = a => failures[a][Window] # 0)
           /\ Recent(a) # None <=> failures[a][Window] # 0
           /\ failures[a][Window] # 0 => failures[a] # None
<1>1. /\ failures[a] \in Counts /\ \A g, h \in Ages : g <= h => failures[a][g] <= failures[a][h]
      /\ Line(tracked) /\ Len(tracked) \in Nat /\ Len(tracked) <= MaxTracked /\ MaxTracked \in Nat
  BY LimitAssumption, LenProperties DEF LimitInv, Accounted, TableInv, Line
<1>2. failures[a][Window] # 0 => failures[a] # None
  BY AgesAre, CountsAre
<1>3. Recent(a) # None <=> failures[a][Window] # 0
  <2>1. Recent(a) \in Counts /\ Recent(a)[Window + 1] = failures[a][Window]
        /\ \A g \in Inside : Recent(a)[g] = failures[a][g]
    BY RecentIs
  <2>2. \A g, h \in Ages : g <= h => Recent(a)[g] <= Recent(a)[h]
    <3>1. \A g \in Ages : failures[a][g] \in Nat
      BY <1>1 DEF Counts
    <3>2. \A g \in Inside : failures[a][g] <= failures[a][Window]
      BY <1>1, AgesAre
    <3>3. ASSUME NEW g \in Ages, NEW h \in Ages, g <= h PROVE Recent(a)[g] <= Recent(a)[h]
      <4>1. CASE g \in Inside /\ h \in Inside
        BY <4>1, <3>3, <2>1, <1>1
      <4>2. CASE g \in Inside /\ h = Window + 1
        BY <4>2, <3>2, <2>1
      <4>3. CASE g = Window + 1 /\ h \in Inside
        BY <4>3, <3>3, AgesAre
      <4>4. CASE g = h
        BY <4>4, <2>1 DEF Counts
      <4>5. QED BY <4>1, <4>2, <4>3, <4>4, AgesAre
    <3>4. QED BY <3>3
  <2>3. QED BY <2>1, <2>2, NoneIs
<1>4. CASE failures[a][Window] = 0 /\ In(a, tracked)
  <2> DEFINE k == CHOOSE i \in DOMAIN tracked : tracked[i] = a
  <2>1. DOMAIN tracked = 1..Len(tracked)
    BY <1>1, LenProperties DEF Line
  <2>2. k \in 1..Len(tracked) /\ tracked[k] = a
    BY <1>4, <2>1 DEF In
  <2>3. a \in ToSet(tracked)
    BY <2>1, <2>2 DEF ToSet
  <2>4. Kept(a) = RemoveAt(tracked, k)
    BY <1>4, <2>3 DEF Kept, Without
  <2> HIDE DEF k
  <2>5. /\ Line(Kept(a)) /\ Len(Kept(a)) = Len(tracked) - 1
        /\ \A b : In(b, Kept(a)) <=> In(b, tracked) /\ b # a
    BY <1>1, <2>2, <2>4, RemovedFromLine
  <2>6. QED BY <1>1, <1>2, <1>3, <1>4, <2>5
<1>5. CASE ~(failures[a][Window] = 0 /\ In(a, tracked))
  <2>1. DOMAIN tracked = 1..Len(tracked)
    BY <1>1, LenProperties DEF Line
  <2>2. a \in ToSet(tracked) <=> In(a, tracked)
    BY <2>1 DEF ToSet, In
  <2>3. Kept(a) = tracked
    BY <1>5, <2>2 DEF Kept
  <2>4. QED BY <1>1, <1>2, <1>3, <1>5, <2>3
<1>6. QED BY <1>4, <1>5

LEMMA LookUpKeepsTable ==
    ASSUME LimitInv, TableInv, NEW a \in Addresses, LookUp(a)
    PROVE  TableInv'
<1>1. failures' = [failures EXCEPT ![a] = Recent(a)] /\ tracked' = Kept(a)
      /\ failures \in [Addresses -> Counts]
  BY DEF LookUp, LimitInv
<1>2. ASSUME NEW b \in Addresses PROVE failures'[b] # None <=> In(b, tracked')
  <2>1. failures'[b] = IF b = a THEN Recent(a) ELSE failures[b]
    BY <1>1
  <2>2. failures[b] # None <=> In(b, tracked)
    BY DEF TableInv
  <2>3. QED BY <1>1, <2>1, <2>2, KeptIs
<1>3. Line(tracked') /\ Len(tracked') <= MaxTracked
  BY <1>1, KeptIs
<1>4. QED BY <1>2, <1>3 DEF TableInv, Line, In

LEMMA WrongKeyKeepsTable ==
    ASSUME LimitInv, TableInv, NEW a \in Addresses, WrongKey(a)
    PROVE  TableInv'
<1> DEFINE line  == IF failures[a][Window] = 0 THEN Append(Kept(a), a) ELSE tracked
           full  == Len(line) > MaxTracked
           after == [failures EXCEPT ![a] = More(Recent(a))]
<1>1. /\ failures' = IF full THEN [after EXCEPT ![Head(line)] = None] ELSE after
      /\ tracked' = IF full THEN Tail(line) ELSE line
  BY DEF WrongKey
<1>2. failures \in [Addresses -> Counts] /\ MaxTracked \in Nat \ {0} /\ Line(tracked)
      /\ Len(tracked) <= MaxTracked
  BY LimitAssumption DEF LimitInv, TableInv
<1>3. More(Recent(a)) # None
  <2>1. More(Recent(a))[0] = Recent(a)[0] + 1 /\ Recent(a)[0] \in Nat /\ None[0] = 0
    BY RecentIs, CountsAre, AgesAre DEF Counts
  <2>2. QED BY <2>1
<1>4. \A b \in Addresses : failures[b] # None <=> In(b, tracked)
  BY DEF TableInv
<1>5. /\ Line(line) /\ Len(line) \in Nat /\ Len(line) <= MaxTracked + 1
      /\ \A b \in Addresses : In(b, line) <=> after[b] # None
  <2>1. \A b \in Addresses : after[b] = IF b = a THEN More(Recent(a)) ELSE failures[b]
    BY <1>2
  <2>2. CASE failures[a][Window] = 0
    <3>1. /\ Line(Kept(a)) /\ Len(Kept(a)) <= MaxTracked /\ ~In(a, Kept(a))
          /\ \A b : b # a => (In(b, Kept(a)) <=> In(b, tracked))
      BY <2>2, KeptIs
    <3>2. Len(Kept(a)) \in Nat
      BY <3>1, LenProperties DEF Line
    <3>3. /\ Line(Append(Kept(a), a)) /\ Len(Append(Kept(a), a)) = Len(Kept(a)) + 1
          /\ \A b : In(b, Append(Kept(a), a)) <=> In(b, Kept(a)) \/ b = a
      BY <3>1, AddedToLine
    <3>4. line = Append(Kept(a), a)
      BY <2>2
    <3> HIDE DEF line, after
    <3>5. QED BY <1>2, <1>3, <1>4, <2>1, <3>1, <3>2, <3>3, <3>4
  <2>3. CASE failures[a][Window] # 0
    <3>1. line = tracked /\ In(a, tracked)
      BY <2>3, <1>4, KeptIs
    <3>2. Len(tracked) \in Nat
      BY <1>2, LenProperties DEF Line
    <3> HIDE DEF line, after
    <3>3. QED BY <1>2, <1>3, <1>4, <2>1, <3>1, <3>2
  <2>4. QED BY <2>2, <2>3
<1>6. after \in [Addresses -> Counts]
  BY <1>2, RecentIs, CountsAre
<1> HIDE DEF line, after
<1>7. CASE full
  <2>1. line # <<>>
    BY <1>2, <1>5, <1>7, EmptySeq
  <2>2. /\ Line(Tail(line)) /\ Len(Tail(line)) = Len(line) - 1 /\ Head(line) \in Addresses
        /\ \A b : In(b, Tail(line)) <=> In(b, line) /\ b # Head(line)
    BY <1>5, <2>1, FirstOutOfLine
  <2>3. \A b \in Addresses : failures'[b] = IF b = Head(line) THEN None ELSE after[b]
    BY <1>1, <1>6, <1>7
  <2>4. tracked' = Tail(line)
    BY <1>1, <1>7
  <2>5. \A b \in Addresses : failures'[b] # None <=> In(b, tracked')
    BY <1>5, <2>2, <2>3, <2>4
  <2>6. Line(tracked') /\ Len(tracked') <= MaxTracked
    BY <1>2, <1>5, <2>2, <2>4
  <2>7. QED BY <2>5, <2>6 DEF TableInv, Line, In
<1>8. CASE ~full
  <2>1. Len(line) <= MaxTracked
    BY <1>2, <1>5, <1>8
  <2>2. QED BY <1>1, <1>5, <1>8, <2>1 DEF TableInv, Line, In
<1>9. QED BY <1>7, <1>8

LEMMA ForgetKeepsTable ==
    ASSUME Forget
    PROVE  TableInv'
<1>1. tracked' = <<>> /\ \A a \in Addresses : failures'[a] = None
  BY DEF Forget, Nothing
<1>2. Line(<<>>) /\ Len(<<>>) = 0 /\ \A a : ~In(a, <<>>)
  BY EmptySeq DEF Line, In
<1>3. QED BY <1>1, <1>2, LimitAssumption DEF TableInv, Line, In

LEMMA TimeKeepsTable ==
    ASSUME LimitInv, TableInv, TimePasses
    PROVE  TableInv'
<1>1. failures' = [a \in Addresses |-> Older(failures[a])] /\ tracked' = tracked
  BY DEF TimePasses
<1>2. ASSUME NEW a \in Addresses PROVE failures'[a] # None <=> failures[a] # None
  <2>1. failures[a] \in Counts /\ \A g, h \in Ages : g <= h => failures[a][g] <= failures[a][h]
    BY DEF LimitInv, Accounted
  <2>2. /\ failures'[a] = Older(failures[a]) /\ failures'[a] \in Counts
        /\ failures'[a][Window + 1] = failures[a][Window + 1]
    BY <1>1, <2>1, OlderIs
  <2>3. \A g, h \in Ages : g <= h => failures'[a][g] <= failures'[a][h]
    BY TimeAccounts DEF LimitInv, Accounted
  <2>4. QED BY <2>1, <2>2, <2>3, NoneIs
<1>3. QED BY <1>1, <1>2 DEF TableInv, Line, In

LEMMA TableAlways == Spec => []TableInv
<1>1. Init => TableInv
  <2>1. SUFFICES ASSUME Init PROVE TableInv
    OBVIOUS
  <2>2. tracked = <<>> /\ \A a \in Addresses : failures[a] = None
    BY <2>1 DEF Init, LimitInit, Nothing
  <2>3. Line(<<>>) /\ Len(<<>>) = 0 /\ \A a : ~In(a, <<>>)
    BY EmptySeq DEF Line, In
  <2>4. QED BY <2>2, <2>3, LimitAssumption DEF TableInv
<1>2. LimitInv /\ TableInv /\ [Next]_vars => TableInv'
  <2>1. SUFFICES ASSUME LimitInv, TableInv, [Next]_vars PROVE TableInv'
    OBVIOUS
  <2>2. CASE UNCHANGED limitVars
    BY <2>1, <2>2 DEF limitVars, TableInv, Line, In
  <2>3. QED
    BY <2>1, <2>2, LimitSteps, LookUpKeepsTable, WrongKeyKeepsTable, ForgetKeepsTable, TimeKeepsTable
<1>3. QED BY <1>1, <1>2, LimitAlways, PTL DEF Spec

\* What is committed, and who holds the lock.
DatabaseTypeOK ==
    /\ rows \subseteq Requests \X Steps /\ events \subseteq Requests \X Every
    /\ writer \in Requests \cup {Free} /\ written \subseteq Requests
    /\ blind \in BOOLEAN /\ overlap \in BOOLEAN

LEMMA DatabaseSteps ==
    ASSUME PipeInv, DatabaseTypeOK, [Next]_vars
    PROVE  DatabaseTypeOK'
<1>1. CASE UNCHANGED vars
  BY <1>1 DEF vars, pipeVars, settingsVars, DatabaseTypeOK
<1>2. ASSUME NEW r \in Requests, NEW answer, Ends(r, answer)
      PROVE  DatabaseTypeOK'
  BY <1>2 DEF Ends, RollBack, settingsVars, DatabaseTypeOK
<1>3. ASSUME NEW r \in Requests, Answer(r) \/ Refused(r) \/ Failed(r) \/ TimeLimit(r)
      PROVE  DatabaseTypeOK'
  BY <1>2, <1>3 DEF Answer, Refused, Failed, TimeLimit
<1>4. ASSUME NEW a \in Addresses, NEW r \in Requests,
             TurnAway(r, a) \/ ArriveChange(r, a) \/ ArriveConfig(r, a) \/ ArriveSearch(r, a)
      PROVE  DatabaseTypeOK'
  <2>1. UNCHANGED <<settingsVars, rows, events, writer, written>>
    BY <1>4, Zenon DEF TurnAway, ArriveChange, ArriveConfig, ArriveSearch, Accept
  <2>2. QED BY <2>1 DEF settingsVars, DatabaseTypeOK
<1>5. ASSUME NEW a \in Addresses, Guess(a)
      PROVE  DatabaseTypeOK'
  BY <1>5 DEF Guess, pipeVars, settingsVars, DatabaseTypeOK
<1>6. ASSUME NEW r \in Requests, NEW call \in Steps \cup Kinds, Change(r, call) \/ Record(r, call)
      PROVE  DatabaseTypeOK'
  <2>1. UNCHANGED <<settingsVars, rows, events, written>> /\ writer' = r
    BY <1>6 DEF Change, Record
  <2>2. QED BY <2>1 DEF settingsVars, DatabaseTypeOK
<1>7. ASSUME NEW r \in Requests, Commit(r)
      PROVE  DatabaseTypeOK'
  <2>1. made[r] \subseteq Steps /\ noted[r] \subseteq Every
    BY DEF PipeInv, PipeTypeOK, InTransaction
  <2>2. /\ rows' = rows \cup ({r} \X made[r]) /\ events' = events \cup ({r} \X noted[r])
        /\ writer' = Free /\ UNCHANGED <<settingsVars, written>>
    BY <1>7 DEF Commit
  <2>3. QED BY <2>1, <2>2 DEF settingsVars, DatabaseTypeOK
<1>8. ASSUME NEW r \in Requests, NEW name \in Names, SaveBegins(r, name)
      PROVE  DatabaseTypeOK'
  BY <1>8 DEF SaveBegins, Begin, DatabaseTypeOK
<1>9. ASSUME NEW r \in Requests, SaveGoesOn(r) \/ SaveEnds(r) \/ SaveRefused(r)
      PROVE  DatabaseTypeOK'
  <2>1. UNCHANGED <<blind, overlap, rows, events, writer>>
    BY <1>9 DEF SaveGoesOn, SaveEnds, SaveRefused, Unfinished, ReadPrevious, EmptyBackup, WriteBackup,
                EmptyFile, Goes, WriteFile, Refuse, pipeVars
  <2>2. written' = written \/ written' = written \cup {r}
    BY <1>9 DEF SaveGoesOn, SaveEnds, SaveRefused, pipeVars
  <2>3. QED BY <2>1, <2>2 DEF DatabaseTypeOK
<1>10. ASSUME NEW r \in Requests, SearchBatch(r)
       PROVE  DatabaseTypeOK'
  BY <1>10 DEF SearchBatch, settingsVars, DatabaseTypeOK
<1>11. CASE Turn \/ Purge \/ Clock
  BY <1>11 DEF Turn, Purge, Clock, settingsVars, pipeVars, DatabaseTypeOK
<1>12. CASE Script
  <2>1. UNCHANGED <<rows, events, writer, written>>
    BY <1>12 DEF Script, pipeVars
  <2>2. CASE \E name \in Names : Begin("script", name)
    BY <2>1, <2>2 DEF Begin, DatabaseTypeOK
  <2>3. CASE Refuse("script") \/ Unfinished("script") \/ WriteFile("script") \/ CutShort("script")
    BY <2>1, <2>3 DEF Unfinished, ReadPrevious, EmptyBackup, WriteBackup, EmptyFile, Goes,
                      WriteFile, Refuse, CutShort, DatabaseTypeOK
  <2>4. QED BY <1>12, <2>2, <2>3 DEF Script
<1>13. CASE Restart
  BY <1>13 DEF Restart, CutShort, DatabaseTypeOK
<1>14. QED
  BY <1>1, <1>3, <1>4, <1>5, <1>6, <1>7, <1>8, <1>9, <1>10, <1>11, <1>12, <1>13, Zenon DEF Next

LEMMA DatabaseAlways == Spec => []DatabaseTypeOK
<1>1. Init => DatabaseTypeOK
  BY DEF Init, SettingsInit, DatabaseTypeOK
<1>2. QED BY <1>1, DatabaseSteps, PipeAlways, PTL DEF Spec

\* The types of the API, its limiter, its settings file and its search: the limiter's table has
\* no address twice and never too many, and an address is in it exactly while it has failures.
THEOREM TypesHold == Spec => []TypeOK
<1>1. LimitInv /\ TableInv => LimitTypeOK
  <2>1. SUFFICES ASSUME LimitInv, TableInv PROVE LimitTypeOK
    OBVIOUS
  <2>2. tracked \in Seq(Addresses) /\ DOMAIN tracked = 1..Len(tracked)
    BY <2>1, LenProperties DEF TableInv, Line
  <2>3. IsInjective(tracked) /\ \A a : a \in ToSet(tracked) <=> In(a, tracked)
    BY <2>1, <2>2 DEF TableInv, Line, In, IsInjective, ToSet
  <2>4. QED BY <2>1, <2>2, <2>3 DEF TableInv, LimitInv, LimitTypeOK, Counts
<1>2. FileInv /\ DatabaseTypeOK => SettingsTypeOK
  BY DEF FileInv, DatabaseTypeOK, SettingsTypeOK, Save, Stages
<1>3. SearchInv => SearchTypeOK
  BY DEF SearchInv
<1>4. PipeInv /\ DatabaseTypeOK /\ LimitTypeOK /\ SettingsTypeOK /\ SearchTypeOK => TypeOK
  BY DEF PipeInv, PipeTypeOK, Request, Places, Every, DatabaseTypeOK, TypeOK
<1>5. QED
  BY <1>1, <1>2, <1>3, <1>4, LimitAlways, TableAlways, FileAlways, DatabaseAlways, SearchAlways,
     PipeAlways, PTL
=============================================================================
