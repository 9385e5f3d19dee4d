---------------------------- MODULE SettingsFile ----------------------------
(***************************************************************************)
(* The settings file and its backup, .env and .env.bak, as                 *)
(* app/settings_rules.py writes them: for the route PATCH /config inside   *)
(* the application, and for ./start.sh --set in a process of its own.      *)
(* Nothing locks the file, and a process can end between two of its        *)
(* writes.                                                                 *)
(*                                                                         *)
(* A file is the set of the variables it gives a value; which value does   *)
(* not matter here.                                                        *)
(***************************************************************************)
EXTENDS Integers

CONSTANTS
    Names,       \* the variables of .env.example
    SecretKey    \* ENCRYPTION_KEY

ASSUME SettingsAssumption == SecretKey \in Names

Savers == {"api", "script"}

VARIABLES
    env,      \* .env
    bak,      \* .env.bak
    save,     \* the save each process is in
    \* history
    blind,    \* a save has begun from a file that had lost the key
    overlap   \* two saves have been under way at once

settingsVars == <<env, bak, save, blind, overlap>>

File   == SUBSET Names
NoSave == [at |-> "none", name |-> SecretKey, lines |-> {}, previous |-> {}]

SettingsTypeOK ==
    /\ env \in File /\ bak \in File
    /\ save \in [Savers -> [at : {"none", "read", "held", "emptied", "backed", "cleared"},
                            name : Names, lines : File, previous : File]]
    /\ blind \in BOOLEAN /\ overlap \in BOOLEAN

SettingsInit ==
    /\ env = {SecretKey} /\ bak = {}
    /\ save = [s \in Savers |-> NoSave]
    /\ blind = FALSE /\ overlap = FALSE

Saving(s) == save[s].at # "none"

\* set_config: the lines of the file, before any check.
Begin(s, name) ==
    /\ ~Saving(s)
    /\ save' = [save EXCEPT ![s] = [NoSave EXCEPT !.at = "read", !.name = name, !.lines = env]]
    /\ blind' = (blind \/ SecretKey \notin env)
    /\ overlap' = (overlap \/ \E other \in Savers \ {s} : Saving(other))
    /\ UNCHANGED <<env, bak>>

\* The key is never replaced, and only the script puts a first one in an empty place. A value
\* that breaks a rule is refused too.
Protected(s) == save[s].name = SecretKey /\ (SecretKey \in save[s].lines \/ s = "api")
Refuse(s) ==
    /\ save[s].at = "read"
    /\ save' = [save EXCEPT ![s] = NoSave]
    /\ UNCHANGED <<env, bak, blind, overlap>>

\* The steps of a save: the file once more, the backup emptied and written, the file emptied
\* and written.
Goes(s, from, to) ==
    /\ save[s].at = from
    /\ save' = [save EXCEPT ![s].at = to]
    /\ UNCHANGED <<blind, overlap>>

ReadPrevious(s) ==
    /\ save[s].at = "read" /\ ~Protected(s)
    /\ save' = [save EXCEPT ![s] = [@ EXCEPT !.at = "held", !.previous = env]]
    /\ UNCHANGED <<env, bak, blind, overlap>>
EmptyBackup(s) == Goes(s, "held", "emptied")   /\ bak' = {} /\ UNCHANGED env
WriteBackup(s) == Goes(s, "emptied", "backed") /\ bak' = save[s].previous /\ UNCHANGED env
BugEmptyFile(s) == Goes(s, "held", "cleared") /\ env' = {} /\ UNCHANGED bak
EmptyFile(s)   == Goes(s, "backed", "cleared") /\ env' = {} /\ UNCHANGED bak
WriteFile(s) ==
    /\ save[s].at = "cleared"
    /\ env' = save[s].lines \cup {save[s].name}
    /\ save' = [save EXCEPT ![s] = NoSave]
    /\ UNCHANGED <<bak, blind, overlap>>

Unfinished(s) == ReadPrevious(s) \/ EmptyBackup(s) \/ WriteBackup(s) \/ EmptyFile(s)

\* The process of a save ends.
CutShort(s) ==
    /\ save' = [save EXCEPT ![s] = NoSave]
    /\ UNCHANGED <<env, bak, blind, overlap>>

----------------------------------------------------------------------------
\* Whenever a save is cut short, the encryption key, without which nothing stored can be read,
\* is in the file or in its backup: unless two saves have met, or a save was begun from a file
\* that the one before it had left empty.
KeyIsKept == ~blind /\ ~overlap => SecretKey \in env \cup bak
=============================================================================
