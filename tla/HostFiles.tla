------------------------------ MODULE HostFiles ------------------------------
(***************************************************************************)
(* The two files the PC program keeps for its user: the key by which the   *)
(* phones know this PC (identity/store.rs) and the settings (settings.rs), *)
(* both on Linux.  Windows and workers of one user run side by side, and   *)
(* the computer may lose its power.                                        *)
(*                                                                         *)
(* A file is a number; "text" says how a reader finds it.  The last        *)
(* element of "disk" is the directory as processes see it.  Changes of the *)
(* directory reach the disk in order, at the latest when it is synced; a   *)
(* file that has not been synced is damaged by the power loss.             *)
(***************************************************************************)
EXTENDS Integers, Sequences, FiniteSets, SequencesExt

CONSTANTS
    Procs,          \* processes of one user
    Names,          \* 0..n: the quarantine names of one second, in order
    NoFile,
    MaxFiles,       \* bound: files written
    MaxHarm         \* bound: damages, failing syncs and power losses

ASSUME HostFilesAssumption ==
    /\ MaxFiles \in Nat \ {0} /\ MaxHarm \in Nat
    /\ Names \subseteq Nat /\ NoFile \notin Nat

VARIABLES
    disk,       \* the states of the directory a power loss can leave
    text,       \* of each file: "good", "damaged", or "open" to other users
    synced,     \* the files whose contents are on the disk
    proc,       \* of each process: what it is doing
    promised,   \* keys whose creation has been reported as complete
    harm        \* how many of those there have been

fileVars == <<disk, text, synced, proc, promised, harm>>

NoProc == [step |-> "idle", own |-> NoFile, name |-> NoFile, held |-> NoFile,
           data |-> NoFile]
Live == Last(disk)
Goes(p, step) == proc' = [proc EXCEPT ![p].step = step]
Becomes(p, fields) == proc' = [proc EXCEPT ![p] = fields]
Publish(directory) == disk' = Append(disk, directory)
IsGood(file) == file # NoFile /\ text[file] = "good"
Kept(directory) == {directory.key} \union {directory.aside[n] : n \in Names}

-----------------------------------------------------------------------------
(* load_at() *)

LoadsKey(p) ==
    /\ proc[p].step = "idle" /\ Goes(p, "read")
    /\ UNCHANGED <<disk, text, synced, promised, harm>>

(* read_at(): a key that cannot be used is an error, and stays.            *)
ReadsKey(p) ==
    /\ proc[p].step \in {"read", "reread"}
    /\ Becomes(p, IF IsGood(Live.key) THEN [NoProc EXCEPT !.held = Live.key]
                  ELSE IF Live.key = NoFile /\ proc[p].step = "read"
                  THEN [NoProc EXCEPT !.step = "write key"]
                  ELSE NoProc)
    /\ UNCHANGED <<disk, text, synced, promised, harm>>

(* The temporary file, of the key or of the settings.                      *)
Writes(p) ==
    /\ proc[p].step \in {"write key", "write conf"} /\ Len(text) < MaxFiles
    /\ text' = Append(text, "good")
    /\ Becomes(p, [proc[p] EXCEPT !.own = Len(text) + 1,
                      !.step = IF @ = "write key" THEN "sync key" ELSE "sync conf"])
    /\ UNCHANGED <<disk, synced, promised, harm>>
\* Mutant: the file is published without having been synced.
SyncsFile_Skipped(p) ==
    /\ proc[p].step \in {"sync key", "sync conf"}
    /\ Goes(p, IF proc[p].step = "sync key" THEN "link" ELSE "compare")
    /\ UNCHANGED <<disk, text, synced, promised, harm>>
SyncsFile(p) ==
    /\ proc[p].step \in {"sync key", "sync conf"}
    /\ synced' = synced \union {proc[p].own}
    /\ Goes(p, IF proc[p].step = "sync key" THEN "link" ELSE "compare")
    /\ UNCHANGED <<disk, text, promised, harm>>

\* Mutant: the key is renamed into place, over one that has come in between.
Links_Renames(p) ==
    /\ proc[p].step = "link"
    /\ Publish([Live EXCEPT !.key = proc[p].own]) /\ Goes(p, "sync link")
    /\ UNCHANGED <<text, synced, promised, harm>>
(* hard_link() replaces nothing: who comes second takes the first one's.   *)
Links(p) ==
    /\ proc[p].step = "link"
    /\ IF Live.key = NoFile
       THEN Publish([Live EXCEPT !.key = proc[p].own]) /\ Goes(p, "sync link")
       ELSE Goes(p, "reread") /\ UNCHANGED disk
    /\ UNCHANGED <<text, synced, promised, harm>>

SyncsDirectory(p) ==
    /\ proc[p].step \in {"sync link", "sync aside", "sync conf link"}
    /\ disk' = <<Live>>
    /\ promised' = IF proc[p].step = "sync link" THEN promised \union {proc[p].own}
                   ELSE promised
    /\ Becomes(p, CASE proc[p].step = "sync link"  -> [NoProc EXCEPT !.held = proc[p].own]
                    [] proc[p].step = "sync aside" -> [NoProc EXCEPT !.step = "read"]
                    [] OTHER                       -> NoProc)
    /\ UNCHANGED <<text, synced, harm>>
(* Only after the quarantine is a failure of the sync ignored.             *)
SyncFails(p) ==
    /\ proc[p].step \in {"sync link", "sync aside", "sync conf link"}
    /\ harm < MaxHarm /\ harm' = harm + 1
    /\ Becomes(p, IF proc[p].step = "sync aside" THEN [NoProc EXCEPT !.step = "read"]
                  ELSE NoProc)
    /\ UNCHANGED <<disk, text, synced, promised>>

-----------------------------------------------------------------------------
(* replace_at(): the window's Replace, or replace-identity with --force.   *)

ReplacesKey(p) ==
    /\ proc[p].step = "idle" /\ Live.key # NoFile /\ Goes(p, "reserve")
    /\ UNCHANGED <<disk, text, synced, promised, harm>>

Free == {n \in Names : n \notin Live.taken}
LowestFree(n) == n \in Free /\ \A m \in Free : n <= m

\* Mutant: a name is free that no file has yet, and nothing is created there.
Reserves_ByLooking(p) ==
    /\ proc[p].step = "reserve"
    /\ \E n \in Names :
           LowestFree(n) /\ Becomes(p, [proc[p] EXCEPT !.step = "rename", !.name = n])
    /\ UNCHANGED <<disk, text, synced, promised, harm>>
(* reserve_quarantine_path(): create_new of an empty file takes the name.  *)
Reserves(p) ==
    /\ proc[p].step = "reserve"
    /\ \E n \in Names :
           /\ LowestFree(n)
           /\ Publish([Live EXCEPT !.taken = @ \union {n}])
           /\ Becomes(p, [proc[p] EXCEPT !.step = "rename", !.name = n])
    /\ UNCHANGED <<text, synced, promised, harm>>
NoNameLeft(p) ==
    /\ proc[p].step = "reserve" /\ Free = {} /\ Becomes(p, NoProc)
    /\ UNCHANGED <<disk, text, synced, promised, harm>>

(* Another recovery may have moved it already.                             *)
MovesAside(p) ==
    /\ proc[p].step = "rename"
    /\ LET name == proc[p].name IN
       IF Live.key # NoFile
       THEN /\ Publish([Live EXCEPT !.key = NoFile, !.aside[name] = Live.key,
                                    !.taken = @ \union {name}])
            /\ Goes(p, "sync aside")
       ELSE /\ Publish([Live EXCEPT !.taken = @ \ {name}])
            /\ Becomes(p, NoProc)
    /\ UNCHANGED <<text, synced, promised, harm>>

-----------------------------------------------------------------------------
(* Store::save() *)

(* Damaged settings, or ones that others can read, are not replaced.       *)
Saves(p) ==
    /\ proc[p].step = "idle"
    /\ Live.conf = NoFile \/ IsGood(Live.conf)
    /\ Becomes(p, [NoProc EXCEPT !.step = "write conf", !.data = Live.conf])
    /\ UNCHANGED <<disk, text, synced, promised, harm>>

(* read_file() once more: an unusable file is an error of its own.         *)
Compares(p) ==
    /\ proc[p].step = "compare"
    /\ IF Live.conf = proc[p].data /\ (Live.conf = NoFile \/ text[Live.conf] = "good")
       THEN Goes(p, "rename conf") ELSE Becomes(p, NoProc)
    /\ UNCHANGED <<disk, text, synced, promised, harm>>
RenamesConf(p) ==
    /\ proc[p].step = "rename conf"
    /\ Publish([Live EXCEPT !.conf = proc[p].own]) /\ Goes(p, "sync conf link")
    /\ UNCHANGED <<text, synced, promised, harm>>

-----------------------------------------------------------------------------
(* What happens to files and processes. *)

(* Written over by something else, or made readable to other users.        *)
Damages(file) ==
    /\ harm < MaxHarm /\ file # NoFile
    /\ text' \in {[text EXCEPT ![file] = state] : state \in {"damaged", "open"}}
    /\ harm' = harm + 1
    /\ UNCHANGED <<disk, synced, proc, promised>>
Killed(p) ==
    /\ proc[p] # NoProc /\ Becomes(p, NoProc)
    /\ UNCHANGED <<disk, text, synced, promised, harm>>
PowerLoss ==
    /\ harm < MaxHarm /\ harm' = harm + 1
    /\ \E i \in DOMAIN disk : disk' = <<disk[i]>>
    /\ text' = [file \in DOMAIN text |->
                   IF file \in synced THEN text[file] ELSE "damaged"]
    /\ synced' = DOMAIN text
    /\ proc' = [p \in Procs |-> NoProc]
    /\ UNCHANGED promised

FilesInit ==
    /\ disk = <<[key |-> NoFile, conf |-> NoFile, taken |-> {},
                 aside |-> [n \in Names |-> NoFile]]>>
    /\ text = <<>> /\ synced = {} /\ promised = {} /\ harm = 0
    /\ proc = [p \in Procs |-> NoProc]
Process(p) ==
    \/ LoadsKey(p) \/ ReadsKey(p) \/ Writes(p) \/ SyncsFile(p) \/ Links(p)
    \/ SyncsDirectory(p) \/ SyncFails(p) \/ ReplacesKey(p) \/ Reserves(p)
    \/ NoNameLeft(p) \/ MovesAside(p) \/ Saves(p) \/ Compares(p) \/ RenamesConf(p)
    \/ Killed(p)
FilesNext == \/ \E p \in Procs : Process(p)
             \/ Damages(Live.key) \/ Damages(Live.conf) \/ PowerLoss

FilesSpec == FilesInit /\ [][FilesNext]_fileVars

-----------------------------------------------------------------------------
(* Properties *)

(* A key that a phone may have approved is where the program looks for it, *)
(* or aside under a name of its own: whoever else starts or replaces keys, *)
(* and after a power loss too once its creation had been completed.  And   *)
(* no power loss leaves a file cut short under a name that is read.        *)
FilesSurvive ==
    /\ \A p \in Procs : proc[p].held # NoFile => proc[p].held \in Kept(Live)
    /\ \A i \in DOMAIN disk :
           /\ promised \subseteq Kept(disk[i])
           /\ {disk[i].conf} \union Kept(disk[i]) \subseteq synced \union {NoFile}
==============================================================================
