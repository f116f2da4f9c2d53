-------------------------- MODULE HostFilesProofs --------------------------
(***************************************************************************)
(* Theorems about HostFiles, for every number of processes, quarantine     *)
(* names, files and power losses: keys are not lost and no file that is    *)
(* read has been cut short.                                                *)
(***************************************************************************)
EXTENDS HostFiles, TLAPS

-----------------------------------------------------------------------------
(* The invariant. *)

Files == Nat \union {NoFile}
Texts == {"good", "damaged", "open"}
Directories == [key : Files, conf : Files, taken : SUBSET Names, aside : [Names -> Files]]
Steps == {"idle", "read", "reread", "write key", "sync key", "link", "sync link", "reserve",
          "rename", "sync aside", "write conf", "sync conf", "compare", "rename conf",
          "sync conf link"}
Activities == [step : Steps, own : Files, name : Names \union {NoFile}, held : Files,
               data : Files]

FilesTypeOK ==
    /\ disk \in Seq(Directories) /\ disk # <<>>
    /\ text \in Seq(Texts) /\ synced \subseteq 1..Len(text)
    /\ proc \in [Procs -> Activities]
    /\ promised \subseteq Nat /\ harm \in Nat

Keys(d) == Kept(d) \ {NoFile}

(* Any state of the directory that a power loss can leave has the promised *)
(* keys, names no file that is not on the disk, and has nothing aside      *)
(* under a name that is free.                                              *)
DirectoryOK(d, stored, made) ==
    /\ made \subseteq Keys(d)
    /\ {d.conf} \union Kept(d) \subseteq stored \union {NoFile}
    /\ \A n \in Names : n \notin d.taken => d.aside[n] = NoFile

(* What a process is about to publish is on the disk, what it is about to  *)
(* promise is published, and the name it has reserved has nothing under it.*)
ActivityOK(a, d, stored, count) ==
    /\ a.held # NoFile => a.held \in Keys(d)
    /\ a.step \in {"sync key", "sync conf"} => a.own \in 1..count
    /\ a.step \in {"link", "sync link", "compare", "rename conf"} => a.own \in stored
    /\ a.step = "sync link" => a.own \in Keys(d)
    /\ a.step = "rename" =>
           a.name \in Names /\ a.name \in d.taken /\ d.aside[a.name] = NoFile

(* Nobody else has reserved it.                                            *)
DistinctNames ==
    \A p, q \in Procs :
        p # q /\ proc[p].step = "rename" /\ proc[q].step = "rename"
        => proc[p].name # proc[q].name

FilesInv ==
    /\ FilesTypeOK /\ DistinctNames
    /\ \A i \in DOMAIN disk : DirectoryOK(disk[i], synced, promised)
    /\ \A p \in Procs : ActivityOK(proc[p], Live, synced, Len(text))

-----------------------------------------------------------------------------
(* The directory. *)

LEMMA LiveIsOne ==
    ASSUME FilesInv
    PROVE  /\ Len(disk) \in DOMAIN disk /\ Live = disk[Len(disk)] /\ Live \in Directories
           /\ DirectoryOK(Live, synced, promised)
BY DEF FilesInv, FilesTypeOK, Live, Last

(* What a change of the directory leaves to a power loss.                  *)
LEMMA Published ==
    ASSUME FilesInv, NEW d \in Directories, Publish(d)
    PROVE  /\ disk' \in Seq(Directories) /\ disk' # <<>> /\ Live' = d
           /\ \A i \in DOMAIN disk' : disk'[i] = d \/ \E j \in DOMAIN disk : disk'[i] = disk[j]
<1>1. disk \in Seq(Directories) /\ disk' = Append(disk, d)
  BY DEF FilesInv, FilesTypeOK, Publish
<1>2. /\ disk' \in Seq(Directories) /\ disk' # <<>> /\ Len(disk') = Len(disk) + 1
      /\ disk'[Len(disk) + 1] = d /\ \A i \in 1..Len(disk) : disk'[i] = disk[i]
  BY <1>1
<1>3. Live' = d
  BY <1>2 DEF Live, Last
<1>4. DOMAIN disk = 1..Len(disk) /\ DOMAIN disk' = 1..Len(disk')
  BY <1>1, <1>2
<1>5. \A i \in 1..Len(disk') : i = Len(disk) + 1 \/ i \in 1..Len(disk)
  BY <1>1, <1>2
<1> QED
  BY <1>2, <1>3, <1>4, <1>5

(* hard_link() of a file on the disk into an empty place.                  *)
LEMMA LinkedKey ==
    ASSUME NEW d \in Directories, NEW file \in Files, file # NoFile, d.key = NoFile,
           NEW stored, NEW made, DirectoryOK(d, stored, made), file \in stored
    PROVE  LET e == [d EXCEPT !.key = file] IN
           /\ e \in Directories /\ DirectoryOK(e, stored, made)
           /\ Keys(d) \subseteq Keys(e) /\ file \in Keys(e)
           /\ e.taken = d.taken /\ e.aside = d.aside
<1> DEFINE e == [d EXCEPT !.key = file]
<1>1. /\ e \in Directories /\ e.key = file /\ e.taken = d.taken /\ e.aside = d.aside
      /\ e.conf = d.conf
  BY DEF Directories
<1> HIDE DEF e
<1>2. Keys(d) \subseteq Keys(e) /\ file \in Keys(e)
  BY <1>1 DEF Keys, Kept
<1>3. DirectoryOK(e, stored, made)
  BY <1>1, <1>2 DEF DirectoryOK, Keys, Kept
<1> QED
  BY <1>1, <1>2, <1>3 DEF e

(* rename() of the key onto the name that has been reserved for it.        *)
LEMMA MovedKey ==
    ASSUME NEW d \in Directories, d.key # NoFile, NEW name \in Names, d.aside[name] = NoFile,
           NEW stored, NEW made, DirectoryOK(d, stored, made)
    PROVE  LET e == [d EXCEPT !.key = NoFile, !.aside[name] = d.key,
                              !.taken = @ \union {name}] IN
           /\ e \in Directories /\ DirectoryOK(e, stored, made)
           /\ Keys(d) \subseteq Keys(e) /\ d.taken \subseteq e.taken
           /\ \A n \in Names : n # name => e.aside[n] = d.aside[n]
<1> DEFINE e == [d EXCEPT !.key = NoFile, !.aside[name] = d.key, !.taken = @ \union {name}]
<1>1. d.aside \in [Names -> Files] /\ d.key \in Files /\ d.taken \subseteq Names
  BY DEF Directories
<1>2. /\ e.key = NoFile /\ e.conf = d.conf /\ e.taken = d.taken \union {name}
      /\ e.aside = [d.aside EXCEPT ![name] = d.key] /\ e \in Directories
  BY <1>1 DEF Directories, Files
<1> HIDE DEF e
<1>3. e.aside[name] = d.key /\ \A n \in Names : n # name => e.aside[n] = d.aside[n]
  BY <1>1, <1>2
<1>4. Keys(d) \subseteq Keys(e)
  <2>1. SUFFICES ASSUME NEW k \in Keys(d) PROVE k \in Keys(e)
    OBVIOUS
  <2>2. k # NoFile /\ (k = d.key \/ \E n \in Names : k = d.aside[n])
    BY <2>1 DEF Keys, Kept
  <2>3. \E n \in Names : k = e.aside[n]
    BY <2>2, <1>3
  <2> QED
    BY <2>2, <2>3 DEF Keys, Kept
<1>5. Kept(e) \subseteq Kept(d) \union {NoFile}
  <2>1. SUFFICES ASSUME NEW n \in Names PROVE e.aside[n] \in Kept(d)
    BY <1>2 DEF Kept
  <2> QED
    BY <1>3 DEF Kept
<1>6. \A n \in Names : n \notin e.taken => e.aside[n] = NoFile
  BY <1>2, <1>3 DEF DirectoryOK
<1>7. DirectoryOK(e, stored, made)
  BY <1>2, <1>4, <1>5, <1>6 DEF DirectoryOK
<1> QED
  BY <1>2, <1>3, <1>4, <1>7 DEF e

(* Taking or giving back a name with nothing under it.                     *)
LEMMA OtherNames ==
    ASSUME NEW d \in Directories, NEW names \in SUBSET Names,
           \A n \in Names \ names : d.aside[n] = NoFile,
           NEW stored, NEW made, DirectoryOK(d, stored, made)
    PROVE  LET e == [d EXCEPT !.taken = names] IN
           /\ e \in Directories /\ DirectoryOK(e, stored, made)
           /\ Keys(e) = Keys(d) /\ e.aside = d.aside /\ e.taken = names
<1> DEFINE e == [d EXCEPT !.taken = names]
<1>1. /\ e \in Directories /\ e.key = d.key /\ e.conf = d.conf /\ e.taken = names
      /\ e.aside = d.aside
  BY DEF Directories
<1> HIDE DEF e
<1>2. Kept(e) = Kept(d) /\ Keys(e) = Keys(d)
  BY <1>1 DEF Keys, Kept
<1>3. DirectoryOK(e, stored, made)
  BY <1>1, <1>2 DEF DirectoryOK
<1> QED
  BY <1>1, <1>2, <1>3 DEF e

(* rename() of the settings, of a file on the disk.                        *)
LEMMA RenamedConf ==
    ASSUME NEW d \in Directories, NEW file \in Files,
           NEW stored, NEW made, DirectoryOK(d, stored, made), file \in stored
    PROVE  LET e == [d EXCEPT !.conf = file] IN
           /\ e \in Directories /\ DirectoryOK(e, stored, made)
           /\ Keys(e) = Keys(d) /\ e.taken = d.taken /\ e.aside = d.aside
<1> DEFINE e == [d EXCEPT !.conf = file]
<1>1. /\ e \in Directories /\ e.key = d.key /\ e.conf = file /\ e.taken = d.taken
      /\ e.aside = d.aside
  BY DEF Directories
<1> HIDE DEF e
<1>2. Kept(e) = Kept(d) /\ Keys(e) = Keys(d)
  BY <1>1 DEF Keys, Kept
<1>3. DirectoryOK(e, stored, made)
  BY <1>1, <1>2 DEF DirectoryOK
<1> QED
  BY <1>1, <1>2, <1>3 DEF e

-----------------------------------------------------------------------------
(* A step of one process. *)

(* Process p turns to a, and leaves to the others what they rely on.       *)
LEMMA OneProcessMoves ==
    ASSUME FilesInv, NEW p \in Procs, NEW a \in Activities,
           Becomes(p, a),
           disk' \in Seq(Directories), disk' # <<>>,
           text' \in Seq(Texts), Len(text) <= Len(text'),
           synced \subseteq synced', synced' \subseteq 1..Len(text'),
           promised' \subseteq Nat, harm' \in Nat,
           \A i \in DOMAIN disk' : DirectoryOK(disk'[i], synced', promised'),
           Keys(Live) \subseteq Keys(Live'),
           ActivityOK(a, Live', synced', Len(text')),
           \A q \in Procs : q # p /\ proc[q].step = "rename" =>
               /\ proc[q].name \in Live'.taken /\ Live'.aside[proc[q].name] = NoFile
               /\ a.step = "rename" => a.name # proc[q].name
    PROVE  FilesInv'
<1>1. /\ proc \in [Procs -> Activities] /\ proc' \in [Procs -> Activities]
      /\ proc'[p] = a /\ \A q \in Procs : q # p => proc'[q] = proc[q]
  BY DEF FilesInv, FilesTypeOK, Becomes
<1>2. FilesTypeOK'
  BY <1>1 DEF FilesTypeOK
<1>3. DistinctNames'
  BY <1>1 DEF FilesInv, DistinctNames
<1>4. ASSUME NEW q \in Procs
      PROVE  ActivityOK(proc'[q], Live', synced', Len(text'))
  <2>1. CASE q = p
    BY <1>1, <2>1
  <2>2. CASE q # p
    <3>1. ActivityOK(proc[q], Live, synced, Len(text)) /\ proc'[q] = proc[q]
      BY <1>1, <2>2 DEF FilesInv
    <3>2. 1..Len(text) \subseteq 1..Len(text')
      BY DEF FilesInv, FilesTypeOK
    <3>3. proc[q].step = "rename" => /\ proc[q].name \in Live'.taken
                                     /\ Live'.aside[proc[q].name] = NoFile
      BY <2>2
    <3> QED
      BY <3>1, <3>2, <3>3 DEF ActivityOK
  <2> QED
    BY <2>1, <2>2
<1> QED
  BY <1>2, <1>3, <1>4 DEF FilesInv

(* It changes nothing but itself, and reserves nothing.                    *)
LEMMA OnlyProcessMoves ==
    ASSUME FilesInv, NEW p \in Procs, NEW a \in Activities,
           Becomes(p, a), a.step # "rename",
           UNCHANGED <<disk, text, synced, promised>>, harm' \in Nat,
           ActivityOK(a, Live, synced, Len(text))
    PROVE  FilesInv'
<1>1. Live' = Live
  BY DEF Live
<1>2. /\ disk' \in Seq(Directories) /\ disk' # <<>> /\ text' \in Seq(Texts)
      /\ Len(text) <= Len(text') /\ synced' \subseteq 1..Len(text') /\ promised' \subseteq Nat
      /\ \A i \in DOMAIN disk' : DirectoryOK(disk'[i], synced', promised')
  BY DEF FilesInv, FilesTypeOK
<1>3. \A q \in Procs : proc[q].step = "rename" =>
          proc[q].name \in Live'.taken /\ Live'.aside[proc[q].name] = NoFile
  BY <1>1 DEF FilesInv, ActivityOK
<1>4. ActivityOK(a, Live', synced', Len(text'))
  BY <1>1
<1> QED
  BY <1>1, <1>2, <1>3, <1>4, OneProcessMoves

(* It publishes a directory in which no key is missing.                    *)
LEMMA ProcessPublishes ==
    ASSUME FilesInv, NEW p \in Procs, NEW a \in Activities, NEW d \in Directories,
           Becomes(p, a), Publish(d), UNCHANGED <<text, synced, promised, harm>>,
           DirectoryOK(d, synced, promised), Keys(Live) \subseteq Keys(d),
           ActivityOK(a, d, synced, Len(text)),
           \A q \in Procs : q # p /\ proc[q].step = "rename" =>
               /\ proc[q].name \in d.taken /\ d.aside[proc[q].name] = NoFile
               /\ a.step = "rename" => a.name # proc[q].name
    PROVE  FilesInv'
<1>1. /\ disk' \in Seq(Directories) /\ disk' # <<>> /\ Live' = d
      /\ \A i \in DOMAIN disk' : disk'[i] = d \/ \E j \in DOMAIN disk : disk'[i] = disk[j]
  BY Published
<1>2. \A i \in DOMAIN disk' : DirectoryOK(disk'[i], synced', promised')
  <2>1. SUFFICES ASSUME NEW i \in DOMAIN disk' PROVE DirectoryOK(disk'[i], synced, promised)
    OBVIOUS
  <2>2. CASE disk'[i] = d
    BY <2>2
  <2>3. CASE \E j \in DOMAIN disk : disk'[i] = disk[j]
    BY <2>3 DEF FilesInv
  <2> QED
    BY <1>1, <2>2, <2>3
<1>3. /\ text' \in Seq(Texts) /\ Len(text) <= Len(text')
      /\ synced \subseteq synced' /\ synced' \subseteq 1..Len(text')
      /\ promised' \subseteq Nat /\ harm' \in Nat
  BY DEF FilesInv, FilesTypeOK
<1>4. ActivityOK(a, Live', synced', Len(text')) /\ Keys(Live) \subseteq Keys(Live')
  BY <1>1
<1>5. \A q \in Procs : q # p /\ proc[q].step = "rename" =>
          /\ proc[q].name \in Live'.taken /\ Live'.aside[proc[q].name] = NoFile
          /\ a.step = "rename" => a.name # proc[q].name
  BY <1>1
<1> QED
  BY <1>1, <1>2, <1>3, <1>4, <1>5, OneProcessMoves

(* What a process is, and what is reserved.                                *)
LEMMA ActivityOf ==
    ASSUME FilesInv, NEW p \in Procs
    PROVE  /\ proc[p] \in Activities /\ ActivityOK(proc[p], Live, synced, Len(text))
           /\ NoProc \in Activities /\ ActivityOK(NoProc, Live, synced, Len(text))
           /\ \A s \in Steps : /\ [proc[p] EXCEPT !.step = s] \in Activities
                               /\ Goes(p, s) => Becomes(p, [proc[p] EXCEPT !.step = s])
<1>1. proc[p] \in Activities /\ ActivityOK(proc[p], Live, synced, Len(text))
  BY DEF FilesInv, FilesTypeOK
<1>2. NoProc \in Activities /\ ActivityOK(NoProc, Live, synced, Len(text))
  BY DEF NoProc, Activities, Steps, Files, ActivityOK
<1>3. ASSUME NEW s \in Steps
      PROVE  /\ [proc[p] EXCEPT !.step = s] \in Activities
             /\ Goes(p, s) => Becomes(p, [proc[p] EXCEPT !.step = s])
  BY <1>1 DEF Activities, Goes, Becomes
<1> QED
  BY <1>1, <1>2, <1>3

-----------------------------------------------------------------------------
(* Every action keeps the invariant. *)

LEMMA ReadsAndWaits ==
    ASSUME FilesInv, NEW p \in Procs,
           \/ LoadsKey(p) \/ ReadsKey(p) \/ ReplacesKey(p) \/ NoNameLeft(p) \/ Saves(p)
           \/ Compares(p) \/ Killed(p)
    PROVE  FilesInv'
<1>1. /\ proc[p] \in Activities /\ ActivityOK(proc[p], Live, synced, Len(text))
      /\ NoProc \in Activities /\ ActivityOK(NoProc, Live, synced, Len(text))
      /\ Live \in Directories /\ harm \in Nat
      /\ DirectoryOK(Live, synced, promised)
  BY ActivityOf, LiveIsOne DEF FilesInv, FilesTypeOK
<1>2. UNCHANGED <<disk, text, synced, promised>> /\ harm' \in Nat
  BY <1>1 DEF LoadsKey, ReadsKey, ReplacesKey, NoNameLeft, Saves, Compares, Killed
<1>3. SUFFICES \E a \in Activities : /\ Becomes(p, a) /\ a.step # "rename"
                                     /\ ActivityOK(a, Live, synced, Len(text))
  BY <1>2, OnlyProcessMoves
<1>4. ASSUME NEW s \in {"read", "reserve"}, Goes(p, s)
      PROVE  \E a \in Activities : /\ Becomes(p, a) /\ a.step # "rename"
                                   /\ ActivityOK(a, Live, synced, Len(text))
  <2> DEFINE a == [proc[p] EXCEPT !.step = s]
  <2>1. a \in Activities /\ Becomes(p, a)
    BY <1>4, ActivityOf DEF Steps
  <2>2. a.step # "rename" /\ ActivityOK(a, Live, synced, Len(text))
    BY <1>1 DEF ActivityOK, Activities
  <2> QED
    BY <2>1, <2>2
<1>5. CASE LoadsKey(p) \/ ReplacesKey(p)
  BY <1>4, <1>5 DEF LoadsKey, ReplacesKey
<1>6. CASE ReadsKey(p)
  <2>1. CASE IsGood(Live.key)
    <3> DEFINE a == [NoProc EXCEPT !.held = Live.key]
    <3>1. Becomes(p, a)
      BY <1>6, <2>1 DEF ReadsKey
    <3>2. a \in Activities /\ a.step # "rename" /\ ActivityOK(a, Live, synced, Len(text))
      BY <1>1, <2>1 DEF NoProc, Activities, Steps, Files, Directories, ActivityOK, Keys, Kept,
         IsGood
    <3> QED
      BY <3>1, <3>2
  <2>2. CASE Becomes(p, [NoProc EXCEPT !.step = "write key"])
    <3>1. /\ [NoProc EXCEPT !.step = "write key"] \in Activities
          /\ ActivityOK([NoProc EXCEPT !.step = "write key"], Live, synced, Len(text))
      BY DEF NoProc, Activities, Steps, Files, ActivityOK
    <3> QED
      BY <2>2, <3>1 DEF NoProc
  <2>3. CASE Becomes(p, NoProc)
    BY <1>1, <2>3 DEF NoProc
  <2> QED
    BY <1>6, <2>1, <2>2, <2>3 DEF ReadsKey
<1>7. CASE NoNameLeft(p) \/ Killed(p)
  BY <1>1, <1>7 DEF NoNameLeft, Killed, NoProc
<1>8. CASE Saves(p)
  <2> DEFINE a == [NoProc EXCEPT !.step = "write conf", !.data = Live.conf]
  <2>1. Becomes(p, a)
    BY <1>8 DEF Saves
  <2>2. a \in Activities /\ a.step # "rename" /\ ActivityOK(a, Live, synced, Len(text))
    BY <1>1 DEF NoProc, Activities, Steps, Files, Directories, ActivityOK
  <2> QED
    BY <2>1, <2>2
<1>9. CASE Compares(p)
  <2>1. CASE Goes(p, "rename conf")
    <3> DEFINE a == [proc[p] EXCEPT !.step = "rename conf"]
    <3>1. a \in Activities /\ Becomes(p, a)
      BY <2>1, ActivityOf DEF Steps
    <3>2. proc[p].step = "compare"
      BY <1>9 DEF Compares
    <3>3. a.step # "rename" /\ ActivityOK(a, Live, synced, Len(text))
      BY <1>1, <3>2 DEF ActivityOK, Activities
    <3> QED
      BY <3>1, <3>3
  <2>2. CASE Becomes(p, NoProc)
    BY <1>1, <2>2 DEF NoProc
  <2> QED
    BY <1>9, <2>1, <2>2 DEF Compares
<1> QED
  BY <1>5, <1>6, <1>7, <1>8, <1>9

LEMMA WritesAndSyncs ==
    ASSUME FilesInv, NEW p \in Procs, Writes(p) \/ SyncsFile(p)
    PROVE  FilesInv'
<1>1. /\ proc[p] \in Activities /\ ActivityOK(proc[p], Live, synced, Len(text))
      /\ disk \in Seq(Directories) /\ disk # <<>> /\ text \in Seq(Texts)
      /\ synced \subseteq 1..Len(text) /\ promised \subseteq Nat /\ harm \in Nat
      /\ \A i \in DOMAIN disk : DirectoryOK(disk[i], synced, promised)
  BY ActivityOf DEF FilesInv, FilesTypeOK
<1>2. \A q \in Procs : proc[q].step = "rename" =>
          proc[q].name \in Live.taken /\ Live.aside[proc[q].name] = NoFile
  BY DEF FilesInv, ActivityOK
<1>3. CASE Writes(p)
  <2> DEFINE s == IF proc[p].step = "write key" THEN "sync key" ELSE "sync conf"
             a == [proc[p] EXCEPT !.own = Len(text) + 1, !.step = s]
  <2>1. /\ Becomes(p, a) /\ text' = Append(text, "good")
        /\ UNCHANGED <<disk, synced, promised, harm>>
    BY <1>3 DEF Writes
  <2>2. text' \in Seq(Texts) /\ Len(text') = Len(text) + 1 /\ Len(text) \in Nat
    BY <1>1, <2>1 DEF Texts
  <2>3. /\ a \in Activities /\ a.step \in {"sync key", "sync conf"}
        /\ a.own = Len(text) + 1 /\ a.held = proc[p].held
    <3>1. s \in {"sync key", "sync conf"} /\ s \in Steps /\ Len(text) + 1 \in Files
      BY <2>2 DEF Steps, Files
    <3> HIDE DEF s
    <3> QED
      BY <1>1, <3>1 DEF Activities
  <2> HIDE DEF s, a
  <2>4. Live' = Live
    BY <2>1 DEF Live
  <2>5. ActivityOK(a, Live', synced', Len(text'))
    <3>1. Len(text) + 1 \in 1..Len(text')
      BY <2>2
    <3>2. a.held # NoFile => a.held \in Keys(Live')
      BY <1>1, <2>3, <2>4 DEF ActivityOK
    <3> QED
      BY <2>3, <3>1, <3>2 DEF ActivityOK
  <2>6. Len(text) <= Len(text') /\ synced' \subseteq 1..Len(text') /\ synced \subseteq synced'
    BY <1>1, <2>1, <2>2
  <2>7. \A i \in DOMAIN disk' : DirectoryOK(disk'[i], synced', promised')
    BY <1>1, <2>1
  <2>8. \A q \in Procs : q # p /\ proc[q].step = "rename" =>
            /\ proc[q].name \in Live'.taken /\ Live'.aside[proc[q].name] = NoFile
            /\ a.step = "rename" => a.name # proc[q].name
    BY <1>2, <2>3, <2>4
  <2>9. /\ disk' \in Seq(Directories) /\ disk' # <<>> /\ promised' \subseteq Nat /\ harm' \in Nat
        /\ Keys(Live) \subseteq Keys(Live')
    BY <1>1, <2>1, <2>4
  <2> QED
    BY <2>1, <2>2, <2>3, <2>5, <2>6, <2>7, <2>8, <2>9, OneProcessMoves
<1>4. CASE SyncsFile(p)
  <2> DEFINE s == IF proc[p].step = "sync key" THEN "link" ELSE "compare"
  <2> DEFINE a == [proc[p] EXCEPT !.step = s]
  <2>1. /\ Goes(p, s) /\ proc[p].step \in {"sync key", "sync conf"}
        /\ synced' = synced \union {proc[p].own}
        /\ UNCHANGED <<disk, text, promised, harm>>
    BY <1>4 DEF SyncsFile
  <2>2. s \in Steps
    BY DEF Steps
  <2>3. a \in Activities /\ Becomes(p, a)
    BY <2>1, <2>2, ActivityOf
  <2>4. a.step \in {"link", "compare"} /\ a.own = proc[p].own /\ a.held = proc[p].held
    BY <1>1 DEF Activities
  <2> HIDE DEF s, a
  <2>5. Live' = Live
    BY <2>1 DEF Live
  <2>6. proc[p].own \in 1..Len(text)
    BY <1>1, <2>1 DEF ActivityOK
  <2>7. ActivityOK(a, Live', synced', Len(text'))
    BY <1>1, <2>1, <2>4, <2>5 DEF ActivityOK
  <2>8. Len(text) <= Len(text') /\ synced' \subseteq 1..Len(text') /\ synced \subseteq synced'
    <3>1. Len(text') = Len(text)
      BY <2>1
    <3>2. Len(text) \in Nat /\ synced \subseteq 1..Len(text)
      BY DEF FilesInv, FilesTypeOK
    <3>3. synced' = synced \union {proc[p].own}
      BY <2>1
    <3>4. synced' \subseteq 1..Len(text)
      BY <2>6, <3>2, <3>3
    <3> QED
      BY <3>1, <3>2, <3>3, <3>4
  <2>9. \A i \in DOMAIN disk' : DirectoryOK(disk'[i], synced', promised')
    BY <1>1, <2>1 DEF DirectoryOK
  <2>10. \A q \in Procs : q # p /\ proc[q].step = "rename" =>
            /\ proc[q].name \in Live'.taken /\ Live'.aside[proc[q].name] = NoFile
            /\ a.step = "rename" => a.name # proc[q].name
    BY <1>2, <2>4, <2>5
  <2>11. /\ disk' \in Seq(Directories) /\ disk' # <<>> /\ promised' \subseteq Nat
         /\ text' \in Seq(Texts) /\ harm' \in Nat /\ Keys(Live) \subseteq Keys(Live')
    BY <1>1, <2>1, <2>5
  <2> QED
    BY <2>3, <2>7, <2>8, <2>9, <2>10, <2>11, OneProcessMoves
<1> QED
  BY <1>3, <1>4

LEMMA Publishes ==
    ASSUME FilesInv, NEW p \in Procs, Links(p) \/ Reserves(p) \/ MovesAside(p) \/ RenamesConf(p)
    PROVE  FilesInv'
<1>1. /\ proc[p] \in Activities /\ ActivityOK(proc[p], Live, synced, Len(text))
      /\ NoProc \in Activities
      /\ Live \in Directories /\ DirectoryOK(Live, synced, promised)
      /\ synced \subseteq 1..Len(text) /\ Len(text) \in Nat /\ harm \in Nat
  BY ActivityOf, LiveIsOne DEF FilesInv, FilesTypeOK
<1>2. \A q \in Procs : proc[q].step = "rename" =>
          /\ proc[q].name \in Names /\ proc[q].name \in Live.taken
          /\ Live.aside[proc[q].name] = NoFile
  BY DEF FilesInv, ActivityOK
<1>3. CASE Links(p)
  <2>1. proc[p].step = "link" /\ proc[p].own \in synced /\ UNCHANGED <<text, synced, promised, harm>>
    BY <1>1, <1>3 DEF Links, ActivityOK
  <2>2. CASE Live.key = NoFile
    <3> DEFINE a == [proc[p] EXCEPT !.step = "sync link"]
               d == [Live EXCEPT !.key = proc[p].own]
    <3>1. Goes(p, "sync link") /\ Publish(d)
      BY <1>3, <2>2 DEF Links
    <3>2. a \in Activities /\ Becomes(p, a)
      BY <3>1, ActivityOf DEF Steps
    <3>3. a.step = "sync link" /\ a.own = proc[p].own /\ a.held = proc[p].held
      BY <1>1 DEF Activities
    <3>4. proc[p].own \in Files /\ proc[p].own # NoFile
      <4>1. proc[p].own \in 1..Len(text) /\ Len(text) \in Nat
        BY <1>1, <2>1
      <4> QED
        BY <4>1, HostFilesAssumption DEF Files
    <3>5. /\ d \in Directories /\ DirectoryOK(d, synced, promised)
          /\ Keys(Live) \subseteq Keys(d) /\ proc[p].own \in Keys(d)
          /\ d.taken = Live.taken /\ d.aside = Live.aside
      BY <1>1, <2>1, <2>2, <3>4, LinkedKey
    <3> HIDE DEF a, d
    <3>6. ActivityOK(a, d, synced, Len(text))
      BY <1>1, <2>1, <3>3, <3>5 DEF ActivityOK
    <3>7. \A q \in Procs : q # p /\ proc[q].step = "rename" =>
              /\ proc[q].name \in d.taken /\ d.aside[proc[q].name] = NoFile
              /\ a.step = "rename" => a.name # proc[q].name
      BY <1>2, <3>3, <3>5
    <3> QED
      BY <2>1, <3>1, <3>2, <3>5, <3>6, <3>7, ProcessPublishes
  <2>3. CASE Live.key # NoFile
    <3> DEFINE a == [proc[p] EXCEPT !.step = "reread"]
    <3>1. Goes(p, "reread") /\ UNCHANGED disk
      BY <1>3, <2>3 DEF Links
    <3>2. a \in Activities /\ Becomes(p, a)
      BY <3>1, ActivityOf DEF Steps
    <3>3. a.step = "reread" /\ a.held = proc[p].held
      BY <1>1 DEF Activities
    <3> HIDE DEF a
    <3>4. ActivityOK(a, Live, synced, Len(text))
      BY <1>1, <3>3 DEF ActivityOK
    <3> QED
      BY <1>1, <2>1, <3>1, <3>2, <3>3, <3>4, OnlyProcessMoves
  <2> QED
    BY <2>2, <2>3
<1>4. CASE Reserves(p)
  <2>1. PICK n \in Names :
            /\ LowestFree(n)
            /\ Publish([Live EXCEPT !.taken = @ \union {n}])
            /\ Becomes(p, [proc[p] EXCEPT !.step = "rename", !.name = n])
    BY <1>4 DEF Reserves
  <2>2. n \notin Live.taken /\ Live.aside[n] = NoFile
    BY <1>1, <2>1 DEF LowestFree, Free, DirectoryOK
  <2> DEFINE a == [proc[p] EXCEPT !.step = "rename", !.name = n]
             names == Live.taken \union {n}
             d == [Live EXCEPT !.taken = names]
  <2>3. Becomes(p, a) /\ Publish(d) /\ UNCHANGED <<text, synced, promised, harm>>
    BY <1>4, <2>1 DEF Reserves
  <2>4. a \in Activities /\ a.step = "rename" /\ a.name = n /\ a.held = proc[p].held
    BY <1>1 DEF Activities, Steps
  <2>5. names \in SUBSET Names /\ \A m \in Names \ names : Live.aside[m] = NoFile
    BY <1>1 DEF Directories, DirectoryOK
  <2> HIDE DEF a, names
  <2>6. /\ d \in Directories /\ DirectoryOK(d, synced, promised)
        /\ Keys(d) = Keys(Live) /\ d.aside = Live.aside /\ d.taken = names
    BY <1>1, <2>5, OtherNames
  <2> HIDE DEF d
  <2>7. n \in names /\ Live.taken \subseteq names
    BY DEF names
  <2>8. ActivityOK(a, d, synced, Len(text))
    BY <1>1, <2>2, <2>4, <2>6, <2>7 DEF ActivityOK
  <2>9. \A q \in Procs : q # p /\ proc[q].step = "rename" =>
            /\ proc[q].name \in d.taken /\ d.aside[proc[q].name] = NoFile
            /\ a.step = "rename" => a.name # proc[q].name
    BY <1>2, <2>2, <2>4, <2>6, <2>7
  <2> QED
    BY <2>3, <2>4, <2>6, <2>8, <2>9, ProcessPublishes
<1>5. CASE MovesAside(p)
  <2> DEFINE name == proc[p].name
  <2>1. /\ proc[p].step = "rename" /\ UNCHANGED <<text, synced, promised, harm>>
        /\ name \in Names /\ Live.aside[name] = NoFile
    BY <1>1, <1>5 DEF MovesAside, ActivityOK
  <2>2. \A q \in Procs : q # p /\ proc[q].step = "rename" => proc[q].name # name
    BY <2>1 DEF FilesInv, DistinctNames
  <2>3. CASE Live.key # NoFile
    <3> DEFINE a == [proc[p] EXCEPT !.step = "sync aside"]
               d == [Live EXCEPT !.key = NoFile, !.aside[name] = Live.key,
                                 !.taken = @ \union {name}]
    <3>1. Goes(p, "sync aside") /\ Publish(d)
      BY <1>5, <2>3 DEF MovesAside
    <3>2. a \in Activities /\ Becomes(p, a)
      BY <3>1, ActivityOf DEF Steps
    <3>3. a.step = "sync aside" /\ a.held = proc[p].held
      BY <1>1 DEF Activities
    <3>4. /\ d \in Directories /\ DirectoryOK(d, synced, promised)
          /\ Keys(Live) \subseteq Keys(d) /\ Live.taken \subseteq d.taken
          /\ \A n \in Names : n # name => d.aside[n] = Live.aside[n]
      BY <1>1, <2>1, <2>3, MovedKey
    <3> HIDE DEF a, d
    <3>5. ActivityOK(a, d, synced, Len(text))
      BY <1>1, <3>3, <3>4 DEF ActivityOK
    <3>6. \A q \in Procs : q # p /\ proc[q].step = "rename" =>
              /\ proc[q].name \in d.taken /\ d.aside[proc[q].name] = NoFile
              /\ a.step = "rename" => a.name # proc[q].name
      BY <1>2, <2>2, <3>3, <3>4
    <3> QED
      BY <2>1, <3>1, <3>2, <3>4, <3>5, <3>6, ProcessPublishes
  <2>4. CASE Live.key = NoFile
    <3> DEFINE names == Live.taken \ {name}
               d == [Live EXCEPT !.taken = names]
    <3>1. Becomes(p, NoProc) /\ Publish(d)
      BY <1>5, <2>4 DEF MovesAside
    <3>2. names \in SUBSET Names /\ \A m \in Names \ names : Live.aside[m] = NoFile
      BY <1>1, <2>1 DEF Directories, DirectoryOK
    <3>3. /\ d \in Directories /\ DirectoryOK(d, synced, promised)
          /\ Keys(d) = Keys(Live) /\ d.aside = Live.aside /\ d.taken = names
      BY <1>1, <3>2, OtherNames
    <3>4. ActivityOK(NoProc, d, synced, Len(text)) /\ NoProc.step # "rename"
      BY DEF NoProc, ActivityOK
    <3>5. \A q \in Procs : q # p /\ proc[q].step = "rename" =>
              proc[q].name \in d.taken /\ d.aside[proc[q].name] = NoFile
      BY <1>2, <2>2, <3>3
    <3> HIDE DEF d
    <3> QED
      BY <1>1, <2>1, <3>1, <3>3, <3>4, <3>5, ProcessPublishes
  <2> QED
    BY <2>3, <2>4
<1>6. CASE RenamesConf(p)
  <2> DEFINE a == [proc[p] EXCEPT !.step = "sync conf link"]
             d == [Live EXCEPT !.conf = proc[p].own]
  <2>1. /\ Goes(p, "sync conf link") /\ Publish(d) /\ UNCHANGED <<text, synced, promised, harm>>
        /\ proc[p].step = "rename conf"
    BY <1>6 DEF RenamesConf
  <2>2. a \in Activities /\ Becomes(p, a)
    BY <2>1, ActivityOf DEF Steps
  <2>3. a.step = "sync conf link" /\ a.held = proc[p].held
    BY <1>1 DEF Activities
  <2>4. proc[p].own \in synced /\ proc[p].own \in Files
    BY <1>1, <2>1 DEF ActivityOK, Activities
  <2>5. /\ d \in Directories /\ DirectoryOK(d, synced, promised)
        /\ Keys(d) = Keys(Live) /\ d.taken = Live.taken /\ d.aside = Live.aside
    BY <1>1, <2>4, RenamedConf
  <2> HIDE DEF a, d
  <2>6. ActivityOK(a, d, synced, Len(text))
    BY <1>1, <2>3, <2>5 DEF ActivityOK
  <2>7. \A q \in Procs : q # p /\ proc[q].step = "rename" =>
            /\ proc[q].name \in d.taken /\ d.aside[proc[q].name] = NoFile
            /\ a.step = "rename" => a.name # proc[q].name
    BY <1>2, <2>3, <2>5
  <2> QED
    BY <2>1, <2>2, <2>5, <2>6, <2>7, ProcessPublishes
<1> QED
  BY <1>3, <1>4, <1>5, <1>6

LEMMA SyncsTheDirectory ==
    ASSUME FilesInv, NEW p \in Procs, SyncsDirectory(p) \/ SyncFails(p)
    PROVE  FilesInv'
<1>1. /\ proc[p] \in Activities /\ ActivityOK(proc[p], Live, synced, Len(text))
      /\ NoProc \in Activities /\ ActivityOK(NoProc, Live, synced, Len(text))
      /\ Live \in Directories /\ DirectoryOK(Live, synced, promised)
      /\ promised \subseteq Nat /\ harm \in Nat
  BY ActivityOf, LiveIsOne DEF FilesInv, FilesTypeOK
<1>2. \A q \in Procs : proc[q].step = "rename" =>
          proc[q].name \in Live.taken /\ Live.aside[proc[q].name] = NoFile
  BY DEF FilesInv, ActivityOK
<1>3. Len(text) \in Nat /\ synced \subseteq 1..Len(text) /\ text \in Seq(Texts)
  BY DEF FilesInv, FilesTypeOK
<1> DEFINE again == [NoProc EXCEPT !.step = "read"]
<1>4. again \in Activities /\ again.step = "read" /\ ActivityOK(again, Live, synced, Len(text))
  BY <1>1 DEF NoProc, Activities, Steps, Files, ActivityOK
<1> HIDE DEF again
<1>5. CASE SyncsDirectory(p)
  <2> DEFINE done == [NoProc EXCEPT !.held = proc[p].own]
  <2>1. /\ disk' = <<Live>> /\ UNCHANGED <<text, synced, harm>>
        /\ proc[p].step \in {"sync link", "sync aside", "sync conf link"}
    BY <1>5 DEF SyncsDirectory
  <2>2. disk' \in Seq(Directories) /\ disk' # <<>> /\ Live' = Live
        /\ \A i \in DOMAIN disk' : disk'[i] = Live
    <3>1. /\ <<Live>> \in Seq(Directories) /\ <<Live>> # <<>> /\ Len(<<Live>>) = 1
          /\ DOMAIN <<Live>> = 1..1 /\ <<Live>>[1] = Live
      BY <1>1
    <3>2. disk' = <<Live>>
      BY <2>1
    <3>3. Last(disk') = Live
      BY <3>1, <3>2 DEF Last
    <3>4. Live' = Live
      BY <3>3 DEF Live
    <3> QED
      BY <3>1, <3>2, <3>4
  <2>3. \E a \in Activities : /\ Becomes(p, a) /\ a.step # "rename"
                              /\ ActivityOK(a, Live, synced, Len(text))
    <3>1. CASE proc[p].step = "sync link"
      <4>1. Becomes(p, done)
        BY <1>5, <3>1 DEF SyncsDirectory
      <4>2. done \in Activities /\ done.step # "rename"
        BY <1>1 DEF NoProc, Activities, Steps, Files
      <4>3. ActivityOK(done, Live, synced, Len(text))
        BY <1>1, <3>1 DEF NoProc, ActivityOK
      <4> QED
        BY <4>1, <4>2, <4>3
    <3>2. CASE proc[p].step = "sync aside"
      <4>1. Becomes(p, again)
        BY <1>5, <3>2 DEF SyncsDirectory, again
      <4> QED
        BY <1>4, <4>1
    <3>3. CASE proc[p].step = "sync conf link"
      <4>1. Becomes(p, NoProc)
        BY <1>5, <3>3 DEF SyncsDirectory
      <4> QED
        BY <1>1, <4>1 DEF NoProc
    <3> QED
      BY <2>1, <3>1, <3>2, <3>3
  <2>4. promised' \subseteq Nat /\ promised' \subseteq Keys(Live)
    <3>1. CASE proc[p].step = "sync link"
      <4>1. promised' = promised \union {proc[p].own}
        BY <1>5, <3>1 DEF SyncsDirectory
      <4>2. proc[p].own \in Keys(Live) /\ proc[p].own \in synced
        BY <1>1, <3>1 DEF ActivityOK
      <4>3. proc[p].own \in Nat
        <5>1. proc[p].own \in 1..Len(text)
          BY <1>3, <4>2
        <5> QED
          BY <1>3, <5>1
      <4>4. promised \subseteq Keys(Live)
        BY <1>1 DEF DirectoryOK
      <4> QED
        BY <1>1, <4>1, <4>2, <4>3, <4>4
    <3>2. CASE proc[p].step # "sync link"
      <4>1. promised' = promised
        BY <1>5, <3>2 DEF SyncsDirectory
      <4> QED
        BY <1>1, <4>1 DEF DirectoryOK
    <3> QED
      BY <3>1, <3>2
  <2>5. DirectoryOK(Live, synced', promised')
    BY <1>1, <2>1, <2>4 DEF DirectoryOK
  <2>6. \A i \in DOMAIN disk' : DirectoryOK(disk'[i], synced', promised')
    BY <2>2, <2>5
  <2>7. /\ text' \in Seq(Texts) /\ Len(text) <= Len(text') /\ harm' \in Nat
        /\ synced \subseteq synced' /\ synced' \subseteq 1..Len(text')
        /\ Keys(Live) \subseteq Keys(Live')
    <3>1. text' = text /\ synced' = synced /\ harm' = harm /\ Live' = Live
      BY <2>1, <2>2
    <3> QED
      BY <1>1, <1>3, <3>1
  <2>8. PICK a \in Activities : /\ Becomes(p, a) /\ a.step # "rename"
                                /\ ActivityOK(a, Live, synced, Len(text))
    BY <2>3
  <2>9. ActivityOK(a, Live', synced', Len(text'))
    BY <2>1, <2>2, <2>8
  <2>10. \A q \in Procs : q # p /\ proc[q].step = "rename" =>
            /\ proc[q].name \in Live'.taken /\ Live'.aside[proc[q].name] = NoFile
            /\ a.step = "rename" => a.name # proc[q].name
    BY <1>2, <2>2, <2>8
  <2> QED
    BY <2>2, <2>4, <2>6, <2>7, <2>8, <2>9, <2>10, OneProcessMoves
<1>6. CASE SyncFails(p)
  <2>1. UNCHANGED <<disk, text, synced, promised>> /\ harm' \in Nat
    <3>1. UNCHANGED <<disk, text, synced, promised>> /\ harm' = harm + 1
      BY <1>6 DEF SyncFails
    <3> QED
      BY <1>1, <3>1
  <2>2. Becomes(p, again) \/ Becomes(p, NoProc)
    BY <1>6 DEF SyncFails, again
  <2>3. CASE Becomes(p, again)
    BY <1>4, <2>1, <2>3, OnlyProcessMoves
  <2>4. CASE Becomes(p, NoProc)
    BY <1>1, <2>1, <2>4, OnlyProcessMoves DEF NoProc
  <2> QED
    BY <2>2, <2>3, <2>4
<1> QED
  BY <1>5, <1>6

(* A power loss leaves one of the directories it can leave and no process; *)
(* whatever has been damaged stays in its place.                           *)
LEMMA HarmsHappen ==
    ASSUME FilesInv, PowerLoss \/ \E file \in {Live.key, Live.conf} : Damages(file)
    PROVE  FilesInv'
<1>1. /\ disk \in Seq(Directories) /\ disk # <<>> /\ text \in Seq(Texts) /\ Len(text) \in Nat
      /\ synced \subseteq 1..Len(text) /\ proc \in [Procs -> Activities]
      /\ promised \subseteq Nat /\ harm \in Nat /\ DOMAIN text = 1..Len(text)
      /\ \A i \in DOMAIN disk : disk[i] \in Directories /\ DirectoryOK(disk[i], synced, promised)
  BY DEF FilesInv, FilesTypeOK
<1>2. CASE PowerLoss
  <2>1. PICK i \in DOMAIN disk : disk' = <<disk[i]>>
    BY <1>2 DEF PowerLoss
  <2>2. /\ synced' = DOMAIN text /\ proc' = [q \in Procs |-> NoProc] /\ promised' = promised
        /\ harm' = harm + 1
        /\ text' = [file \in DOMAIN text |->
                       IF file \in synced THEN text[file] ELSE "damaged"]
    BY <1>2 DEF PowerLoss
  <2>3. disk' \in Seq(Directories) /\ disk' # <<>> /\ \A j \in DOMAIN disk' : disk'[j] = disk[i]
    BY <1>1, <2>1
  <2>4. text' \in Seq(Texts) /\ Len(text') = Len(text)
    <3> DEFINE t(file) == IF file \in synced THEN text[file] ELSE "damaged"
    <3>1. text' = [file \in 1..Len(text) |-> t(file)]
      BY <1>1, <2>2
    <3>2. \A file \in 1..Len(text) : t(file) \in Texts
      BY <1>1 DEF Texts
    <3> HIDE DEF t
    <3> QED
      BY <1>1, <3>1, <3>2
  <2>5. proc' \in [Procs -> Activities] /\ \A q \in Procs : proc'[q] = NoProc
    BY <2>2 DEF NoProc, Activities, Steps, Files
  <2>6. FilesTypeOK'
    BY <1>1, <2>2, <2>3, <2>4, <2>5 DEF FilesTypeOK
  <2>7. DistinctNames'
    BY <2>5 DEF DistinctNames, NoProc
  <2>8. DirectoryOK(disk[i], synced', promised')
    BY <1>1, <2>2 DEF DirectoryOK
  <2>9. \A q \in Procs : ActivityOK(proc'[q], Live', synced', Len(text'))
    <3>1. NoProc.step = "idle" /\ NoProc.held = NoFile
      BY DEF NoProc
    <3> QED
      BY <2>5, <3>1 DEF ActivityOK
  <2> QED
    BY <2>3, <2>6, <2>7, <2>8, <2>9 DEF FilesInv
<1>3. CASE \E file \in {Live.key, Live.conf} : Damages(file)
  <2>1. PICK file \in {Live.key, Live.conf}, state \in {"damaged", "open"} :
            text' = [text EXCEPT ![file] = state]
    BY <1>3 DEF Damages
  <2>2. harm' = harm + 1 /\ UNCHANGED <<disk, synced, proc, promised>>
    BY <1>3 DEF Damages
  <2>3. text' \in Seq(Texts) /\ Len(text') = Len(text)
    <3>1. state \in Texts
      BY DEF Texts
    <3> DEFINE t(n) == IF n = file THEN state ELSE text[n]
    <3>2. text' = [n \in 1..Len(text) |-> t(n)]
      BY <1>1, <2>1
    <3>3. \A n \in 1..Len(text) : t(n) \in Texts
      BY <1>1, <3>1
    <3> HIDE DEF t
    <3> QED
      BY <1>1, <3>2, <3>3
  <2>4. FilesTypeOK' /\ DistinctNames'
    BY <1>1, <2>2, <2>3 DEF FilesInv, FilesTypeOK, DistinctNames
  <2>5. Live' = Live
    BY <2>2 DEF Live
  <2>6. \A q \in Procs : ActivityOK(proc'[q], Live', synced', Len(text'))
    BY <2>2, <2>3, <2>5 DEF FilesInv
  <2>7. \A i \in DOMAIN disk' : DirectoryOK(disk'[i], synced', promised')
    BY <1>1, <2>2
  <2> QED
    BY <2>4, <2>6, <2>7 DEF FilesInv
<1> QED
  BY <1>2, <1>3

LEMMA FilesInitInv == FilesInit => FilesInv
<1> SUFFICES ASSUME FilesInit PROVE FilesInv
  OBVIOUS
<1> DEFINE d == [key |-> NoFile, conf |-> NoFile, taken |-> {}, aside |-> [n \in Names |-> NoFile]]
<1>1. /\ disk = <<d>> /\ text = <<>> /\ synced = {} /\ promised = {} /\ harm = 0
      /\ proc = [p \in Procs |-> NoProc]
  BY DEF FilesInit
<1>2. d \in Directories /\ DirectoryOK(d, {}, {})
  BY DEF Directories, Files, DirectoryOK, Kept
<1> HIDE DEF d
<1>3. disk \in Seq(Directories) /\ disk # <<>> /\ \A i \in DOMAIN disk : disk[i] = d
  BY <1>1, <1>2
<1>4. text \in Seq(Texts) /\ synced \subseteq 1..Len(text)
  BY <1>1
<1>5. proc \in [Procs -> Activities] /\ \A p \in Procs : proc[p] = NoProc
  BY <1>1 DEF NoProc, Activities, Steps, Files
<1>6. FilesTypeOK /\ DistinctNames
  BY <1>1, <1>3, <1>4, <1>5 DEF FilesTypeOK, DistinctNames, NoProc
<1>7. \A p \in Procs : ActivityOK(proc[p], Live, synced, Len(text))
  <2>1. NoProc.step = "idle" /\ NoProc.held = NoFile
    BY DEF NoProc
  <2> QED
    BY <1>5, <2>1 DEF ActivityOK
<1>8. \A i \in DOMAIN disk : DirectoryOK(disk[i], synced, promised)
  BY <1>1, <1>2, <1>3
<1> QED
  BY <1>6, <1>7, <1>8 DEF FilesInv

LEMMA FilesNextInv ==
    ASSUME FilesInv, [FilesNext]_fileVars
    PROVE  FilesInv'
<1>1. ASSUME NEW p \in Procs, Process(p)
      PROVE  FilesInv'
  BY <1>1, ReadsAndWaits, WritesAndSyncs, Publishes, SyncsTheDirectory DEF Process
<1>2. CASE PowerLoss \/ Damages(Live.key) \/ Damages(Live.conf)
  BY <1>2, HarmsHappen
<1>3. CASE UNCHANGED fileVars
  <2>1. Live' = Live /\ UNCHANGED <<disk, text, synced, proc, promised, harm>>
    BY <1>3 DEF fileVars, Live
  <2> QED
    BY <2>1 DEF FilesInv, FilesTypeOK, DistinctNames
<1> QED
  BY <1>1, <1>2, <1>3 DEF FilesNext

-----------------------------------------------------------------------------
(* Theorems *)

(* However many processes start, replace keys and save settings at once    *)
(* (load_at, replace_at, Store::save), are killed or lose the power: a key *)
(* that a process holds or that has been completed is at its place or      *)
(* aside, and no file that is read has been cut short.                     *)
THEOREM KeysAreKept == FilesSpec => []FilesSurvive
<1>1. FilesInit => FilesInv
  BY FilesInitInv
<1>2. FilesInv /\ [FilesNext]_fileVars => FilesInv'
  BY FilesNextInv
<1>3. FilesInv => FilesSurvive
  <2> SUFFICES ASSUME FilesInv PROVE FilesSurvive
    OBVIOUS
  <2>1. ASSUME NEW p \in Procs, proc[p].held # NoFile PROVE proc[p].held \in Kept(Live)
    BY <2>1 DEF FilesInv, ActivityOK, Keys
  <2>2. ASSUME NEW i \in DOMAIN disk
        PROVE  /\ promised \subseteq Kept(disk[i])
               /\ {disk[i].conf} \union Kept(disk[i]) \subseteq synced \union {NoFile}
    BY <2>2 DEF FilesInv, DirectoryOK, Keys
  <2> QED
    BY <2>1, <2>2 DEF FilesSurvive
<1> QED
  BY <1>1, <1>2, <1>3, PTL DEF FilesSpec
=============================================================================
