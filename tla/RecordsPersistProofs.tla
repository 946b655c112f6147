------------------------- MODULE RecordsPersistProofs --------------------------
(***************************************************************************)
(* Proofs about RecordsPersist: type correctness, that the snapshot on flash*)
(* is a whole file whatever kills the process, and that it is not wiped     *)
(* while the cache knows a name of it, for every set of names, every rule   *)
(* set and any number of faults and crashes.                                *)
(***************************************************************************)
EXTENDS RecordsPersist, TLAPS

Steps == {"idle", "check", "clear", "list", "filter", "build",
          "create", "write", "sync", "rename"}

Saves == [step : Steps, todo : SUBSET Names, want : SUBSET Names, snap : SUBSET Names]

(* TypeOK with the shape of the records, which the actions update. *)
Shapes ==
  /\ save \in [Savers -> Saves]
  /\ tmp \in [Savers -> {None, "partial", "written", "synced"}]
  /\ dns \in [step : {"idle", "lock", "mark"}, name : Names \cup {None}]
  /\ locker \in [writer : {None, "dns"}, waiting : SUBSET {"dns"}]
  /\ cfgMu \in [writer : {None, "edit"}, waiting : SUBSET {"edit"}]
  /\ file \in [snap : SUBSET Names, state : {"written", "synced", "torn"}]

(* The answer being stored has a name: DnsStore puts it into the cache. *)
AnswerHasName == dns.step = "lock" => dns.name \in Names

(* A file is renamed only when it is synced, so the snapshot always is. *)
SyncedFirst ==
  /\ file.state = "synced"
  /\ \A s \in Savers : save[s].step = "rename" => tmp[s] = "synced"

(* The final Save has not begun while the daemon runs. *)
FinalWaits == daemon = "running" => save["final"].step = "idle"

PersistInv == TypeOK /\ Shapes /\ AnswerHasName /\ SyncedFirst

--------------------------------------------------------------------------------
(* The initial state *)

LEMMA InitPersist == Init => PersistInv
  <1> SUFFICES ASSUME Init PROVE PersistInv
    OBVIOUS
  <1>1. NoSave \in Saves
    BY DEF NoSave, Saves, Steps
  <1>2. Shapes
    BY <1>1 DEF Init, Shapes, Savers, Free
  <1>3. TypeOK
    BY DEF Init, TypeOK, NoSave, Free
  <1>4. AnswerHasName /\ SyncedFirst
    BY DEF Init, AnswerHasName, SyncedFirst, NoSave
  <1> QED
    BY <1>2, <1>3, <1>4 DEF PersistInv

--------------------------------------------------------------------------------
(* The steps that leave every Save where it is *)

(* What a step has to keep when it changes neither save nor the disk. *)
LEMMA OthersPersist ==
  ASSUME PersistInv,
         DnsAnswer \/ Handling \/ Expire \/ cleanupRecords \/ EditRequest \/ Editing
           \/ Flip \/ TearDown \/ Exit
  PROVE  PersistInv'
  <1> USE DEF PersistInv, TypeOK, Shapes, AnswerHasName, SyncedFirst, disk, mutexes, counters
  <1>1. CASE DnsAnswer
    BY <1>1 DEF DnsAnswer, Request
  <1>2. CASE DnsStore
    BY <1>2 DEF DnsStore, Locked
  <1>3. CASE DnsMark
    BY <1>3 DEF DnsMark, Unlocked
  <1>4. CASE Expire
    BY <1>4 DEF Expire
  <1>5. CASE cleanupRecords
    BY <1>5 DEF cleanupRecords
  <1>6. CASE EditRequest
    BY <1>6 DEF EditRequest, Request
  <1>7. CASE EditLock
    BY <1>7 DEF EditLock, Locked
  <1>8. CASE EditSync
    BY <1>8 DEF EditSync, Unlocked
  <1>9. CASE Flip
    BY <1>9 DEF Flip
  <1>10. CASE TearDown
    BY <1>10 DEF TearDown
  <1>11. CASE Exit
    BY <1>11 DEF Exit
  <1> QED
    BY <1>1, <1>2, <1>3, <1>4, <1>5, <1>6, <1>7, <1>8, <1>9, <1>10, <1>11
       DEF Handling, Editing

LEMMA StutterPersist == PersistInv /\ UNCHANGED vars => PersistInv'
  BY DEF PersistInv, TypeOK, Shapes, AnswerHasName, SyncedFirst, vars, disk, mutexes, counters

--------------------------------------------------------------------------------
(* The steps of a Save *)

(* A Save that changes neither the cache nor the disk: it keeps the          *)
(* invariant when it stays short of the rename.                              *)
LEMMA MemoryStep ==
  ASSUME PersistInv, NEW s \in Savers, NEW v \in Saves,
         save[s].step \notin {"write", "sync", "rename"},
         v.step \notin {"write", "sync", "rename"},
         Go(s, v), dirty' \in BOOLEAN,
         UNCHANGED <<cache, expired, mutexes, dns, groupsUp, daemon, disk>>
  PROVE  PersistInv'
  <1> USE DEF PersistInv, mutexes, disk, Go
  <1>1. Shapes' /\ AnswerHasName' /\ SyncedFirst'
    BY DEF Shapes, AnswerHasName, SyncedFirst
  <1>2. v.want \cup v.snap \cup v.todo \subseteq Names
    BY DEF Saves
  <1>3. TypeOK'
    BY <1>2 DEF TypeOK, Shapes
  <1> QED
    BY <1>1, <1>3

(* A Save that moves the temporary file from one state to the next. *)
LEMMA FileStep ==
  ASSUME PersistInv, NEW s \in Savers,
         NEW step \in {"write", "sync", "rename"},
         NEW state \in {"partial", "written", "synced"},
         step = "rename" => state = "synced",
         Go(s, [save[s] EXCEPT !.step = step]), tmp' = [tmp EXCEPT ![s] = state],
         UNCHANGED <<cache, expired, dirty, mutexes, dns, groupsUp, daemon, file>>
  PROVE  PersistInv'
  <1> USE DEF PersistInv, mutexes, Go
  <1>1. Shapes' /\ AnswerHasName'
    BY DEF Shapes, AnswerHasName, Saves, Steps
  <1>2. SyncedFirst'
    BY DEF SyncedFirst, Shapes, Saves
  <1>3. TypeOK'
    BY NamesAssumption DEF TypeOK, Shapes, Saves
  <1> QED
    BY <1>1, <1>2, <1>3

(* A Save that gives up leaves no temporary file. *)
LEMMA GiveUpStep ==
  ASSUME PersistInv, NEW s \in Savers, GiveUp(s),
         UNCHANGED <<cache, expired, mutexes, dns, groupsUp, daemon, file>>
  PROVE  PersistInv'
  <1> USE DEF PersistInv, mutexes, Go, GiveUp
  <1>1. NoSave \in Saves /\ NoSave.step = "idle"
    BY DEF NoSave, Saves, Steps
  <1>2. Shapes' /\ AnswerHasName' /\ SyncedFirst'
    BY <1>1 DEF Shapes, AnswerHasName, SyncedFirst
  <1>3. TypeOK'
    BY <1>1 DEF TypeOK, Shapes, Saves
  <1> QED
    BY <1>2, <1>3

LEMMA SavePersist ==
  ASSUME PersistInv, NEW s \in Savers, Save(s)
  PROVE  PersistInv'
  <1>1. NoSave \in Saves /\ save[s] \in Saves /\ cache \subseteq Names
    BY DEF NoSave, Saves, Steps, PersistInv, Shapes, TypeOK
  <1>2. CASE CheckDirty(s)
    <2>1. [NoSave EXCEPT !.step = "clear"] \in Saves
      BY DEF NoSave, Saves, Steps
    <2> QED
      BY <1>1, <1>2, <2>1, MemoryStep
      DEF CheckDirty, In, NoSave, PersistInv, TypeOK
  <1>3. CASE ClearDirty(s)
    <2>1. [NoSave EXCEPT !.step = "list"] \in Saves
      BY DEF NoSave, Saves, Steps
    <2> QED
      BY <1>3, <2>1, MemoryStep DEF ClearDirty, In, NoSave
  <1>4. CASE ListKnownDomains(s)
    <2>1. [save[s] EXCEPT !.step = "filter", !.todo = cache] \in Saves
      BY <1>1 DEF Saves, Steps
    <2> QED
      BY <1>1, <1>4, <2>1, MemoryStep
      DEF ListKnownDomains, In, Saves, PersistInv, TypeOK
  <1>5. CASE Filter(s)
    <2>1. CASE save[s].todo = {}
      <3>1. [save[s] EXCEPT !.step = "build"] \in Saves
        BY <1>1 DEF Saves, Steps
      <3> QED
        BY <1>1, <1>5, <2>1, <3>1, MemoryStep DEF Filter, In, Saves, PersistInv, TypeOK
    <2>2. CASE save[s].todo # {}
      <3> DEFINE more(n) == [save[s] EXCEPT
                   !.todo = @ \ {n}, !.want = IF keep(n) THEN @ \cup {n} ELSE @]
      <3>1. PICK n \in save[s].todo : Go(s, more(n))
        BY <1>5, <2>2 DEF Filter
      <3>2. n \in Names
        BY <1>1 DEF Saves
      <3>3. more(n) \in Saves /\ more(n).step = save[s].step
        BY <1>1, <3>2 DEF Saves
      <3> HIDE DEF more
      <3> QED
        BY <1>5, <3>1, <3>3, MemoryStep DEF Filter, In, PersistInv, TypeOK
    <2> QED
      BY <2>1, <2>2
  <1>6. CASE Build(s)
    <2> DEFINE snap == WithChains(save[s].want) \cap cache
    <2>1. [NoSave EXCEPT !.step = "create", !.snap = snap] \in Saves
      BY <1>1 DEF NoSave, Saves, Steps
    <2> QED
      BY <1>6, <2>1, MemoryStep DEF Build, In, NoSave, PersistInv, TypeOK
  <1>7. CASE Refuse(s)
    BY <1>7, GiveUpStep DEF Refuse
  <1>8. CASE CreateTemp(s)
    BY <1>8, FileStep DEF CreateTemp
  <1>9. CASE WriteTemp(s)
    BY <1>9, FileStep DEF WriteTemp
  <1>10. CASE SyncTemp(s)
    BY <1>10, FileStep DEF SyncTemp
  <1>11. CASE Rename(s)
    <2> USE <1>11 DEF PersistInv, Rename, In, Go, mutexes, counters
    <2>1. NoSave.step = "idle" /\ tmp[s] = "synced"
      BY DEF NoSave, SyncedFirst
    <2>2. file' = [snap |-> save[s].snap, state |-> "synced"] /\ save[s].snap \subseteq Names
      BY <1>1, <2>1 DEF Saves
    <2>3. Shapes' /\ AnswerHasName'
      BY <1>1, <2>2 DEF Shapes, AnswerHasName
    <2>4. SyncedFirst'
      BY <1>1, <2>1, <2>2 DEF SyncedFirst, Shapes
    <2>5. TypeOK'
      BY <1>1, <2>1, <2>2 DEF TypeOK, Shapes, Saves
    <2> QED
      BY <2>3, <2>4, <2>5
  <1> QED
    BY <1>2, <1>3, <1>4, <1>5, <1>6, <1>7, <1>8, <1>9, <1>10, <1>11 DEF Save

LEMMA FaultPersist ==
  ASSUME PersistInv, NEW s \in Savers, FileFault(s)
  PROVE  PersistInv'
  BY GiveUpStep DEF FileFault

--------------------------------------------------------------------------------
(* The daemon starts a Save, and starts again *)

LEMMA TickPersist == PersistInv /\ PersistTick => PersistInv'
  <1> SUFFICES ASSUME PersistInv, PersistTick PROVE PersistInv'
    OBVIOUS
  <1>1. [NoSave EXCEPT !.step = "check"] \in Saves /\ "ticker" \in Savers
    BY DEF NoSave, Saves, Steps, Savers
  <1> QED
    BY <1>1, MemoryStep DEF PersistTick, In, NoSave, PersistInv, TypeOK

LEMMA StopPersist == PersistInv /\ FinalWaits /\ Stop => PersistInv'
  <1> SUFFICES ASSUME PersistInv, FinalWaits, Stop PROVE PersistInv'
    OBVIOUS
  <1> USE DEF PersistInv, Stop, Go, mutexes, disk, counters
  <1>1. /\ [NoSave EXCEPT !.step = "check"] \in Saves /\ "final" \in Savers
        /\ save["final"].step = "idle"
    BY DEF NoSave, Saves, Steps, Savers, FinalWaits
  <1>2. Shapes' /\ AnswerHasName' /\ SyncedFirst'
    BY <1>1 DEF Shapes, AnswerHasName, SyncedFirst, NoSave
  <1>3. TypeOK'
    BY <1>1 DEF TypeOK, Shapes, Saves, NoSave
  <1> QED
    BY <1>2, <1>3

LEMMA RestartPersist == PersistInv /\ Restart => PersistInv'
  <1> SUFFICES ASSUME PersistInv, Restart PROVE PersistInv'
    OBVIOUS
  <1> USE DEF PersistInv, Restart
  <1>1. /\ NoSave \in Saves /\ NoSave.step = "idle"
        /\ NoSave.want = {} /\ NoSave.snap = {} /\ NoSave.todo = {}
    BY DEF NoSave, Saves, Steps
  <1>2. file' = file /\ cache' = file.snap \ expired
    BY DEF SyncedFirst, Shapes
  <1>3. cache' \subseteq Names
    BY <1>2 DEF TypeOK
  <1>4. Shapes' /\ AnswerHasName' /\ SyncedFirst'
    BY <1>1, <1>2 DEF Shapes, AnswerHasName, SyncedFirst, Free
  <1>5. TypeOK'
    BY <1>1, <1>2, <1>3 DEF TypeOK, Free
  <1> QED
    BY <1>4, <1>5

(* The final Save begins with Stop, and only Restart makes the daemon run.   *)
LEMMA FinalStep == PersistInv /\ FinalWaits /\ [Next]_vars => FinalWaits'
  <1> SUFFICES ASSUME PersistInv, FinalWaits, [Next]_vars PROVE FinalWaits'
    OBVIOUS
  <1> USE DEF FinalWaits, disk, mutexes, counters
  <1>1. save \in [Savers -> Saves] /\ "final" \in Savers
    BY DEF PersistInv, Shapes, Savers
  <1>2. CASE Running
    <2>1. PICK s \in Savers : Save(s) \/ FileFault(s)
      BY <1>2 DEF Running
    <2>2. daemon' = daemon /\ save[s].step # "idle"
      BY <2>1 DEF Save, CheckDirty, ClearDirty, ListKnownDomains, Filter, Build, Refuse,
                  CreateTemp, WriteTemp, SyncTemp, Rename, FileFault, In
    <2>3. \A r \in Savers \ {s} : save'[r] = save[r]
      BY <1>1, <2>1 DEF Save, CheckDirty, ClearDirty, ListKnownDomains, Filter, Build, Refuse,
                  CreateTemp, WriteTemp, SyncTemp, Rename, FileFault, Go, GiveUp
    <2> QED
      BY <1>1, <2>2, <2>3
  <1>3. CASE PersistTick
    BY <1>1, <1>3 DEF PersistTick, Go
  <1>4. CASE Stop
    BY <1>4 DEF Stop
  <1>5. CASE Restart
    BY <1>1, <1>5 DEF Restart, NoSave
  <1>6. CASE DnsAnswer \/ Handling \/ Expire \/ cleanupRecords \/ EditRequest \/ Editing
             \/ Flip \/ TearDown \/ Exit
    BY <1>6 DEF DnsAnswer, Handling, DnsStore, DnsMark, Expire, cleanupRecords, EditRequest,
                Editing, EditLock, EditSync, Flip, TearDown, Exit
  <1>7. CASE UNCHANGED vars
    BY <1>7 DEF vars
  <1> QED
    BY <1>2, <1>3, <1>4, <1>5, <1>6, <1>7 DEF Next

--------------------------------------------------------------------------------
(* Theorems *)

(* The invariant holds of every behaviour, whatever fails or crashes. *)
THEOREM PersistInductive == Spec => [](PersistInv /\ FinalWaits)
  <1>1. Init => PersistInv /\ FinalWaits
    BY InitPersist DEF Init, FinalWaits, NoSave, Savers
  <1>2. PersistInv /\ FinalWaits /\ [Next]_vars => (PersistInv /\ FinalWaits)'
    <2> SUFFICES ASSUME PersistInv, FinalWaits, [Next]_vars PROVE PersistInv'
      BY FinalStep
    <2>1. CASE Running
      BY <2>1, SavePersist, FaultPersist DEF Running
    <2>2. CASE PersistTick
      BY <2>2, TickPersist
    <2>3. CASE Stop
      BY <2>3, StopPersist
    <2>4. CASE Restart
      BY <2>4, RestartPersist
    <2>5. CASE UNCHANGED vars
      BY <2>5, StutterPersist
    <2> QED
      BY <2>1, <2>2, <2>3, <2>4, <2>5, OthersPersist DEF Next
  <1> QED
    BY <1>1, <1>2, PTL DEF Spec

(* Type correctness of the snapshot's model: among others, a temporary file  *)
(* exists exactly while a Save is between CreateTemp and the rename, so that *)
(* neither a failed nor a finished Save leaves one behind (persist.go:220).  *)
THEOREM PersistTypeCorrect == Spec => []TypeOK
  BY PersistInductive, PTL DEF PersistInv

(* However often the process is killed or the power is cut, and wherever in  *)
(* a Save, the file a start reads is a whole one (persist.go:213).           *)
THEOREM SnapshotIsWhole == Spec => []FileIsWhole
  <1>1. PersistInv => FileIsWhole
    BY DEF PersistInv, SyncedFirst, FileIsWhole
  <1> QED
    BY <1>1, PersistInductive, PTL

--------------------------------------------------------------------------------
(* An empty snapshot                                                         *)

(* What is on disk, or about to be, the cache knows unless it has run out:   *)
(* Load brings it back and only the cleanup takes it away.  An empty         *)
(* snapshot that is being written was taken of an empty cache, and so while  *)
(* no other Save can rename in between, the file holds nothing valid.        *)
KnownOrExpired ==
  /\ file.snap \subseteq cache \cup expired
  /\ \A s \in Savers : save[s].snap \subseteq cache \cup expired

EmptyIsTrue ==
  \A s \in Savers :
    daemon = "running" /\ save[s].step \in {"write", "sync", "rename"} /\ save[s].snap = {} =>
      file.snap \subseteq expired

WipeInv == KnownOrExpired /\ EmptyIsTrue

LEMMA InitWipe == Init => WipeInv
  BY DEF Init, WipeInv, KnownOrExpired, EmptyIsTrue, NoSave

(* A step beside the Saves: names are added, and taken away when they have   *)
(* run out.                                                                  *)
LEMMA OthersWipe ==
  ASSUME WipeInv, AnswerHasName,
         DnsAnswer \/ Handling \/ Expire \/ cleanupRecords \/ EditRequest \/ Editing
           \/ Flip \/ TearDown \/ Exit \/ UNCHANGED vars
  PROVE  WipeInv'
  <1>1. /\ save' = save /\ file' = file /\ (daemon' = "running" => daemon = "running")
        /\ cache \cup expired \subseteq cache' \cup expired' /\ expired \subseteq expired'
    BY DEF DnsAnswer, Handling, DnsStore, DnsMark, Expire, cleanupRecords, EditRequest, Editing, EditLock,
           EditSync, Flip, TearDown, Exit, vars, disk
  <1> QED
    BY <1>1 DEF WipeInv, KnownOrExpired, EmptyIsTrue

(* What a step of a Save does to its snapshot and to the file.               *)
LEMMA SaveWipe ==
  ASSUME PersistInv, WipeInv, FinalWaits, NEW s \in Savers, Save(s) \/ FileFault(s)
  PROVE  WipeInv'
  <1>1. save \in [Savers -> Saves] /\ save[s] \in Saves
    BY DEF PersistInv, Shapes
  <1>2. cache' = cache /\ expired' = expired /\ daemon' = daemon /\ save[s].step # "idle"
    BY DEF Save, CheckDirty, ClearDirty, ListKnownDomains, Filter, Build, Refuse, CreateTemp, WriteTemp, SyncTemp,
           Rename, FileFault, In
  <1>3. \A r \in Savers \ {s} : save'[r] = save[r]
    BY <1>1 DEF Save, CheckDirty, ClearDirty, ListKnownDomains, Filter, Build, Refuse, CreateTemp, WriteTemp,
                SyncTemp, Rename, FileFault, Go, GiveUp
  <1>4. daemon = "running" => \A r \in Savers \ {s} : save[r].step \notin {"write", "sync", "rename"}
    BY <1>2 DEF FinalWaits, Savers
  <1>5. NoSave.snap = {} /\ NoSave.step = "idle"
    BY DEF NoSave
  <1>6. CASE CheckDirty(s) \/ ClearDirty(s) \/ Refuse(s) \/ FileFault(s)
    <2>1. file' = file /\ save'[s].snap = {} /\ save'[s].step \in {"idle", "clear", "list"}
      BY <1>1, <1>5, <1>6 DEF CheckDirty, ClearDirty, Refuse, FileFault, GiveUp, Go, NoSave, disk
    <2> QED
      BY <1>2, <1>3, <2>1 DEF WipeInv, KnownOrExpired, EmptyIsTrue
  <1>7. CASE ListKnownDomains(s) \/ Filter(s)
    <2>1. file' = file /\ save'[s].snap = save[s].snap /\ save'[s].step \in {"filter", "build"}
      <3>1. CASE ListKnownDomains(s)
        BY <1>1, <3>1 DEF ListKnownDomains, Go, Saves, disk
      <3>2. CASE Filter(s) /\ save[s].todo = {}
        BY <1>1, <3>2 DEF Filter, Go, Saves, disk
      <3>3. CASE Filter(s) /\ save[s].todo # {}
        <4>1. PICK n \in save[s].todo :
                Go(s, [save[s] EXCEPT !.todo = @ \ {n}, !.want = IF keep(n) THEN @ \cup {n} ELSE @])
          BY <3>3 DEF Filter
        <4>2. file' = file /\ save[s].step = "filter"
          BY <3>3 DEF Filter, In, disk
        <4> QED
          BY <1>1, <4>1, <4>2 DEF Go, Saves
      <3> QED
        BY <1>7, <3>1, <3>2, <3>3
    <2> QED
      BY <1>2, <1>3, <2>1 DEF WipeInv, KnownOrExpired, EmptyIsTrue
  <1>8. CASE Build(s)
    <2>1. file' = file /\ save'[s].snap \subseteq cache /\ save'[s].step = "create"
      BY <1>1, <1>8 DEF Build, Go, NoSave, disk
    <2> QED
      BY <1>2, <1>3, <2>1 DEF WipeInv, KnownOrExpired, EmptyIsTrue
  <1>9. CASE CreateTemp(s)
    <2>1. /\ file' = file /\ save'[s].snap = save[s].snap
          /\ save[s].snap = {} => cache = {}
      BY <1>1, <1>9 DEF CreateTemp, Go, Saves
    <2> QED
      BY <1>2, <1>3, <2>1 DEF WipeInv, KnownOrExpired, EmptyIsTrue
  <1>10. CASE WriteTemp(s) \/ SyncTemp(s)
    <2>1. /\ file' = file /\ save'[s].snap = save[s].snap
          /\ save[s].step \in {"write", "sync"}
      BY <1>1, <1>10 DEF WriteTemp, SyncTemp, In, Go, Saves
    <2> QED
      BY <1>2, <1>3, <2>1 DEF WipeInv, KnownOrExpired, EmptyIsTrue
  <1>11. CASE Rename(s)
    <2>1. file'.snap = save[s].snap /\ save'[s].snap = {} /\ save'[s].step = "idle"
      BY <1>1, <1>5, <1>11 DEF Rename, Go
    <2> QED
      BY <1>2, <1>3, <1>4, <2>1 DEF WipeInv, KnownOrExpired, EmptyIsTrue
  <1> QED
    BY <1>6, <1>7, <1>8, <1>9, <1>10, <1>11 DEF Save

LEMMA WipeStep == PersistInv /\ FinalWaits /\ WipeInv /\ [Next]_vars => WipeInv'
  <1> SUFFICES ASSUME PersistInv, FinalWaits, WipeInv, [Next]_vars PROVE WipeInv'
    OBVIOUS
  <1>1. save \in [Savers -> Saves] /\ "final" \in Savers /\ "ticker" \in Savers
    BY DEF PersistInv, Shapes, Savers
  <1>2. CASE Running
    BY <1>2, SaveWipe DEF Running
  <1>3. CASE PersistTick \/ Stop
    <2>1. PICK s \in Savers : Go(s, [NoSave EXCEPT !.step = "check"])
      BY <1>1, <1>3 DEF PersistTick, Stop
    <2>2. /\ save'[s].snap = {} /\ save'[s].step = "check"
          /\ \A r \in Savers \ {s} : save'[r] = save[r]
      BY <1>1, <2>1 DEF Go, NoSave
    <2>3. /\ cache' = cache /\ expired' = expired /\ file' = file
          /\ daemon' = "running" => daemon = "running"
      BY <1>3 DEF PersistTick, Stop, disk
    <2> QED
      BY <2>2, <2>3 DEF WipeInv, KnownOrExpired, EmptyIsTrue
  <1>4. CASE Restart
    <2>1. file'.snap = file.snap /\ cache' = file.snap \ expired /\ expired' = expired
      BY <1>4 DEF Restart, PersistInv, SyncedFirst, Shapes
    <2>2. \A s \in Savers : save'[s].snap = {} /\ save'[s].step = "idle"
      BY <1>4 DEF Restart, NoSave
    <2> QED
      BY <2>1, <2>2 DEF WipeInv, KnownOrExpired, EmptyIsTrue
  <1> QED
    BY <1>2, <1>3, <1>4, OthersWipe DEF Next, PersistInv

(* The file changes by a rename alone; a restart changes its state at most.  *)
LEMMA OnlyRename ==
  ASSUME PersistInv, [Next]_vars, file'.snap # file.snap
  PROVE  \E s \in Savers : Rename(s)
  <1>1. CASE Running
    BY <1>1 DEF Running, Save, CheckDirty, ClearDirty, ListKnownDomains, Filter, Build, Refuse, CreateTemp,
               WriteTemp, SyncTemp, FileFault, disk
  <1>2. CASE Restart
    BY <1>2 DEF Restart, PersistInv, Shapes
  <1>3. CASE ~Running /\ ~Restart
    BY <1>3 DEF Next, DnsAnswer, Handling, DnsStore, DnsMark, Expire, cleanupRecords, EditRequest, Editing,
                EditLock, EditSync, PersistTick, Flip, Stop, TearDown, Exit, vars, disk
  <1> QED
    BY <1>1, <1>2, <1>3

(* NotWiped: while the daemon runs, however the routing is switched, the     *)
(* names expire and the saves fail, a snapshot with names is replaced by an  *)
(* empty one only when none of its names is valid any more (persist.go:190). *)
THEOREM SnapshotIsNotWiped == Spec => NotWiped
  <1>1. Init => WipeInv
    BY InitWipe
  <1>2. PersistInv /\ FinalWaits /\ WipeInv /\ [Next]_vars => WipeInv'
    BY WipeStep
  <1>3. PersistInv /\ FinalWaits /\ WipeInv /\ [Next]_vars =>
          [daemon = "running" /\ file.snap # {} /\ file'.snap = {} => file.snap \cap cache \subseteq expired]_vars
    <2> SUFFICES ASSUME PersistInv, FinalWaits, WipeInv, [Next]_vars,
                        daemon = "running", file.snap # {}, file'.snap = {}
                 PROVE  file.snap \cap cache \subseteq expired
      OBVIOUS
    <2>1. PICK s \in Savers : Rename(s)
      BY OnlyRename
    <2>2. save[s].step = "rename" /\ save[s].snap = {}
      BY <2>1 DEF Rename, In
    <2> QED
      BY <2>2 DEF WipeInv, EmptyIsTrue
  <1> QED
    BY <1>1, <1>2, <1>3, PersistInductive, PTL DEF Spec, NotWiped

================================================================================
