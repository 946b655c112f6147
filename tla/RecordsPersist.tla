---------------------------- MODULE RecordsPersist ----------------------------
(***************************************************************************)
(* The snapshot of the records cache on flash (recordsCache/persist.go) and *)
(* its place in the life of the daemon (start.go): the ticker that saves    *)
(* every five minutes, the last save of a clean stop, loading at the start, *)
(* a failing disk, a killed process and a power cut.                        *)
(*                                                                          *)
(* The cache is the set of names it knows.  The two RWMutexes, Records.     *)
(* locker and cfgMu, are modelled with Go's rule that a waiting writer      *)
(* blocks new readers; a section that only reads is one step.               *)
(***************************************************************************)
EXTENDS Naturals, FiniteSets

CONSTANTS
  Names,
  Matched,      \* the names the rules match while the groups are up
  Cname,        \* [name -> the name it is an alias of, or None]
  Stops,        \* whether the daemon may be stopped
  Flips,        \* whether the user may switch routing off and on
  Watched,      \* the names a clean stop is asked to account for
  MaxFaults,    \* bound: file operations that fail
  MaxCrashes,   \* bound: kills and power cuts
  None

Savers == {"ticker", "final"}

ASSUME NamesAssumption ==
  /\ Matched \subseteq Names /\ Watched \subseteq Names
  /\ None \notin Names \cup {"partial", "written", "synced"}
  /\ Cname \in [Names -> Names \cup {None}]
ASSUME BoundAssumption ==
  Stops \in BOOLEAN /\ Flips \in BOOLEAN /\ MaxFaults \in Nat /\ MaxCrashes \in Nat

VARIABLES
  cache,      \* the names in Records.addresses and Records.aliases
  expired,    \* the names whose records have run out
  dirty,      \* Records.dirty
  locker,     \* Records.locker: [writer, waiting]
  cfgMu,      \* App.cfgMu: [writer, waiting]
  save,       \* where each Save is: [step, todo, want, snap]
  dns,        \* what the DNS handler does: [step, name]
  groupsUp,   \* whether searchDomain finds the groups
  daemon,     \* "running", "stopping", "teardown" or "gone"
  file,       \* the snapshot: [snap, state]
  tmp,        \* the temporary file of each Save: its state or None
  faults, crashes,
  atStop      \* the watched names a clean stop found in the cache

mutexes == <<locker, cfgMu>>
disk == <<file, tmp>>
counters == <<faults, crashes>>
vars == <<cache, expired, dirty, locker, cfgMu, save, dns, groupsUp, daemon, file, tmp,
          faults, crashes, atStop>>

--------------------------------------------------------------------------------
(* sync.RWMutex *)

Free == [writer |-> None, waiting |-> {}]

CanRLock(m) == m.writer = None /\ m.waiting = {}
CanLock(m, p) == p \in m.waiting /\ m.writer = None

Request(m, p) == [m EXCEPT !.waiting = @ \cup {p}]
Locked(m, p)  == [m EXCEPT !.waiting = @ \ {p}, !.writer = p]
Unlocked(m)   == [m EXCEPT !.writer = None]

--------------------------------------------------------------------------------
(* Filling and cleaning the cache *)

Alive == daemon # "gone"

(* Mutant: SnapshotFiltered keeps the read lock while it calls keep. *)
CacheReadersWhileFiltering == {s \in DOMAIN save : save[s].step = "filter"}

(* The goroutines that hold Records.locker for reading from one step to the  *)
(* next: SnapshotFiltered releases it before it calls keep.                  *)
CacheReaders == {}

(* AddAddress and AddAlias: a name that is resolved for the first time. *)
DnsAnswer ==
  /\ Alive /\ dns.step = "idle"
  /\ \E n \in Names \ (cache \cup expired) : dns' = [step |-> "lock", name |-> n]
  /\ locker' = Request(locker, "dns")
  /\ UNCHANGED <<cache, expired, dirty, cfgMu, save, groupsUp, daemon, disk, counters, atStop>>

DnsStore ==
  /\ dns.step = "lock" /\ CanLock(locker, "dns") /\ CacheReaders = {}
  /\ locker' = Locked(locker, "dns")
  /\ cache' = cache \cup {dns.name}
  /\ dns' = [dns EXCEPT !.step = "mark"]
  /\ UNCHANGED <<expired, dirty, cfgMu, save, groupsUp, daemon, disk, counters, atStop>>

DnsMark ==
  /\ dns.step = "mark"
  /\ dirty' = TRUE
  /\ locker' = Unlocked(locker)
  /\ dns' = [step |-> "idle", name |-> None]
  /\ UNCHANGED <<cache, expired, cfgMu, save, groupsUp, daemon, disk, counters, atStop>>

(* A record runs out; cleanupRecords removes it and leaves dirty alone. *)
Expire ==
  /\ \E n \in cache \ expired : expired' = expired \cup {n}
  /\ UNCHANGED <<cache, dirty, mutexes, save, dns, groupsUp, daemon, disk, counters, atStop>>

cleanupRecords ==
  /\ Alive /\ CanRLock(locker)
  /\ cache \cap expired # {}
  /\ cache' = cache \ expired
  /\ UNCHANGED <<expired, dirty, mutexes, save, dns, groupsUp, daemon, disk, counters, atStop>>

(* ImportConfig: under cfgMu it synchronises the groups with the cache. *)
EditRequest ==
  /\ Alive /\ cfgMu = Free
  /\ cfgMu' = Request(cfgMu, "edit")
  /\ UNCHANGED <<cache, expired, dirty, locker, save, dns, groupsUp, daemon, disk, counters, atStop>>

EditLock ==
  /\ CanLock(cfgMu, "edit")
  /\ cfgMu' = Locked(cfgMu, "edit")
  /\ UNCHANGED <<cache, expired, dirty, locker, save, dns, groupsUp, daemon, disk, counters, atStop>>

EditSync ==
  /\ cfgMu.writer = "edit" /\ CanRLock(locker)
  /\ cfgMu' = Unlocked(cfgMu)
  /\ UNCHANGED <<cache, expired, dirty, locker, save, dns, groupsUp, daemon, disk, counters, atStop>>

--------------------------------------------------------------------------------
(* Save *)

NoSave == [step |-> "idle", todo |-> {}, want |-> {}, snap |-> {}]
In(s, step) == save[s].step = step
Go(s, v) == save' = [save EXCEPT ![s] = v]

(* isPersistableDomain *)
keep(name) == groupsUp /\ name \in Matched

(* The names of a CNAME chain, as far as the cache knows it. *)
Chain(name) ==
  LET reach[k \in 0 .. Cardinality(Names)] ==
        IF k = 0 THEN {name}
        ELSE reach[k - 1] \cup {Cname[n] : n \in {m \in reach[k - 1] \cap cache : Cname[m] # None}}
  IN  reach[Cardinality(Names)]

WithChains(S) == UNION {Chain(n) : n \in S}

CheckDirty(s) ==
  /\ In(s, "check")
  /\ Go(s, IF dirty THEN [NoSave EXCEPT !.step = "clear"] ELSE NoSave)
  /\ UNCHANGED <<cache, expired, dirty, mutexes, dns, groupsUp, daemon, disk, counters, atStop>>

ClearDirty(s) ==
  /\ In(s, "clear")
  /\ dirty' = FALSE
  /\ Go(s, [NoSave EXCEPT !.step = "list"])
  /\ UNCHANGED <<cache, expired, mutexes, dns, groupsUp, daemon, disk, counters, atStop>>

ListKnownDomains(s) ==
  /\ In(s, "list") /\ CanRLock(locker)
  /\ Go(s, [save[s] EXCEPT !.step = "filter", !.todo = cache])
  /\ UNCHANGED <<cache, expired, dirty, mutexes, dns, groupsUp, daemon, disk, counters, atStop>>

(* keep is called for one name after the other, with no lock of the cache;   *)
(* it takes cfgMu for reading.                                               *)
Filter(s) ==
  /\ In(s, "filter") /\ CanRLock(cfgMu)
  /\ IF save[s].todo = {} THEN Go(s, [save[s] EXCEPT !.step = "build"])
     ELSE \E n \in save[s].todo :
            Go(s, [save[s] EXCEPT !.todo = @ \ {n},
                                  !.want = IF keep(n) THEN @ \cup {n} ELSE @])
  /\ UNCHANGED <<cache, expired, dirty, mutexes, dns, groupsUp, daemon, disk, counters, atStop>>

Build(s) ==
  /\ In(s, "build") /\ CanRLock(locker)
  /\ Go(s, [NoSave EXCEPT !.step = "create", !.snap = WithChains(save[s].want) \cap cache])
  /\ UNCHANGED <<cache, expired, dirty, mutexes, dns, groupsUp, daemon, disk, counters, atStop>>

(* Mutant: the temporary file of a failed save is left behind. *)
GiveUpLeavesTemp(s) ==
  /\ dirty' = TRUE
  /\ Go(s, NoSave)
  /\ UNCHANGED tmp

(* An empty snapshot of a cache that is not empty is refused; a file         *)
(* operation that fails gives up; both leave the cache dirty.                *)
GiveUp(s) ==
  /\ dirty' = TRUE
  /\ Go(s, NoSave)
  /\ tmp' = [tmp EXCEPT ![s] = None]

Refuse(s) ==
  /\ In(s, "create") /\ CanRLock(locker)
  /\ save[s].snap = {} /\ cache # {}
  /\ GiveUp(s)
  /\ UNCHANGED <<cache, expired, mutexes, dns, groupsUp, daemon, file, counters, atStop>>

(* Mutant: an empty snapshot is written like any other. *)
CreateTempAlways(s) ==
  /\ In(s, "create")
  /\ tmp' = [tmp EXCEPT ![s] = "partial"]
  /\ Go(s, [save[s] EXCEPT !.step = "write"])
  /\ UNCHANGED <<cache, expired, dirty, mutexes, dns, groupsUp, daemon, file, counters, atStop>>

CreateTemp(s) ==
  /\ In(s, "create") /\ CanRLock(locker)
  /\ save[s].snap # {} \/ cache = {}
  /\ tmp' = [tmp EXCEPT ![s] = "partial"]
  /\ Go(s, [save[s] EXCEPT !.step = "write"])
  /\ UNCHANGED <<cache, expired, dirty, mutexes, dns, groupsUp, daemon, file, counters, atStop>>

(* Mutant: the temporary file is renamed without a sync. *)
WriteTempUnsynced(s) ==
  /\ In(s, "write")
  /\ tmp' = [tmp EXCEPT ![s] = "written"]
  /\ Go(s, [save[s] EXCEPT !.step = "rename"])
  /\ UNCHANGED <<cache, expired, dirty, mutexes, dns, groupsUp, daemon, file, counters, atStop>>

WriteTemp(s) ==
  /\ In(s, "write")
  /\ tmp' = [tmp EXCEPT ![s] = "written"]
  /\ Go(s, [save[s] EXCEPT !.step = "sync"])
  /\ UNCHANGED <<cache, expired, dirty, mutexes, dns, groupsUp, daemon, file, counters, atStop>>

SyncTemp(s) ==
  /\ In(s, "sync")
  /\ tmp' = [tmp EXCEPT ![s] = "synced"]
  /\ Go(s, [save[s] EXCEPT !.step = "rename"])
  /\ UNCHANGED <<cache, expired, dirty, mutexes, dns, groupsUp, daemon, file, counters, atStop>>

Rename(s) ==
  /\ In(s, "rename")
  /\ file' = [snap |-> save[s].snap, state |-> tmp[s]]
  /\ tmp' = [tmp EXCEPT ![s] = None]
  /\ Go(s, NoSave)
  /\ UNCHANGED <<cache, expired, dirty, mutexes, dns, groupsUp, daemon, counters, atStop>>

FileFault(s) ==
  /\ save[s].step \in {"create", "write", "sync", "rename"}
  /\ faults < MaxFaults /\ faults' = faults + 1
  /\ GiveUp(s)
  /\ UNCHANGED <<cache, expired, mutexes, dns, groupsUp, daemon, file, crashes, atStop>>

Save(s) ==
  \/ CheckDirty(s) \/ ClearDirty(s) \/ ListKnownDomains(s) \/ Filter(s) \/ Build(s)
  \/ Refuse(s) \/ CreateTemp(s) \/ WriteTemp(s) \/ SyncTemp(s) \/ Rename(s)

--------------------------------------------------------------------------------
(* The daemon *)

(* StartPersist runs under the context of the process: a listener's error    *)
(* does not end it, and on a signal a tick that is due may win the select.   *)
PersistTick ==
  /\ Alive /\ In("ticker", "idle")
  /\ Go("ticker", [NoSave EXCEPT !.step = "check"])
  /\ UNCHANGED <<cache, expired, dirty, mutexes, dns, groupsUp, daemon, disk, counters, atStop>>

Flip ==
  /\ Flips /\ daemon = "running"
  /\ groupsUp' = ~groupsUp
  /\ UNCHANGED <<cache, expired, dirty, mutexes, save, dns, daemon, disk, counters, atStop>>

(* The deferred calls of Start, last one first: the final Save, then the     *)
(* teardown of the groups, then the process ends.                            *)
Stop ==
  /\ Stops /\ daemon = "running"
  /\ daemon' = "stopping"
  /\ Go("final", [NoSave EXCEPT !.step = "check"])
  /\ LET known == cache \ {dns.name}
     IN  atStop' = IF groupsUp THEN Watched \cap WithChains(known \cap Matched) \cap known ELSE {}
  /\ UNCHANGED <<cache, expired, dirty, mutexes, dns, groupsUp, disk, counters>>

TearDown ==
  /\ daemon = "stopping" /\ In("final", "idle")
  /\ daemon' = "teardown"
  /\ groupsUp' = FALSE
  /\ UNCHANGED <<cache, expired, dirty, mutexes, save, dns, disk, counters, atStop>>

Exit ==
  /\ daemon = "teardown"
  /\ daemon' = "gone"
  /\ UNCHANGED <<cache, expired, dirty, mutexes, save, dns, groupsUp, disk, counters, atStop>>

(* The process is killed, the power is cut or the user starts the daemon     *)
(* again: Load removes the temporary files and takes what has not run out.   *)
(* A power cut may tear a file whose data was never synced.                  *)
Restart ==
  /\ crashes < MaxCrashes /\ crashes' = crashes + 1
  /\ \E state \in {file.state} \cup (IF file.state = "synced" THEN {} ELSE {"torn"}) :
       /\ file' = [file EXCEPT !.state = state]
       /\ cache' = IF state = "torn" THEN {} ELSE file.snap \ expired
  /\ dirty' = FALSE
  /\ locker' = Free /\ cfgMu' = Free
  /\ save' = [s \in Savers |-> NoSave]
  /\ tmp' = [s \in Savers |-> None]
  /\ dns' = [step |-> "idle", name |-> None]
  /\ groupsUp' = TRUE /\ daemon' = "running"
  /\ atStop' = {}
  /\ UNCHANGED <<expired, faults>>

--------------------------------------------------------------------------------
Init ==
  /\ cache = {} /\ expired = {} /\ dirty = FALSE
  /\ locker = Free /\ cfgMu = Free
  /\ save = [s \in Savers |-> NoSave]
  /\ dns = [step |-> "idle", name |-> None]
  /\ groupsUp = TRUE /\ daemon = "running"
  /\ file = [snap |-> {}, state |-> "synced"]
  /\ tmp = [s \in Savers |-> None]
  /\ faults = 0 /\ crashes = 0
  /\ atStop = {}

Running == Alive /\ \E s \in Savers : Save(s) \/ FileFault(s)
Handling == Alive /\ (DnsStore \/ DnsMark)
Editing == Alive /\ (EditLock \/ EditSync)

Next ==
  \/ DnsAnswer \/ Handling \/ Expire \/ cleanupRecords
  \/ EditRequest \/ Editing
  \/ PersistTick \/ Running
  \/ Flip \/ Stop \/ TearDown \/ Exit \/ Restart

Spec == Init /\ [][Next]_vars

(* The goroutines run, the ticker ticks, and locks are granted. *)
LiveSpec ==
  /\ Spec
  /\ WF_vars(PersistTick) /\ WF_vars(Handling) /\ WF_vars(Editing)
  /\ \A s \in Savers :
       /\ WF_vars(Alive /\ Save(s))
       /\ SF_vars(Alive /\ (ListKnownDomains(s) \/ Filter(s) \/ Build(s)))
       /\ SF_vars(Alive /\ (CreateTemp(s) \/ Refuse(s)))

--------------------------------------------------------------------------------
(* Properties *)

(* Every variable stays in its type, and a lock has one writer at most. *)
TypeOK ==
  /\ cache \subseteq Names /\ expired \subseteq Names
  /\ dirty \in BOOLEAN /\ groupsUp \in BOOLEAN
  /\ locker.writer \in {None, "dns"} /\ cfgMu.writer \in {None, "edit"}
  /\ \A s \in Savers : save[s].want \cup save[s].snap \cup save[s].todo \subseteq Names
  /\ \A s \in Savers : tmp[s] # None <=> save[s].step \in {"write", "sync", "rename"}
  /\ file.snap \subseteq Names /\ file.state \in {"written", "synced", "torn"}
  /\ daemon \in {"running", "stopping", "teardown", "gone"}

(* However the process dies, the snapshot that the next start reads is a     *)
(* whole one (tmp, sync, rename).                                            *)
FileIsWhole == file.state # "torn"

(* Until the daemon stops, a snapshot with names in it is never replaced by   *)
(* an empty one while the cache still knows a valid one of them, not even by *)
(* a save that runs while the groups are down (persist.go:190).              *)
NotWiped ==
  [][daemon = "running" /\ file.snap # {} /\ file'.snap = {} => file.snap \cap cache \subseteq expired]_vars

(* Every valid name the rules match reaches the disk if the daemon goes on   *)
(* running with the routing up: the flag is not lost, and the saver, the     *)
(* editor and the DNS handler do not wait on one another for ever            *)
(* (persist.go:56).                                                          *)
AnswersReachDisk ==
  \A n \in Matched : n \in cache ~>
    \/ n \in file.snap \/ n \in expired \/ n \notin cache
    \/ ~groupsUp \/ daemon # "running"

(* A name that is on disk, valid and still known stays on disk for as long   *)
(* as the rules match it: a save never trades a full snapshot for part of it.*)
NothingDropped ==
  [][\A n \in file.snap \cap Matched : n \in cache \ expired => n \in file'.snap]_vars

(* After a clean stop the snapshot holds what the cache held when it began:  *)
(* the final Save writes it (start.go:268, persist.go:302).                  *)
CleanStopSaves == daemon = "gone" => atStop \ expired \subseteq file.snap
================================================================================
