# MagiTrickle: TLA+ models and proofs

MagiTrickle is a daemon for routers (Keenetic, OpenWrt). It stands between the clients and their DNS server,
watches the answers go by, and when a name matches one of the user's rules it puts the addresses into the ipset of
the rule's group; iptables marks packets to those addresses and the group's routing table sends them through the
chosen interface. This directory holds TLA+ modules of the Go daemon in `src/src/backend`, the TLC configurations
that check them on small instances, and proofs of the main theorems for every value of the constants.

Source lines below are given as `file:line`, relative to `src/src/backend`.

Contents: [1 The system](#1-the-system) · [2 What is hard](#2-what-is-hard) · [3 The modules](#3-the-modules) ·
[4 The runs](#4-the-runs) · [5 Fairness](#5-fairness) · [6 The proofs](#6-the-proofs) ·
[7 Findings](#7-findings) · [8 Not modelled, and the plan](#8-not-modelled-and-the-plan)

How to run, from this directory:

    tlc -workers 2 -config committer_modes.cfg MCCommitter
    tlapm NetfilterCommitterProofs.tla

## 1 The system

### 1.1 Inventory

| component | code | its state | its operations | correct when |
|---|---|---|---|---|
| netfilter committer | `netfilter_committer.go`, `utils/iptables/commit-retry.go`, `api/v1/handlers.go` (hook) | channels `req`, `wake`, `cmds`; mode, latch, reconcile timer | `request` (from the firmware's netfilter.d hook), `setMode`, `stop`, the pass over IPv4 and IPv6 | rules the firmware removes come back; no pass runs while the lifecycle takes rules down; nobody waits forever |
| routing lifecycle | `start.go`, `app.go` | `routingActive`, `config.Enabled`, `shuttingDown`, the groups | `Start`, `SetEnabled`, `SetDirectPriority`, bring-up, rollback, teardown, shutdown | the committer follows the routing; a failed step is rolled back; a routing that is down leaves nothing in the kernel |
| group editing API | `api/v1/handlers.go`, `app.go`, `app_config_lock.go` | App.groups under `cfgMu` | Create/Put/DeleteGroup(s), Create/Put/DeleteRule(s), import, SaveConfig | every group of the list is up when the routing is; the trie follows the rules; no deadlock |
| group | `group.go`, `models/rule.go` | `enabled`, rules, static hosts, its ipset and chain | `Enable`, `Disable`, `DisableRules`, `DestroySets`, `Sync`, `AddIPv4Subnet`, `ReassertStaticSubnets` | the ipset holds what the rules ask for, no longer than it should |
| DNS answers | `dns.go`, `dns_https.go`, `ttl.go` | none of its own | `dnsResponseHook`, `handleMessage`, A/AAAA/CNAME/HTTPS records, the client TTL cap | what a client was told is routed for as long as the client may use it |
| records cache | `utils/recordsCache/records.go` | addresses, aliases, reverse aliases, `dirty` | `AddAddress`, `AddAlias`, `GetAddresses`, `GetAliases`, cleanup | aliases never loop a reader; only what expired is removed |
| records snapshot | `utils/recordsCache/persist.go`, `start.go` | the file on flash, temporary files | `Save`, `Load`, the five-minute ticker, the last save of a stop | the file is whole; no answer is lost; no deadlock with `cfgMu` |
| name lookup | `app.go` (`RebuildTrie`, `searchDomain`), `utils/trie` | `domainTrie` | rebuild, search | lookup follows the rules in force, first group wins |
| iptables model | `utils/iptables/*.go` | the rules wanted, a batch flag, the kernel's tables | `Commit`, `CommitContext`, override and patch chains | the kernel ends up with the rules wanted, in order |
| ipset, link and tproxy chains, netfilter helper, port remap, cleaner | `utils/netfilterTools/*.go` | kernel sets, chains, marks, routing tables, ip rules | create, destroy, add, list; enable, disable; hooks on links and addresses | no chain refers to a destroyed set; marks are unique; a batch commits once |
| client bypass | `utils/netfilterTools/client-routing.go`, `app.go` | an active and a shadow ipset per family | `SetClientRouting`, `UpdateClientBypass` | the rules never see a half-filled set; a failure is rolled back |
| configuration files | `config.go`, `cmd/magitrickled/main.go` | `config.yaml` | Load, Save, Import, SIGHUP | the file on disk is the configuration in force; a save never deadlocks with an edit |
| subscriptions | `subscriptions.go`, `subscription_runtime.go`, `utils/subscriptions`, `api/v1/subscriptions.go` | subscription list, runtime groups | due loop, fetch across the lock, rebuild | a fetch applies to the subscription it was made for |
| DNS proxy and pool | `utils/dnsMITMProxy` | listeners, semaphore, a pool per upstream | admit, hook, exchange, reply, fallback; `Get`, `Put`, `Close` | a request gets its own answer; every slot and every socket comes back; a stop closes all |
| lookup API, capture, warm-up, auth, updater, diagnostics, frontend, packaging | the rest | | | see `PROJECT.json` |

### 1.2 How the parts interact

    client -> DNS proxy -> handleMessage -> records cache -> searchDomain(trie, rules) -> Group.AddIPv4Subnet -> ipset
                                                |                 ^                             ^
              snapshot (ticker, stop) <---------+                 | cfgMu                       | Sync
                                                API handlers -----+-----------------------------+
                                                     | routingMutationMu
     netfilter.d hook -> request -> committer        v
                                      ^    lifecycle (lifecycleMu): bring-up, teardown -> iptables, ipset
                                      +--- setMode, stop

Four locks order these: `lifecycleMu` (one of Start's section, SetEnabled, SetDirectPriority, shutdown), `cfgMu`
(an RWMutex: one editing handler, or any number of lookups), `routingMutationMu` (whoever changes which groups are
up), and `commitMu`/`IPTables.sync` (one commit). Beside them the committer is a goroutine that answers `setMode`
over unbuffered channels, and `Records.locker` (RWMutex) guards the cache.

## 2 What is hard

`PROJECT.json` lists the hazards one by one with the line where each bites. They come in seven families.

1. *A mode change against an event in flight.* The committer's event may be queued in `req`, latched, waiting on the
   reconcile timer or in the middle of its retries when the lifecycle pauses it. Teardown is right only if none of
   the four can put rules back (`netfilter_committer.go:160-191`).
2. *Decisions read under one lock and used under another.* `routingActive` before `routingMutationMu`
   (`app.go:333`), the group found under `cfgMu` and used after it (`dns.go:290`), the trie built from rules that an
   edit is changing (`app.go:554`).
3. *Failure in the middle.* A commit that restores one table and refuses the next, a bring-up that fails in the third
   group, a switch of direct priority whose rollback fails too, a snapshot whose write fails after `dirty` is cleared.
4. *Clocks that must agree.* What a client remembers, the cache's deadline, the ipset entry's timeout and the
   kernel's convention that a timeout of 0 means for ever.
5. *Many calls that must look like one.* Enabling a group is some thirty calls in memory and a dozen netlink requests;
   the committer commits between any two of them, links go up and down, and the daemon may be killed
   (`ipset-to-link.go:561-615`).
6. *Resources that are handed on.* A UDP socket goes from one request to the next, a slot of the semaphore back to the
   listener, a mark from a group that is gone to a new one (`mitm.go:158`, `ipset-to-link.go:528`).
7. *Crash and stop.* Killed between CreateTemp and rename, a power cut before the data is synced, the last save of a
   stop meeting the ticker's.

## 3 The modules

    RepairContract                         what the lifecycle may rely on
        ^ implemented by
    NetfilterCommitter <- CommitterContract <- NetfilterCommitterProofs
        ^ EXTENDS      <- MCCommitter
    RoutingLifecycle   <- MCLifecycle, RoutingLifecycleProofs
                                           lifecycle, editing API and the committer composed
    DnsRouting         <- MCDns, DnsRoutingProofs
                                           answers, cache, lookup, ipset, edits, bring-up, the clock
    RecordsPersist     <- MCPersist, RecordsPersistProofs
    DnsProxy           <- MCProxy, DnsProxyProofs
                                           listeners, requests, upstream sockets and their pools
    IPTablesChains     <- MCChains
                                           chains and jumps of groups, call by call, against commits
    RoutingTables      <- MCTables, RoutingTablesProofs
                                           marks, rules and routes of groups against links and addresses
    ConfigStore        <- MCConfig, ConfigStoreProofs
                                           config.yaml, the sets of bypassed clients, SIGHUP

`PROJECT.json` maps every definition to its lines. What follows is how to read each module.

### NetfilterCommitter

The worker of `netfilter_committer.go`, whole: each `select` case is an action (`SelectReq`, `SelectReconcile`,
`SelectCmd`, `SelectDone`), and a pass is split where the kernel can change under it: `Snapshot` (iptables-save and
the delta), `Restore` (iptables-restore) and `Pause` (between attempts), per family and attempt. `req` and `wake` are
one-slot channels, hence Booleans; `ctl` is the `setMode` call in progress. `FirmwareRewrite` is the Keenetic ndm
rewriting a table, which owes one run of the hook (`owed`); `Handler` is the HTTP handler of the hook calling
`request`. `kernel[f]` is the set of our chains that family has, `want` the set the daemon asks for: a chain stands
for all its rules, because a commit works by difference of whole chains and a rewrite removes whole tables.
`SaveFails`, `RestoreRefused` and `Panic` are the failures; a restore that fails may have applied any part of its
plan, since iptables-restore commits table by table. `asked` is the only history variable.

### RepairContract and CommitterContract

The promise of `setMode` and `stop` with the channels taken out: two variables, `told` and `repairing`.
`CommitterContract` gives the refinement mapping (`told <- Told`, `repairing <- InPass`); `ImplementsContract` is the
abstract specification as a property of the committer.

### RoutingLifecycle

Extends the committer with its only caller. `op` names the holder of `lifecycleMu` and `pc` where it is; `Mutating`
says when it also holds `routingMutationMu`; `api` is the editing handler that holds `cfgMu`; `Deferred` is the
batch, during which other people's commits are swallowed. Bring-up is `Up`, `DnsUp`, `GroupsUp`, `BatchUp`; teardown
is `Down`, `RulesDown`, `BatchDown`, `SetsDown`, `DnsDown`, in the code's order; a failed bring-up goes from `Rollback`
through the same teardown. `Answered`, `Switch`, `Release`, `Save`, `Resume` and `Exit` are what SetEnabled and
SetDirectPriority do around it, with `RollBackPriority` for a switch that has failed. `placed[g]` is the mode under
which a group's jump rule was created. Here `want` and `kernel` get their values from the groups, and the worker
may run between any two steps.

Abstractions: a group's ipset exists or not (its entries belong to DnsRouting); Sync and RebuildTrie are folded into
`BatchUp`; a commit of the lifecycle or of a handler is one step (what happens between its iptables-save and its
iptables-restore is IPTablesChains' matter, and the worker's passes are split); PutGroups and ImportConfig are sequences of the
single-group steps; waiting for a mutex is a guard, so with bounded calls starvation is not in question.

### DnsRouting

The whole path from an answer to an ipset entry. A handler is a sequence of lock sections, one action each:
`StoreRecord`, `ReadAddresses`, `ReadAliases`, `SearchName`, `AddSubnet` (one address), `Deliver`. An edit holds
`cfgMu` from `BeginEdit` to its last `EditSync`: `EditDisable`, `EditMutate`, `EditEnable` (PutGroup), `EditRebuild`
(subscriptions), `EditTrie`, `EditSync` (one group). Bring-up syncs each group, then reads the rules, then stores the
trie, without `cfgMu`. The operators between them are translations of the pure parts: `GetAddresses` follows aliases
until a name has a valid address (for as many steps as there are names, where the code stops at a name it has seen: no
name of a cycle it would walk has a valid address, so both find nothing), `GetAliases` walks breadth first with siblings in any order, `desiredSubnets`,
`Synced` and `searchDomain` are as in `group.go` and `app.go`. `held` is what clients remember, by the capped TTL of
`dns.go`.

Abstractions: a rule list is the names its domain rules match, the names its regular expressions match, and its
static addresses (exactly one layer of the trie; which pattern matches which label is not the question). Time moves
in ticks, and an answer, an edit and a bring-up each take less than one: in the daemon they take milliseconds to
seconds, and every entry outlives what the client was told by `AdditionalTTL`. The instances keep
`ClientTTLCap <= AdditionalTTL`, as the defaults do (300 and 86400 seconds, `constant.go:24,54`). IPv4 only: AAAA is dropped by default. `Sync`
of one group is atomic under `g.locker`. The saturation of uint32 and the seven-day cap on deadlines are left to a
module on `ttl.go`.

### RecordsPersist

`Save` step by step, for the ticker and for the final call of a stop; the DNS handler storing an answer in two
steps (the record, then `dirty`, under one lock); the two RWMutexes with Go's rule that a waiting writer blocks new
readers, because a `Save` that held the cache's lock while it asks `keep` for `cfgMu` would deadlock with ImportConfig
(`persist.go:56`). The file has a content and a state: `written` data may be `torn` by a power cut, `synced` data not.
`Restart` is a kill, a power cut or the next start: Load removes temporary files and what has expired.
A name stands for its records and is resolved once. StartPersist runs under the context of the process
(`start.go:87`), so a tick may come during a stop.

### DnsProxy

A request goes through `Arrive`, `Admit` (the semaphore), `Check` (the request hook, with its early answers), `Dial`
or a socket of the pool, `Read`, `Reply`; `Deadline`, `Timeout`, `ExchangeFails` and `DialFails` are its ways to fail,
and the fallback upstream is tried as the code tries it. `asked` and `inbox` are what is under way and in the buffer
of a socket: `Deliver` may come late or twice, also when the socket has gone to somebody else. `ClosePool` runs after
`Cancel` while requests are still out; `Put` and `Get` are one lock section each.

Abstractions: a question is the request that asks it, an answer names the question it answers, and identifiers are
not compared because the code does not; the write of a question and the taking of a socket are one step, as are the
read and `Put` (no lock section of another request distinguishes them); the client's read timeout over TCP is folded
into `Check`.

### IPTablesChains

Every group owns a chain in two or three tables and a jump to it; groups that mark share a preamble, counted in
`refs`. Memory is `chains` (override or deletion, per chain) and `links` (the ordered operations of chainPatch), the
kernel is `[chains, jumps]` per table. A task is where its group stands in `Enable` or `Disable`: the phase, the family,
the chain and the call. `CallsOf` names the calls of a phase in the code's order (`InstallCalls`, `RemoveCalls`,
`ReleaseCalls`), `Edit` does the next one, and commits, batches and the firmware's `Wipe` come in between.

A commit is not atomic. `CommitBegins` (of a task, of the committer's `Pass`, of a batch) keeps in `commit[f]` what
iptables-save has shown (`seen`) and what there is to compile (`chains`, `links`); until it restores, edits and wipes go
on. The code compiles chain after chain in the order of a Go map, so an `Edit` meanwhile is either too late for this commit or, in a
chain that is not compiled yet, just in time (`CaughtOrMissed`): a group may have its jump compiled and its chain not,
or the other way round. Rules and jumps are edited beside a commit, under the same read lock; `override` and
`drop` register a chain and wait for it (`iptables.go:58-89`). `CommitSucceeds` applies the difference between `seen` and
what is wanted to the tables as they are then (`Compile`), table by table; `Refuses` says which tables
iptables-restore would not take, and `CommitFails` that any of the others may be done all the same. `Commit` of a task
looks at the batch before it waits for commitMu, as the code does.

Abstractions: what a rule matches
is a name; what a group is is chosen once, in `Init`; a batch only enables or only disables; a failing
`CleanIPTables` ends Start and is left out. Four history variables say what has gone wrong: `refused` (a commit has failed),
`unflushed` (that of a batch has), `raced` (DeleteGroup has taken a group down beside a batch) and `overtaken` (a table was
wiped between iptables-save and iptables-restore of one commit and restored all the same).

### RoutingTables

The same Enable and Disable request by request on the netlink side: `FindMark`, `AddRule`, `AddHole`, `Look`,
`ReadLink`, `DelRoute`, `AddRoute`, then the chains; `DeleteRoutes`, `DeleteRules`, `RemoveChains` for disable, which
is what a failed Enable does too. `mine[g]` is what the group remembers, which is not always what the kernel has. The
interface is the environment: `LinkDown` drops the routes, `LinkUp` and `AddrGained` queue an event that the main loop
takes one at a time and brings to each group under its lock (`Hook`). Any request may be refused: one that makes something
ends the Enable or the hook (`RequestFails`), one that deletes is forgotten and the teardown goes on
(`ipset-to-link.go:340-354`, `507-522`), so that rules and routes stay which nobody remembers. `strays` is a history
variable and names them. `Kill` forgets `mine`; `Start`, `SweepRule` and `SweepTable` are the cleaner, a request at a time, which may be refused or killed too.

Abstractions: one interface; the numbers of marks are their places after `StartIdx`; `LinkDown` leaves the addresses
(what the kernel flushes with IPv6 is `LinkDown` and `AddrLost`); a change of the gateway alone is not reported, as in
the code, which does not subscribe to routes.

### ConfigStore

`memory`, `file` and `sets` are the three places of the configuration. `SetClientRouting` and `Reload` go through
`Fill`, `Swap` and, when one fails, `Unswap` and `DropShadows`, under clientRoutingMu and cfgMu; every caller saves
with `Snapshot` (under cfgMu), `Open` (which truncates) and `Write` (outside every lock); a save that fails makes
SetClientRouting run the update again with what was there (`SaveFails`). A reload goes on with its groups and
subscriptions once the networks are in force (`Import`), and may fail there without taking them back.

Abstractions: everything but the clients is the number of its last edit; `SetupClientBypass` is one step and succeeds
(a failure ends Start); a file cut short is one that does not load, though part of a YAML text may; SIGHUP comes while
the daemon runs.

## 4 The runs

Each run asks one question; `expect` is `pass` unless section 7 lists it. Bounds are constants of the modules.

| run | states | properties | instance, and why it is enough |
|---|---|---|---|
| `committer_modes` | 57 k | `TypeOK` `NoStalePass` `ImplementsContract` `WipeIsRepaired` `CallsReturn` `WipesRemembered` | one chain, both families, two attempts (so a retry and an exhausted budget both occur), both modes the lifecycle asks for, two rewrites (a stale snapshot, and an event during a pause), one fault. The lifecycle never has two setMode calls at once. |
| `lifecycle_faults` | 3.5 M | `LifecycleTypeOK` `CommitterFollowsRouting` `PriorityIsCoherent` `DownMeansClean` `EnableRespectsShutdown` | three calls in any order (there, back and there again for a switch), two faults (the failure and the failure of its rollback), a rewrite by the firmware and a subscription rebuild. |
| `lifecycle_ends` | 185 k | `NoGroupMissed` `CallsEnd` | every kind of edit, one edit in a behaviour, two calls, a fault: every pair of lock holders. With two edits `NoGroupMissed` fails (`finding_missed`). |
| `dns_edits` | 1.6 M | `TypeOK` `ClientsAreRouted` `TrieFollowsRules` | two handlers against two edits of each kind, in one tick: every interleaving of lock sections. A name is moved from one group to a subscription; a self-alias, an HTTPS target and a CNAME alone occur. |
| `dns_clock` | 3.3 M | `ClientsAreRouted` `NothingForever` | four ticks, TTLs 0, 1 and 3 with a maximum of 2, so that a client's TTL, a record, an alias and an entry each run out before and after one another; an edit, and routing switched off and on. |
| `persist_save` | 414 k | `TypeOK` `FileIsWhole` `NotWiped` `AnswersReachDisk` | a matched name and the target of its alias, a stop, routing switched off, a failing file operation and a crash at any step. |
| `proxy_pool` | 292 k | `TypeOK` `SocketHasOneOwner` `AnswerIsOwn` `ProxyDrains` | two UDP requests and a TCP one for two slots, pools of one socket, so that a pool is full, a socket is used again and a listener waits; three sockets in all, one datagram twice, a stop at any moment. |
| `chains_edits` | 488 k | `TypeOK` `JumpsLeadToWholeChains` `OrderHolds` `PassInstallsWhatIsUp` `RepairKeepsOrder` | two groups in three pairs that between them cover every kind of chain (direct and interface, interface and blackhole, remap and tproxy), and what a killed daemon left. In the short courses two enables or disables and one incident at any place of a commit, an edit or a batch (a wipe, a failed command, which also takes a group down again, or the batch itself); in the long ones three enables or disables, so that one is undone and done again while a commit that has read or compiled before restores after. One family: the families never meet but in the count of the preamble, which is per process. |
| `routes_links` | 3.1 M | `TypeOK` `MarksAreOwn` `LeakGuard` `RouteFollowsTunnel` `StartLeavesOnlyStrays` | two groups through one interface, or one to the proxy; both families; a step whose requests are refused. Either three enables or disables (a mark given back and taken again) and three changes of the interface (up, an address, down again), or two of each and two kills: the second may meet the cleaner of the first. Five marks, so that those that refused requests keep busy leave one free. |
| `config_calls` | 416 k | `TypeOK` `BypassIsWhole` `BypassIsAccepted` `CallsEnd` | two callers, three calls of any kind, two lists of networks, both families; two faults (a failure and the failure of its rollback), a kill, a stop and a restart. |

What the properties say, in the order of the hazards:

- `NoStalePass`, `ImplementsContract`, the second half of `CommitterFollowsRouting`: nothing commits while rules are
  being removed, and nothing asked for before the pause is committed after it.
- `WipesRemembered`, `WipeIsRepaired`: rules the firmware removed always have an event, a latch, a pass or the timer
  to bring them back, and come back.
- `CallsReturn`, `CallsEnd` (of the lifecycle, and of ConfigStore): the end of the worker, and no deadlock between the
  locks and the channels.
- `CommitterFollowsRouting`, `DownMeansClean`, `PriorityIsCoherent`, `NoGroupMissed`: after every call, however it
  failed, the routing, the committer, the kernel and the disk agree.
- `ClientsAreRouted`: the promise of the product. While a client may use an address, the address is in the ipset of a
  group that owns one of the names it was asked by. `TrieFollowsRules` and `NothingForever` guard its two sides.
- `FileIsWhole`, `NotWiped`, `AnswersReachDisk`: the snapshot.
- `SocketHasOneOwner`, `AnswerIsOwn`, `ProxyDrains`: sockets and slots of the proxy are never shared, lost or kept.
- `JumpsLeadToWholeChains`, `OrderHolds`, `PassInstallsWhatIsUp`, `RepairKeepsOrder`: whenever a commit restores, whatever
  was edited or wiped since it read the kernel, what is in the kernel makes sense; whenever nobody edits, the next commit
  makes it what the groups want, in the order they had.
- `MarksAreOwn`, `LeakGuard`, `RouteFollowsTunnel`: a marked packet goes through its tunnel or nowhere.
  `StartLeavesOnlyStrays`: of what a killed daemon leaves, the next one misses only what a refused request or the kill of
  a cleaner has cost it.
- `BypassIsWhole`, `BypassIsAccepted`: the clients that are not routed are those of the last call that succeeded.

`DownMeansClean`, `NoGroupMissed` and the second half of `PriorityIsCoherent` speak of states reached without a fault: after a failed commit the code keeps
what it could not remove and reports an error. `NotWiped` speaks of a running daemon: when the final Save and the
ticker's meet during a teardown, the later of two snapshots taken before and after the groups went down may be empty.
`AnswerIsOwn` speaks of a network that has not yet delivered a datagram twice: after that a socket of the pool is one
answer behind, and no identifier is compared. `BypassIsAccepted` allows one
failure: when the rollback fails too, the families may differ until the next call. It speaks of what was put in force, and a
reload whose import fails has put its networks in force, in memory and in both sets.

The properties of the chains say less than one would like, because a commit is not atomic. `JumpsLeadToWholeChains`: a
chain of the kernel may be half filled while its group is being enabled, when a commit of the committer has
compiled it between two rules; what holds is that its beginning is right (the guard of the bypassed clients stands first and
what is missing is missing at the end, so that a packet returns), and that it is whole once Enable has succeeded, unless the
batch has yet to commit it or could not. `OrderHolds`: direct groups are always above, and the preamble unless
a commit was overtaken by a wipe; then `finding_preamble` shows a group without it. `RepairKeepsOrder` speaks of
commits that succeeded and were not overtaken, and of groups that were not deleted beside a batch (section 7.2): after any
of these the kernel may have another order than memory, and the next wipe brings that of memory.

`CHECK_DEADLOCK FALSE` in every configuration: the counters are bounded, the daemon may be asked for nothing more,
and a stopped daemon stops. That nobody hangs is what the liveness properties say instead.

Every property is shown to have teeth by a mutant: a definition of the model changed the way a plausible bug in that
code would change it (the definitions whose comment begins with "Mutant:"), under which TLC finds the property broken.

## 5 Fairness

- *Committer.* Weak fairness of the worker and of each hook handler: goroutines run. Strong fairness of each `select`
  case: Go picks uniformly among the ready cases, so a case that is ready again and again is taken. The firmware, the
  calls of setMode and stop, and cancellation are never forced.
- *Lifecycle.* Weak fairness of the call that holds `lifecycleMu`, of the handler that holds `cfgMu` and of the
  worker; strong fairness of `SelectCmd` and `SelectDone` as above. New calls and edits are never forced.
- *Snapshot.* The ticker ticks, handlers and editors that have begun go on; each Save is weakly fair, and its steps
  that read under a lock strongly fair: Go's RWMutex lets the readers that wait at a writer's unlock go first.
- *DNS proxy.* Weak fairness of each request that has been admitted (its own steps or its deadline, whichever comes),
  of each listener that has somebody to admit or a cancel to obey, and of `Close`. The dial over TCP, what a client or
  an upstream sends, and the cancel are never forced.
- *Configuration.* Weak fairness of the steps of each call that has begun. A mutex that is free is taken by somebody,
  and calls are bounded, so weak fairness is enough.
- DnsRouting, IPTablesChains and RoutingTables have safety and action properties only: what they say of a quiet state
  holds in every quiet state.

## 6 The proofs

The seven proof modules state their theorems for every value of the constants: any groups, families, gateways, sockets
and callers, and any number of calls, edits, faults and kills. The assumptions are the named ones of the modules, and
TLC evaluates them in every run:

- *Committer and lifecycle*: at least one family and one attempt; subscription groups and first groups are groups.
- *Snapshot*: `None` is not a name nor the state of a file, and the rules match known names.
- *ConfigStore*: the list of families is not empty and names none twice (`NumFamilies` loops in the code are over two
  distinct constants); `None` is not a caller, a list of networks or a filled set.
- *DnsProxy*: UDP and TCP requests are different requests, the semaphore has a slot, `None` is nothing else.
- *RoutingTables*: there are finitely many groups, at least one family, and `OnLink` and `None` are not gateways. A family may be listed twice.
- *DnsRouting*: finitely many names, `routingGroups()` is not empty, `None` is neither a group nor a name, and
  `MaxRecordTTL` is at least 1 (`ttl.go:21`); rule lists are of known names and addresses, and an answer is a sequence of
  at least one A, CNAME or LINK record of known names.

Each safety theorem has the same shape: an inductive invariant, its initial states, its steps (one lemma per action,
or one per group of actions that do the same to the invariant), and the implication.

**NetfilterCommitterProofs** (798 obligations)

- `TypeCorrect`: `TypeOK` with `BudgetLeft`: without knowing that a pause leaves budget for another attempt,
  `attempt + 1` could leave its range.
- `Inductive`: `IInv`, five parts. `PauseIsHonoured` alone is not inductive: the step that begins a pass knows the
  *worker's* mode, while the property speaks of the mode the *caller* was granted. `PassNeedsReady` says that a pass
  runs in ready mode only, `AnswersMatch` ties the caller's mode to the worker's (unless the worker is gone),
  `ModeLocals` keeps latch and timer out of the modes that would replay them, `AskedSincePause` ties every source of a
  pass to a request after the last pause, `Stopped` carries `stop()`.
- `TypesHold`, `PassIsFresh` (`NoStalePass`), `PauseIsSafe` (`PauseIsHonoured`), `PauseIsClean` (`PauseForgets`),
  `StopIsSafe` (`StopIsFinal`) and `CancelSafety` (`NoPassAfterCancel`) follow. The last four need no run of their
  own: the proofs hold for every instance.
- `Refinement`: the committer implements `RepairContract`: the initial states map, each step of the worker and of its
  callers maps to a step of the contract or a stutter (`ContractRun`, `ContractOthers`).
- `NothingForgotten` (`WipesRemembered`): if the lifecycle asks for no mode but `ready`, `NoForgottenWipe`. Its invariant `WipeInv` adds
  `PlanIsDelta`: while iptables-restore runs, either the kernel is still what was saved, or the event of the
  rewrite that changed it is still to come. That is why a restore that *succeeds* on a stale snapshot forgets nothing.

**RoutingLifecycleProofs** (1884 obligations) extends the proofs of the committer: `LifecycleFrame` says what a step of
the lifecycle or of a handler leaves alone of the committer, so that each invariant of the committer is carried over.

- `LifecycleTypeCorrect` (`LifecycleTypeOK`), with `EditsAGroup`: a handler works on a group, not on the DNS remap.
- `CommitterIsInStep` (`CommitterFollowsRouting`), `EnableIsRefused` (`EnableRespectsShutdown`) and
  `LifecycleKeepsContract` (`ImplementsContract`) rest on `LifecycleIInv`. "Between calls the committer repairs exactly
  while the routing is up" says nothing of the twenty places inside a call; `GoingUp`, `GoingDown` and `Switching` say
  for each caller which mode was granted at which place, and with what error; `ShutdownOrder` and `MarkedFirst` that
  `stop()` comes before the shutdown and `routingActive` before the first chain. All hold for any edits and any faults.
- `EveryGroupIsUp` (`NoGroupMissed`) if nobody deletes a group, `PriorityOnDisk` (`PriorityIsSaved`) if no other
  handler saves, `DownLeavesNothing` (`DownMeansClean`) if the only edits are rebuilds and saves, and `PriorityIsOne`
  (`PriorityIsCoherent`) if they are rebuilds. These hypotheses are no convenience of the proof: without each of them the
  property is false, and section 7 shows the behaviour (`finding_missed`, `finding_save`, `finding_add`): one AddGroup
  or one PutGroup, without any fault, is enough to break both of the last two. Calls, faults, firmware rewrites and
  the mode of the committer are unrestricted.

**RecordsPersistProofs** (396 obligations)

- `PersistInductive`: `PersistInv` (types and shapes, `AnswerHasName`, `SyncedFirst`) together with `FinalWaits`.
  `FileIsWhole` is not inductive: a rename moves the state of the temporary file into place, so `SyncedFirst` says
  that whoever is about to rename holds synced data. `FinalWaits` is needed because Stop resets the final Save, which
  must not be in the middle of writing a file.
- `PersistTypeCorrect` (`TypeOK`: a temporary file exists exactly while a Save is between CreateTemp and the rename)
  and `SnapshotIsWhole` (`FileIsWhole`) follow.
- `SnapshotIsNotWiped`, the action property `NotWiped`, rests on `WipeInv`: every name of a snapshot, on disk or on
  its way there, is in the cache or has expired (`KnownOrExpired`), and while the daemon runs and a Save writes an empty
  snapshot, the file holds nothing valid (`EmptyIsTrue`): the check at `persist.go:190` lets it go on only when the cache is
  empty.

**ConfigStoreProofs** (1967 obligations)

- `ConfigIInv`: types; what a task may be at each place (`TasksOK`); `LocksOK`, which says that clientRoutingMu and
  cfgMu are held exactly at the places between where the code takes them and gives them back; `EditsAreCounted`: no
  snapshot, in a task, in memory or on disk, is of more edits than were made; and, for the sets, `SetsAreWhole` and
  `UpdatesOK`, family by family: the families `Fill` has passed have a whole shadow, those `Swap` has passed have the
  new set active and the old one in their shadow. `AcceptedOK` is the heart: while at most one thing has failed, the
  holder of clientRoutingMu is either at a place where nothing has changed but the families it has swapped, whose
  shadows are what was accepted, or at one where everything has. A reload is accepted when the sets are cleared of their
  shadows, not when it returns, so that its import may fail.
- `ConfigTypeCorrect` (`TypeOK`), `BypassStaysWhole` (`BypassIsWhole`), `OneFailureIsUndone` (`BypassIsAccepted`).
- The lemma `StepMoves` states once what any step of a caller leaves alone of the others.

**DnsProxyProofs** (1237 obligations)

- `ProxyIInv`: what a request has at each step (`InStep`), what a listener holds (`Held`), where each open socket is
  (`Pooled`, `Out`, `OutOnce`, `NoneLeaks`, `ClosedIsEmpty`), and what may be under way on it (`ClosedIsSilent`,
  `PoolIsSilent`, `OwnOnly`). `AnswerIsOwn` is not inductive without the last two: a request is right about its answer
  because the socket it took from the pool was silent, and it was put back silent because a request puts back only a
  socket it has read its one answer from.
- `ProxyTypeCorrect` (`TypeOK`), `SocketsAreOwned` (`SocketHasOneOwner`), `AnswersAreOwn` (`AnswerIsOwn`).

**RoutingTablesProofs** (3499 obligations)

- `TablesIInv`: `MineOK` says what a group remembers at each request of an enable and of a disable, and for the loop over
  families what is done for those already passed; `KernelOK` that the kernel has the rules and blackholes it
  remembers; `Apart` that two groups that *claim* a mark claim different ones. A group claims its mark from `FindMark`,
  before the kernel knows of it, until its last rule is gone; `OneLocked` (routingMutationMu) is why nobody looks for a
  mark in between, although a DeleteGroup may run. `RouteIsComing` carries the tunnel: whoever lacks its route has it ahead in
  its own task, in an event that waits, or in the main loop's list.
- `StepKeeps` splits the work: a step made for one group (`StepOK`) touches its own task, memory and mark, and so keeps
  the invariant of the others; what remains is one lemma per request.
- `TablesTypeCorrect` (`TypeOK`), `MarksStayOwn` (`MarksAreOwn`), `PacketsAreGuarded` (`LeakGuard`),
  `TunnelKeepsItsRoute` (`RouteFollowsTunnel`).
- `StartFindsAll` (`StartLeavesOnlyStrays`) rests on `StrayIInv`, which accounts for every rule and route of ours in each
  phase: while the daemon runs, a group remembers it or it is a stray (`RunOK`); when it is down, a table is named by a
  rule or holds strays only (`DownOK`); while the cleaner runs, a rule is on its list or was refused, and a table is noted, or
  has a rule that will note it, or holds strays only (`CleanOK`). Teardown keeps this because it asks for the routes of a
  table before the rule that names it.

**DnsRoutingProofs** (3278 obligations)

- `TypesInv`: the types; what a handler and an edit carry at each step; and `CacheOK`, that no deadline of the cache is more than a
  maximal timeout away. `DnsTypeCorrect` (`TypeOK`) follows; that deadlines of ipset entries stay in range is what
  it takes `CacheOK` for, since a sync gives an entry the deadline of a record.
- `WalkEnds` and `AliasesFound` say what the walks of `GetAddresses` and `GetAliases` find, by the same induction: an address
  with a deadline in the cache, and the name itself first.
- `LookupFollowsRules` (`TrieFollowsRules`), if edits and bring-up do not overlap. `TrieCurrent` says at which places of an
  edit and of a bring-up the trie is the one of the rules, `OffWhileChanged` that an edit that does not rebuild it is
  one of a group that is off.
- `NothingIsForever` (`NothingForever`), under the same hypothesis and `StaticsStay`, that no edit takes an address DNS
  may answer with out of the subnet rules. `PermanentOK` says that what is permanent is static, or about to be removed
  by the sync of its group. Both hypotheses are needed: `finding_overlap`, `finding_bringup` and `finding_static` show what
  happens without them. Nothing is assumed of time, answers, aliases, handlers and rules otherwise.
- `DirectAnswersAreRouted` (`ClientsAreRouted`), for any number of handlers, names, groups, edits and switches, also when
  they overlap, under three hypotheses. `Direct`: an answer is addresses of one name. `CapOK`: a client is told a TTL of
  at most `AdditionalTTL`, as the defaults have it (`constant.go:24`, `constant.go:54`). `EditsOrFlips`: an instance has edits or
  switches of the routing, not both, because of `finding_bringup`. The invariant `RoutedInv` says what makes it true while
  nothing is settled: a group is `Resting` once it has been synced since its rules changed or it came up; an address
  that the cache promises to a client is `Placed`, in the ipset of its owner if that group rests, since a group that
  does not is still to be filled from the cache (`SyncPlaces`, from what `desiredSubnets` reaches); and a handler that has
  found a group but not written to it is `Aimed` at the owner, or an edit has come in between and its sync is ahead.

Model-checked only:

- All properties of IPTablesChains.
- All liveness (`WipeIsRepaired`, `CallsReturn`, `CallsEnd`, `ProxyDrains`, `AnswersReachDisk`): the prover does not
  treat fairness and ENABLED.
- `ClientsAreRouted` of DnsRouting for answers with aliases, and for edits together with switches: it relates what a
  client remembers through a chain of aliases to the deadlines of each alias of the chain, of the cache and of the
  entry.

## 7 Findings

### 7.1 Runs that end in a violation

- `finding_shutdown` (`ShutdownIsFinal`). `SetDirectPriority` (`app.go:772`) does not look at `shuttingDown`. A
  request that gets `lifecycleMu` after Start's teardown finds `config.Enabled` without `routingActive`, takes it for
  an earlier failure and brings the routing up, with nobody left to take it down; `app.go:112-113` says the flag
  forbids it. `SetEnabled` does look (`EnableRespectsShutdown`, checked in `lifecycle_faults`).
- `finding_save_order` (`FileIsCurrent`). `SaveConfig` takes its snapshot under `cfgMu` and writes outside every lock
  (`config.go:72-83`). A save that is overtaken by an edit and its save writes the older configuration last; both
  answer 200 and the edit is gone at the next start.

### 7.2 Further observations

Configurations beside the runs show these by hand (`tlc -config finding_X.cfg` with the module named); the passing
runs exclude exactly the behaviour each describes, by the constant given.

- `finding_preamble` (MCChains, `PreambleAbove`). A commit has read the kernel when the firmware wipes the table, and its difference
  only appends the jump of one group: iptables-restore takes it (`iptables.go:280`, `376`), and the group is linked
  without the preamble, which the next commit appends below it. A connection that is marked already then meets the group first.
  `netfiler-helper.go:65-66` says that the preamble runs before every interface group's chain, and `155-157` why: it counts
  on the order of the calls alone.
- `finding_stray` (MCTables, `TablesAreNamed`). A teardown whose `RouteDel` is refused forgets the route and deletes the rule
  (`ipset-to-link.go:507-522`): the table keeps a route and no rule names it. `CleanIPTables` finds tables through rules
  only, so that no start removes it, against `app.go:576-577` and `iptables-cleaner.go:77-78`. The same holds of a
  rule that was refused in the cleaner, but that one is found again.
- `finding_sweep` (MCTables, `TablesAreNamed`). The cleaner deletes all rules before it looks at the first table
  (`iptables-cleaner.go:87-113`). Killed in between it leaves tables the next start does not find.
- `finding_add` (MCLifecycle, `DownMeansClean`). `AddGroup` reads `routingActive` (`app.go:333`), then waits for
  `routingMutationMu`. A teardown that finishes in between is followed by `Enable`: the new group's chain and ipset are
  up while the routing is down. The comment at `app.go:76-83` says the mutex exists so that this cannot happen.
  PutGroup does the same (with `Edits = {"put"}`): it reads `enabled` first and takes the mutex twice, for Disable and
  for Enable (`handlers.go:547-564`), so a teardown fits in between. A later switch of the direct priority and
  bring-up leave that group under the old mode (`PriorityIsCoherent`). Excluded by `Edits` in `lifecycle_faults`.
- `finding_laststop` (MCPersist, `CleanStopSaves`). A Save begun by the ticker has cleared `dirty`; the deferred Save
  of a stop then returns at once (`persist.go:180`) and the process may end before the ticker's rename.
  `persist.go:302-307` says the final synchronous Save has closed this race.
- `finding_route` (MCTables, `RouteFollowsLink`). A broadcast interface loses its last address and regains it: the
  kernel has dropped the group's route, `updateIfaceRoute` (`ipset-to-link.go:465`) compares the gateway with the
  route it remembers and asks nobody, so the group stays in its blackhole until it is edited. Over a point-to-point
  interface the route comes back (`RouteFollowsTunnel`).
- `finding_delete` (MCLifecycle). `DeleteGroup` disables the group without `routingMutationMu` (`handlers.go:621`)
  while a bring-up enables all groups: the removed group comes back up and nobody can find it. Excluded by `Edits` in
  `lifecycle_faults`.
- `finding_missed` (MCLifecycle, `NoGroupMissed`). The same missing mutex without any failure: PutGroup has read that
  its group was up and enables it again after SetEnabled(false) has taken the routing down; in the next bring-up
  DeleteGroup disables it while the batch holds back commits, the kernel still refers to the ipset, so Disable fails
  (`handlers.go:621-624`): the request answers 500, and the group stays in the list and off while the routing is up.
  It takes two edits; `lifecycle_ends` makes one, and `EveryGroupIsUp` proves the property when nothing is deleted.
- `finding_save` (MCLifecycle). Another handler's SaveConfig writes a direct priority that is about to be rolled back
  (`app.go:700`). Excluded by `Edits`.
- `finding_resume` (MCLifecycle). A rewrite by the firmware after the bring-up's commit and before `setMode(ready)`:
  the committer still has the mode of the pause and drops the event, and the rules stay away until the next one
  (`app.go:848`). This is why `WipesRemembered` is stated for a lifecycle that asks for `ready` only.
- `finding_overlap`, `finding_bringup` (MCDns). Bring-up builds the trie without `cfgMu`: an edit that falls between
  reading the rules and storing the trie is lost in lookups (`TrieFollowsRules`); and an answer that arrives between
  Sync and the new trie is looked up by the old one (`ClientsAreRouted`). Excluded by `Overlap = FALSE` and by
  `Listings` that add no name the trie has never had.
- `finding_moved`, `finding_shared` (MCDns). When a name that was an alias gets an address of its own, the cache no longer
  follows the alias, and the next Sync takes away the address a client still holds; and a later, shorter answer for one
  name shortens the entry another name shares (`dns.go:415`). Excluded by `Answers`.
- `finding_static` (MCDns). An address taken out of the subnet rules that DNS knows too stays permanent: Sync never
  lowers a timeout (`group.go:365`, `440-442`). Excluded by `Listings` that keep the static addresses.
- `finding_stale` (MCDns). When a rule moves, an answer in flight may put its address into the old owner after
  SyncAllGroups removed it (`dns.go:290`).
- `finding_partial` (MCPersist). A Save that asks `keep` for its names one by one while the routing is switched off
  in the middle replaces a full snapshot by part of it (`NothingDropped`): the refusal of an empty snapshot
  (`persist.go:190`) does not see it.

Seen while modelling, without a configuration of its own:

- *Lifecycle.* After a fault in the teardown of a switch, PutGroup enables a group under the mode that is then rolled
  back: the placed modes are mixed until the next switch.
- *DNS.* With two edits made while the routing is down, an answer in flight during the bring-up's sync uses the old
  trie; `dns_clock` makes one edit.
- *Chains.* A preamble whose commit failed leaves its jump and its override in memory with no user counted
  (`netfiler-helper.go:90-103`); the next user empties it while it is linked, and a packet only returns from it.
  Jumps that a group has got from a commit of the committer lead to half a chain until its own commit fills it
  (`JumpsLeadToWholeChains` says which half).
  Disabling registers the deletion of a chain before the removal of its jump, so a pass in between is refused and
  retried. DeleteGroup takes no `routingMutationMu`: beside a batch its commit is swallowed, and if the group's chains are
  enabled again before the batch commits, its jump goes to the end of the order in memory while the old one stays where it was in the
  kernel; the next wipe and repair change the order. `raced` excludes this from `RepairKeepsOrder`, and `overtaken` a
  table that was wiped in the middle of a commit. After PutGroup a group's jump is last: the order is that of enabling, where `README.md:243` and
  `ipset-to-link.go:42-47` speak of the list.
- *Routes.* Disabling removes routes and rules before the chains that mark, and a freed mark may be taken again while
  conntrack (`netfiler-helper.go:76-77`) or, with an unlocked DeleteGroup, the old chains still use it. An interface
  that goes down between `LinkByName` and `RouteAdd` makes Enable fail.
- *Configuration.* A `WriteFile` that fails leaves a file cut short although memory and kernel are rolled back; at the
  next start it does not load, the daemon goes on with its defaults and its next save overwrites it. The import on
  SIGHUP disables groups without `routingMutationMu` and sets `Enabled` without `lifecycleMu`; one that fails halfway
  leaves half the groups in memory with the new networks in force (`Import`), and the next save writes that. `syncDueSubscriptions` returns before SaveConfig
  when the rebuild fails.
- *Subscriptions.* A fetch that was under way when the user changed the URL applies the rules of the old URL and counts
  as an update, so the new one is fetched an interval later (`subscription_runtime.go:171`).

## 8 Not modelled, and the plan

Not modelled because there is no protocol to check: authentication, the updater, diagnostics, the frontend, packaging,
the lookup API (a reader), DNS capture (one bounded list under one mutex) and warm-up (a DNS client).

Left out of the parts that are modelled, and why:

- *The import of groups on SIGHUP*: it is a whole editing handler without the lifecycle's locks; ConfigStore has it as
  an edit. Composed with RoutingLifecycle it would need every group replaced at once while a bring-up runs, in a state
  space that is full already.
- *The due loop of subscriptions and the fetch*: network I/O; what it applies is an edit of DnsRouting.
- *`ttl.go` at the ends of uint32*, and the refresh of a timeout by TPROXY traffic with `ReassertStaticSubnets`:
  DnsRouting has neither word size nor packets.
- *The trie's walk over labels, the pattern languages, the text of rules and of iptables-save*: data.
- *IPv6 in DnsRouting*: AAAA is dropped by default and its path is a copy of the A path.
- *The aliases of interfaces and the remaining settings*: read and written under no protocol.

Proofs that are worth their work next: `ClientsAreRouted` for answers with aliases.

The composed state spaces are near what a run can hold, so new components get modules and instances of their own;
where one only reads another's state it is composed through an abstract specification, as RepairContract is meant for
the lifecycle.
