# A TLA+ model of the Control Plane

This directory holds the formal model of the Control Plane in this repository:
TLA+ modules, the TLC configurations that check them on small instances, and
TLAPS proofs of the main properties for every instance. `PROJECT.json` lists the
components, the runs, the source lines behind every definition, the hazards the
properties are about, and the theorems.

    tlc -workers 2 -config MCSafety.cfg MCHostController     # one run
    tlapm HostControllerProofs.tla                           # the proofs of one module

## The system

The daemon `control-plane` keeps *HostClaims*, each a lasting demand for one
exclusive Host. Operators create and delete claims with the CLI over a local
JSON-RPC socket; a single controller task compares the claims with what the
infrastructure provider has and drives the two together.

| Component | State | Operations | Hard behaviour | What makes it correct |
| --- | --- | --- | --- | --- |
| Storage (`storage.rs`, SQL schema) | `host_claims`, `hosts` | `create_claim`, `mark_claim_deleting`, `save_claim_status`, `ensure_host`, `save_host`, `finalize_claim`, reads | writers interleave between a read and the write based on it | deletion intent is never overwritten; a Host row lives as long as its claim |
| Host provider (`provider/`) | resources by Host id, plan catalog, injected faults | `select_plan`, `observe`, `create`, `delete` | responses get lost, calls fail, resources change by themselves; a selection is repeated | at most one resource per Host id, found again by that id; the same plan every time |
| Host controller (`controller.rs`) | the listing of a pass, in-memory copies of rows, a wake permit | `run`, `reconcile_once`, `reconcile_unbound_claim`, `reconcile_host`, `reconcile_deleting_claim` | every `await` is a window; a pass can be cut off between any two writes; retries in many paths | intent before resource, resource before status; nothing orphaned; everything converges |
| RPC methods (`rpc.rs`) | none of their own | `host_claim.create`, `host_claim.delete`, `host_claim.get`, other reads | run between any two steps of a pass; a dropped handler does not wake | a commit is acted on even without its wake; an answer stays true |
| Socket path (`rpc.rs`) | a file | inspect, probe, remove, bind, guard, drop | check and removal are two system calls; crashes leave files; inode numbers are reused | a socket that is served is never removed; a stale one never blocks |
| RPC server (`rpc.rs`) | connections, permits, handlers | accept, serve, refuse, time out, drain | connections end in several ways, the drain has no timeout | the limit is kept; shutdown ends |
| Daemon (`main.rs`) | the two tasks, the token, the pool | start, signal, await, close | order of awaiting; end or panic of one task | the database outlives both tasks; no half a daemon |
| Database lock (`storage.rs`) | lock file | acquire at start | several daemons start at once | one daemon per database |
| CLI (`control-cli`) | what its operator knows | create, delete, get, reads | an answer is lost, a request arrives late, a command is repeated | repetition changes and duplicates nothing |
| Protocol types, configuration, diagnostics, Host agent | none that lasts | | | |

Interaction: RPC handlers and the controller share only the database and the wake
permit. The controller alone talks to the provider. The database pool has one
connection, so database operations are serialised, each a statement or a
transaction; a *pass* is a sequence of them with provider calls in between, and is
not atomic. `main` shares the cancellation token with both tasks and closes the pool
after them. Daemons share the socket path and the lock file, nothing else.

## The modules

    Domain          records, reasons, retry state, initial values
      Storage       the tables and one operator per database operation
        StorageProofs           what each operation does to the rows
      HostProvider  the resources and one operator per provider call
        HostController          the daemon: controller steps, RPC, faults, time
          MCHostController        constants for TLC
          HostControllerProofs    inductive invariant, safety theorems
            HostControllerRefinement  action properties and the refinement
      ControlClient (over Storage)  operators, CLI calls, RPC methods and answers
          MCControlClient, ControlClientProofs
    HostClaimLifecycle          abstract specification, refined by HostController
    ClaimRegister               abstract specification of the tables, refined by
                                HostController and by ControlClient
    Daemon          main, its tasks, connections and handlers
      MCDaemon, DaemonProofs
    LocalSocket     daemons competing for the lock and the socket path
      MCLocalSocket, LocalSocketProofs
    RetrySchedule   deadlines and attempt counters in milliseconds
      MCRetrySchedule, RetryScheduleProofs
    PlanSelection   the query behind select_plan
      MCPlanSelection, PlanSelectionProofs

The component is split where its parts meet in a narrow place. `HostController` has
the content of the tables and asks when a pass may do what; `Daemon` has the life of
the process and reduces the tables to the set of mutations still to be reconciled;
`RetrySchedule` replaces the deadlines of the first by numbers; `ControlClient` adds
answers and their receivers and keeps, of the controller, the finalization, the only
thing of it that an answer can depend on. Two of these seams are specified: `ClaimRegister`
says what both writers of the tables keep, and `SelectionIsDefined` that the catalog
answers each spec in one way.

`HostControllerProofs` and `ControlClientProofs` extend `StorageProofs` besides their own
module, so that an operation of the database is reasoned about once.

Operators under a comment that begins with "Variant" are deliberate mistakes, used
only to show that each property notices one; nothing in a specification uses them.

### Domain, Storage, HostProvider

A condition is represented by its reason: each reason the code writes comes with one
fixed status. Generation is always 1, so `observed_generation` is a Boolean. A retry
deadline is `"none"` (NULL), `"later"`, `"due"` or `"never"` (`i64::MAX`): a pass
reads the time once, so all it can see of a deadline is whether it has been reached.
The attempt counter saturates at `MaxAttempt`, for `u32::MAX`.

`claims` and `hosts` are functions from identifiers to rows or `Null`. `created_at`
is a number drawn from `clock`; two rows never carry the same one. The code orders by
`created_at, id` (the document's "stable ID order",
`docs/checkpoints/host-control-v1/implementation.md:148`, is the tie-break).
`finalize_claim` removes the Host row too, as `ON DELETE CASCADE` does.

`ClaimRegister` is what the tables promise about claims, whoever writes them: a claim is
entered once, with a spec and a creation time that never change; its deletion is never
taken back; it gets a Host at most once, while it is wanted, one that no other claim has;
and it is forgotten only after its deletion was requested. `Storage` states the mapping
(`Entries`: the row of a claim, joined with the id of its Host) and `RegisterRefined`.
The operations alone do not promise this: `finalize_claim` removes any claim, so it takes
the controller to keep it.

`PlanFor`, a constant, says what `select_plan` answers for each spec; that the answer
is a function of the spec is what `PlanSelection` shows. Every call may answer a
definitive or a transient error, as the trait allows; the fake injects a subset of
these. `DriftRemove`, `DriftReplace` and `DriftLifecycle` are changes that the
Control Plane did not make; they stand for code outside the repository.

### HostController

`pc` is the controller's next `await`. A step is one call together with everything
the code computes up to the next one, so that every place where another actor can
get in between is a place between two steps.

| Model | Code |
| --- | --- |
| `WakeByNotify`, `WakeByTick`, `PassIdle`, `Progress` | the `select!` and the 64-step loop of `run` |
| `List`, `VisitUnassigned`, `VisitAssigned`, `NextClaim` | `reconcile_once`: deletions first, then live claims, each by creation |
| `SelectPlan`, `SelectPlanFails`, `EnsureHost` | `reconcile_unbound_claim` |
| `ObserveConflict`, `ObserveLivePresent`, `ObserveLiveAbsent`, `ObserveFails`, `Create`, `CreateResponseLost`, `CreateFails` | `reconcile_host` |
| `ObserveDeletingPresent`, `ObserveDeletingAbsent`, `Delete`, `DeleteResponseLost`, `DeleteFails`, `Finalize` | `reconcile_deleting_claim` |
| `SaveHost`, `Persist` | `save_host`, `persist_claim_status` and the branch taken after them |
| `StorageError` | `Err` from any database call: ends the pass and the wake |
| `Crash`, `Restart` | the process stops at any point; memory and the permit are lost |
| `RpcCreate`, `RpcDelete` | the mutating RPC methods; `RpcWake` may lose the wake (the 30 s timeout drops a handler after its commit) |
| `ElapseClaim`, `ElapseHost` | time reaches a deadline |
| `Drift` | the provider changes by itself |

Identifiers issued by the daemon or the provider are UUIDs. In the model an
identifier that nothing refers to any more may be issued again, which keeps the
state space finite and hides nothing: no state distinguishes it from a new one.

`HostClaimLifecycle` is what a caller may rely on: infrastructure exists only on
behalf of a claim, the Control Plane takes it away only after the claim was
released, and a claim is forgotten only when it was released and holds nothing. It
knows four variables; `HostController` implements it under the mapping `Demand`,
`Held`, `Unowned`.

### Daemon

One process over its restarts. `main` is the position of `main.rs` ("running" in its
`select!`, "awaiting" the tasks, "closing" the pool, "down"), `controller` that of
`HostController::run`, `rpc` that of `serve_bound`; `conn` and `req` are each client's
connection and request, `abandoned` the clients whose connection ended first, `permits`
the semaphore. What a mutation changes is reduced
to membership of `work`, which survives a crash.

| Model | Code |
| --- | --- |
| `Connect`, `HangUp`, `Receive` | clients, at any time |
| `Accept`, `AcceptError` | the accept branch with `try_acquire_owned`; its error aborts the connections with the JoinSet |
| `StopAccepting`, `GoAway`, `CloseDrained`, `Join`, `RpcEnds` | cancellation, `graceful_shutdown` and the unbounded drain |
| `AnswerUnchanged`, `Commit`, `WakeAndAnswer`, `DropHandler` | a handler: its transaction, its wake, and the 30 s timeout at any point; it is a task of its own (`TokioExecutor`), so it may outlive the connection of a client that hung up (`abandoned`) |
| `Wake`, `Reconcile`, `ReconcileFails`, `ControllerPanics` | the wake loop; cancellation is seen only between wakes |
| `Signal`, `TaskEnded`, `TasksJoined`, `ClosePool`, `Stop` | the `select!` of `main`, the awaiting of both tasks, `Storage::close` |
| `Crash`, `Start` | the process dies, the service manager starts it |

### LocalSocket

Any number of daemons with one socket path, each with its own choice of database.
`pc[d]` is the daemon's next system call; every call on the shared path is a step of
its own, so that all of them interleave.

| Model | Code |
| --- | --- |
| `Start` | `acquire_database_ownership`: the lock is taken before anything else |
| `Inspect`, `Probe` | `prepare_socket_path`: the file's type and identity, then a connection |
| `Reinspect`, `Remove` | `remove_socket_if_owned` on the stale socket |
| `Bind`, `Listen`, `NewGuard`, `SetPermissions` | `bind`: the two system calls of the listener, the guard's identity, the mode |
| `Stop`, `DropCheck`, `DropRemove`, `Finish` | the listener goes, then `SocketPathGuard` is dropped, then the process ends |
| `StartFails`, `Crash` | an I/O error at any call; the process is killed at any point |

The identity of a socket file is its inode number, which the kernel may give out
again once neither the path nor an open socket refers to it. The path may hold a
file of another kind (`PlainFile`) or a stale socket from the beginning.

### RetrySchedule

`retry_deadline` in milliseconds, and the attempt counter of one claim and its Host
along the paths that set, raise or reset it: one action for each way a provider call
is answered (`PlanSelected` to `DeleteOutcomeUnknown`) and `Failed` for its transient
errors. The answers are a free choice. The clock moves during calls as well, while
deadlines are computed from the time read when the pass began, as in the code.
`streak` remembers the last two waits of each call's run of failures.

### ControlClient

Operators issue commands; every call is a process with a connection of its own, and
may fail at any point (`CallFails`) while its request is dropped (`Drop`), refused by
a storage error (`HandleFails`), or still executed later. The operator then repeats
the command with the same id (`Retry`), as the error message of the CLI tells him, or
gives up. `HandleCreate`, `HandleDelete`, `HandleGet` are the methods with their
validation, errors and answers; `Receive` is the matching of the answer to the
request. `acked`, `released`, `inserted` are history variables for the properties.

### PlanSelection

`FakeProvider::select_plan`: the range check, the `WHERE`, `ORDER BY` and `LIMIT 1` of
its query. The answer is a row that no other one precedes in the order of the query; were
there several, the database could return any of them.

## What is checked

Safety of the controller (`controller_safety`, 636 115 states):

| Property | Says |
| --- | --- |
| `NoOrphanedResource` | a resource always has a Host row and a claim row |
| `IntentPrecedesResource` | a Host whose row says Pending owns nothing |
| `CreateOnlyWhenAbsent` | `create` is called only when the Host owns nothing and its row names nothing, no vanished resource either |
| `RowsOutliveMemory` | what a pass has listed stays; `finalize_claim` meets a deleting claim that owns nothing |
| `DeletionIntentKept` | no stale status overwrites a deletion request |
| `ReadyOnlyAfterHost` | a claim becomes Ready only over a Host row that is Ready and names its resource |
| `FailedIsSticky` | a failed Host stays failed until its claim is deleted |
| `LifecycleRefined` | the daemon implements `HostClaimLifecycle` |

Liveness of the controller, and what holds without changes at the provider (`contention`,
48 673 states; `recovery`, 124 043 states):

| Property | Says |
| --- | --- |
| `DeletionCompletes` | a requested deletion ends with the claim gone, or with the Host frozen by a definitive refusal or an ownership conflict |
| `DemandIsMet` | a claim becomes Ready, is refused for good, waits for a resource that is not Ready yet, or is deleted |
| `RegisterRefined` (`contention`) | the tables implement `ClaimRegister` |
| `ConflictStopsDestruction` (`contention`, without drift) | a delete removes only the resource that the Host row names |
| `StatusConverges` (`recovery`) | once nothing else happens, a claim says Ready exactly when its resource is Ready (Hosts that have not failed) |

`contention` runs under `PunctualSpec`: until the fault happens, a pass begins only on a permit
and no wake is lost, so that a wake that runs out of steps has to leave a permit, and one permit
has to do for two requests. Afterwards, and in `recovery` from the beginning, wakes may get lost
and the interval makes up for them.

The process (`daemon`, 55 345 states):

| Property | Says |
| --- | --- |
| `PermitsConserved` | whichever way a connection ends, its permit comes back exactly once |
| `StorageOutlivesTasks` | a request accepted before the shutdown never meets a closed database, unless its client is gone |
| `CommittedIsReconciled` | what was committed is reconciled, with its wake lost, its client gone, the controller stopped before the server, or the process crashed |
| `ShutdownCompletes` | once cancelled, the process ends, whatever connections and requests there are, *provided that every client told to go away answers*: the drain has no timeout (`rpc.rs:203-207`, `:223`), and one stalled client keeps the daemon from exiting |
| `NoHalfDaemon` | a daemon of which one task has ended, ends, on the same condition |

The socket path (`socket`, 6 923 states):

| Property | Says |
| --- | --- |
| `ServingIsReachable` | a serving daemon is what a client finds at the path, and its guard names it |
| `StartupSparesActiveSocket` | the file removed by a start is a socket that nobody serves |
| `ShutdownSparesOthers` | the file removed by a stop is not another daemon's |
| `StaleSocketNeverBlocks` | only a file that is not a socket makes a start fail at the path |
| `StopLeavesNoSocket` | an orderly stop cleans up |
| `PlainFileStays` | a file that is not a socket is never replaced |

Retries, answers, plans:

| Run | Property | Says |
| --- | --- | --- |
| `retry_schedule` (70 751 states) | `RetryInWindow` | a failed call is repeated a second to a minute after its pass began, or at the end of `i64` if that is sooner |
| | `LookupsBackOff` | the waits of a failing `select_plan` or `observe` double, and nothing resets the counter in between, until time ends |
| `client_sessions` (538 439 states) | `TypeOK` | no row breaks the constraints of its table |
| | `AcknowledgedIsKept` | what a create was answered with stays true until someone deletes the claim |
| | `RepeatsOnlyAfterRelease` | a repeated create inserts its claim again only after the one it inserted before was released |
| | `SessionsGoForward` | what one operator is told about a claim never goes back |
| | `RegisterRefined` | the table implements `ClaimRegister`, as it does under the controller |
| `plan_selection` (265 302 states) | `CheapestAdequate` | the plan selected is on offer, large enough, and none such costs less |
| | `SelectionIsStable` | the order of the query leaves no tie, so that a selection repeated after a crash or an error before `ensure_host` names the same plan |

Statements of the documentation that the code does not keep; each run ends with a
counterexample:

| Run | Property | What happens |
| --- | --- | --- |
| `stale_ready` | `FailedHostIsReported` | the Host is saved as Failed, the write of the claim's status fails or the process dies, and every later pass skips a failed Host: the claim stays Ready |
| `delete_race` | `ConflictStopsDestruction` | the resource is replaced between the comparison of its identity and `provider.delete`, which names only the Host id (while nobody else changes the provider the property holds: `contention`, and the theorem `OnlyTheRecordedIsRemoved`) |
| `fixed_interval` | `MutationsBackOff` | the retry state is reset before every `create` and `delete`, so a provider that keeps failing them is asked every two seconds for ever |
| `client_retry` | `RetryInsertsOnce` | a create whose answer was lost is repeated, or arrives, after the claim was deleted and finalized: it is inserted again |

The first is limited to failed Hosts: for all others the next pass writes both rows
again, which is what `StatusConverges` shows. `client_retry` does not contradict
`AcknowledgedIsKept`: the second claim is another incarnation. How far the promise "safe
to retry" goes is `RepeatsOnlyAfterRelease`: a command brings about a second incarnation
only after the first was released.

Two more observations. A definitive failure of `observe` or `delete` during a deletion goes
through `schedule_host_retry_only` (`controller.rs:711`), which freezes the retry but leaves the
Host's phase as it is, although `implementation.md:179` says of every definitive failure that it
makes the Host `failed`. The claim then waits for the operator, which is why `DeletionCompletes`
admits that end (`Frozen`: only with the reason in the Host's row). And the lock belongs to a
database, not to the socket path. For daemons of *different* databases on one socket path,
the windows between a check and the removal that follows it, at the start and at the stop,
are open, and the properties of `LocalSocket` other than `TypeOK` and `PlainFileStays` are
claimed under `SharedDatabase` only.

### Bounds

| Bound | Stands for | Why enough |
| --- | --- | --- |
| 2 claims, 2 Hosts (1 each in `recovery`) | any number | the controller treats claims one after another; two show order, competition for steps, and one claim's pass seen by another |
| 4 to 6 resource ids | UUIDs | at least one stays free whatever the faults and drifts use |
| `MaxSteps` 2 | 64 | the limit is reached in the middle of a provisioning |
| `MaxAttempt` 1 or 2 (`HostController`) | `u32::MAX` | the counter reaches its limit |
| `MaxCreates` 1 or 2 | unbounded | two claims, or one that is created again after its deletion |
| `MaxFaults` 1 or 2 (`HostController`) | unbounded | one fault at every point; in `recovery` a fault during the repair of another |
| `MaxDrifts` 0 to 2 | unbounded | a change at every point; in `recovery` two, in any order |
| 2 clients, 1 connection (`Daemon`) | any number, 64 | one client is served while the other is refused, queued, or takes the freed permit |
| `MaxFaults` 2 (`Daemon`) | unbounded | a fault during the shutdown that another one started, or after the restart from it |
| 3 daemons, 3 inodes (`LocalSocket`) | any number | one serves or stops, one starts, one has crashed; with three numbers, reuse happens at once |
| `MaxAttempt` 7, `MaxMillis` 320 000 (10^9 in `fixed_interval`) (`RetrySchedule`) | `u32::MAX`, `i64::MAX` | the delay is constant from the sixth attempt on; the counter saturates at the seventh, the deadlines in the last minute of the clock |
| `Interval` 20 000 ms, `MaxTime` 320 000 (200 000 in `fixed_interval`) | the clock | seven failures in a row take 240 s with the waits rounded up to the interval: the whole schedule is gone through |
| 2 operators, 1 claim, 3 requests (`ControlClient`) | any number | a command, its repetition, and a conflicting one or a delete in between; claims do not influence each other's answers |
| `MaxI64` 2, seven specs | `i64::MAX`, u64 values | two valid specs and one for each comparison in `validate_resources` |
| 3 plans, 17 offers, 18 requirements | the catalog | all ties in every prefix of the sort key, the disabled plan, every reason not to match, each alone |

The faults are bounded so that liveness means "once faults stop". No symmetry
reduction is used: identifiers are chosen with `CHOOSE`, and TLC does not combine
symmetry with liveness.

Deadlock is checked except in `client_sessions` and `client_retry`, where the
operators have used up their calls, and in `plan_selection`, where the query has been
answered.

### Fairness

`HostController`:

- `WF(Reconcile)`: the task is polled, and the interval goes on ticking, so a wake
  is never needed for progress.
- `WF(Restart)`: the service manager starts a daemon that died.
- `PunctualSpec` has the same fairness without the tick, as long as nothing has failed: the
  behaviours in which the interval happens not to tick and every handler gets to its wake.
- `SF(ElapseClaim)`, `SF(ElapseHost)`: wall-clock time reaches every finite
  deadline. The action is enabled only between passes, over and over, hence strong
  fairness.

`Daemon`, weak fairness throughout:

- `Accept`, `StopAccepting`, `GoAway`, `Join`, `RpcEnds`, `Control`, `Main`: the
  runtime polls every task that can make progress, and `select!` picks a random
  branch among those ready.
- `Handle(c)`: a handler ends by answering or by its 30 s timeout.
- `CloseDrained(c)`: a connection told to go away ends when its requests have been
  answered. This takes a client that goes on with the protocol. The drain itself has no
  timeout, so one that stalls would keep the daemon from exiting; `ShutdownCompletes`,
  `NoHalfDaemon` and, for what is left to a restart, `CommittedIsReconciled` hold under this
  condition.
- `Start`: the service manager.

Nothing is assumed about when clients connect, ask, or hang up, nor about RPC calls,
faults, or changes at the provider. The interval's tick is one of the two causes in
`Wake`, so that `CommittedIsReconciled` does not rest on the permit.

## What is proved

Every theorem holds for all values of the constants that satisfy the modules' own
assumptions: sets of claims, Hosts, resources, operators and daemons finite or not,
any numbers of faults, drifts, requests, a catalog of any size. (The set of clients of
`Daemon` is finite, since permits are counted.) What a theorem assumes beyond that is in
the table. Of the modules' assumptions, `EntryAssumption` says that `Null` is not an entry
of the register, and `CatalogAssumption` that offers and requirements are natural numbers,
as the `CHECK` constraints and the unsigned types of the code make them.

| Module | Theorems |
| --- | --- |
| `HostControllerProofs` | `TypeOK`, `NoOrphanedResource`, `IntentPrecedesResource`, `CreateOnlyWhenAbsent`, `RowsOutliveMemory`, `DeletionIntentKept` |
| `HostControllerRefinement` | `FailedIsSticky`, `ReadyOnlyAfterHost`, `LifecycleRefined`, `RegisterRefined`; assuming `MaxDrifts = 0`, that no ownership conflict is ever met, and `ConflictStopsDestruction` |
| `LocalSocketProofs` | `TypeOK`, `PlainFileStays`; assuming `SharedDatabase`, the other five properties of the run `socket` |
| `DaemonProofs` | `TypeOK`, `PermitsConserved`, `StorageOutlivesTasks` |
| `RetryScheduleProofs` | `TypeOK`, `RetryInWindow`, `LookupsBackOff` |
| `ControlClientProofs` | `TypeOK`, `AcknowledgedIsKept`, `RepeatsOnlyAfterRelease`, `SessionsGoForward`, `RegisterRefined` |
| `PlanSelectionProofs` | `CheapestAdequate`, `SelectionIsStable`, and that every requirement has exactly one answer |

`StorageProofs` has the lemmas on the database operations that the other modules rest on.

**The controller.** None of the invariants is inductive alone. That `finalize_claim`
orphans nothing depends on what `observe` answered one step earlier; that `create`
meets no resource depends on what was observed two steps earlier, on the row not
having changed, and on the provider not acquiring a resource by itself; that no
status overwrites a deletion depends on the copy of the claim in memory. The
inductive invariant `IInv` has five parts:

- `TypeOK`;
- `TableInv`: a Host row has a claim row, a claim has at most one Host, a resource has
  a Host row past Pending, a deleting claim shows it;
- `SnapInv`: a listed claim is still there, with the Host it was listed with, and
  deleting if it was deleting;
- `MemoryInv`: which records are in memory at each call, and that they agree with the
  listing;
- `CallInv`: what the call about to be made may rely on (absence before `create` and a
  row that names nothing, a phase past Pending before either mutation, absence of every
  resource before `finalize_claim`).

The lemmas follow the same order: the record updates keep their types, the table
operations change only what they name (`...Facts`, in `StorageProofs`), the ways a step can leave the
pass (`ProgressOver`, `ClaimOver`, `SaveThenOver`, `PassOver`), then one lemma per
action or group of actions, and `NextInv` puts them together.

**The action properties and the refinement.** A step that writes a row is justified by
what the pass saw earlier, so these need a second invariant, `RInv`, on top of `IInv`:
a `delete` on its way is for a claim being deleted (`RemovalCall`); a live claim with a
failed Host is not worked on (`FailedCall`); Ready is in memory only over a Host row
already written as Ready with its resource (`ReadyCall`); a claim that says Ready has a
Host, in the table and in the listing (`ReadyHasHost`). From `IInv`, `RInv` and a step follow
`FailedIsSticky` and `ReadyOnlyAfterHost`. For the refinement each step is mapped:
`RpcCreate` to `Submit`, `RpcDelete` to `Release`, `Create` to `Provision`, `Delete` to
`Deprovision` or to a stutter when nothing was there, `Finalize` to `Retire`, `Drift` to
its abstract counterpart, everything else to a stutter, `Unowned` being empty
throughout. The lost responses map like the calls themselves. `IInv` and `RInv` were both checked with
TLC on the constants of `MCSafety.cfg`.

**The register.** `StorageProofs` has one lemma for each database operation that says which
step of `ClaimRegister` it is, and under which condition (`...Registers`): `create_claim`
is `Enter` when the claim has no row, `mark_claim_deleting` is `Release` or a stutter,
`ensure_host` is `Assign` when it assigns, `finalize_claim` is `Forget` *when the claim is
being deleted*, the two saves are stutters. `RegisterIsKept` supplies these conditions from
`IInv` for every step of the daemon, where the hard one, that of `finalize_claim`, is what
`CallInv` says of the listing and the table. `RegisterIsServed` supplies them for
`ControlClient`. That module replaces the whole controller by `Finalize`, with the guard
that the claim is being deleted; the first theorem is the reason this is sound, as no step
of the controller changes an entry in any other way that an answer shows.

**Identities.** `IdentityInv` says that, as long as nobody else changes the provider, a Host
row and the copy of it in memory name no other resource than the one the Host has. It is
not obvious because a create whose response was lost leaves a resource that no row names,
and a Host whose resource disappeared gets another one under the same id: hence the parts
about the two calls, that nothing is named when `create` is called and that a `delete` is
called only after `save_host` has written the identity just observed. It follows that the
controller meets no ownership conflict of its own making (`ConflictsComeFromOutside`), so
that a Host in that state always tells of a change from outside, and that
`ConflictStopsDestruction`, violated in `delete_race`, needs such a change too.

**The socket path.** Under `SharedDatabase` the lock leaves one daemon that is not down,
and no other one changes the path. `IInv` says for each position of that daemon what is
at the path and what it remembers of it (`Known`), and that a daemon that is down holds
nothing (`Resting`). Inode reuse needs no argument of its own: a number is reused only
when no open socket has it. A file that is not a socket is safe whatever databases the
daemons have: as long as it is there, no daemon gets past its inspection
(`PlainFileStops`).

**The process.** `PermitsConserved` rests on counting the connection tasks, one lemma for
a task that comes and one for a task that goes; `StorageOutlivesTasks` on which task may
exist when (`TaskInv`): a request has a connection unless its client is gone, an ended
server has none, the pool closes last.

**The schedule.** `WaitBounds` and `Delays` say what `retry_deadline` yields for every
attempt; `NextWait`, that one attempt more doubles it, unless the deadline is the end of
time. Once it is, it stays so (`StaysAtEnd`): the next pass begins when that deadline has been
reached (`LookupIsDue`), when the clock has nowhere left to go.

**The answers.** `Protocol` says that requests and answers carry the numbers of calls that
were made, and that a request is for the command of the operator whose call it is;
`Promises`, that a row that shows a deletion was released, and that an answer on its way is
as true of the table as one received.

For `SessionsGoForward` an answer has to be compared with everything its operator was told
before. `SessionInv` orders all that is said about a claim by creation time and deletion:
what anyone has seen, and every answer on its way, is a state the table has reached, and
since it only goes forward (`RegisterGoesForward`, from the register) an answer made now is
as late as any; an answer to the call an operator is waiting for is no older than what he
knows (`AnswersAreNews`), because he makes one call at a time.

For `RepeatsOnlyAfterRelease`, `OneCommand` says that all calls of one command, pending or
issued again, ask for the same, and `InsertedIsAccounted` that what a command inserted is
in the table or was released, for as long as one of its calls can still arrive. A call that
inserts finds no row, so that what was inserted before must have been released.

**The plan.** `FirstRowExists` finds a first row one sort key after the other, each time
among the rows least in the keys before (`LeastsExist`); this needs no induction over the
catalog, which may even be infinite, but only that a nonempty set of natural numbers has a
least one. `RowsAreOrdered` says that of two rows one precedes the other, since the last key is
the id, hence there is one first row (`FirstRowIsUnique`), which is the answer of the
query whenever it is asked again. `SelectionIsDefined` is what `HostController` takes for
granted with `PlanFor`.

Only model-checked: liveness (`DeletionCompletes`, `DemandIsMet`, `StatusConverges`,
`CommittedIsReconciled`, `ShutdownCompletes`, `NoHalfDaemon`), which is beyond the prover,
and the counterexamples. All safety properties of the runs that pass are proved, under the
assumptions named in the table.

## What is not modelled

- The RPC methods and CLI commands that only read other things (`system.info`, the
  lists, `host.get`), the wire format, output formats and the parsing of quantities,
  configuration and logging: no state.
- The Host agent: a skeleton without a protocol.
- Messages and `last_transition_at` of conditions.
- A wall clock that is set back: waiting claims wait longer by as much, and the code
  has no defence that a property could be about.
- Permanent storage errors and endless churn of claims (see the hazards): progress of
  the other claims then needs fairness that the code does not give.
- Files at the socket path changed by programs other than the daemon.

What remains to be done: a provider that deletes asynchronously, so that the lifecycle
`Deleting` stays visible between passes, as soon as the repository has one; an abstract
specification of the socket path, and the refinement of it by `LocalSocket`; the mapping
between the mutations that `Daemon` counts as `work` and the claims of `HostController`.
