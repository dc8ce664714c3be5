# Wires, specified

TLA+ models of the `wires` program, the TLC runs that check them and the
theorems TLAPS proves about them. Paths are relative to the repository's root
(`src/`).

`wires` lets people call services that run on machines of one private network.
An *admin* signs a policy with the network's root key. *Directories* store it and
vouch for it: every few minutes each signs a `Fresh`, a *word* that its head
(version, expiry, directories, services and hosts) is the newest it holds, good for
`fresh_secs`. *Hosts* follow a directory and run services. *Callers* keep a
*view*, the part of the policy that is theirs, and send a host their token and
input only when a current word vouches for the head that host holds. Nothing else
stops a machine the admin removed, so much of the program is about copies of a
versioned document that lag, and about who may still be told what, and for how long.
The rest is about one call: who is admitted, which host answers, what its bytes
become, what may be pushed back afterwards, and what the people involved are told.

## Inventory

| Part | State | Operations | What is hard, and what makes it correct |
| --- | --- | --- | --- |
| Heads and words (`library/services/head.rs`, `fresh.rs`, `signed_policy.rs`) | a signed head; a `Fresh`; items | sign, verify, is newer, is current, vouches, validate, view for | Two clocks on each side of every comparison; a node must not vouch for itself while others could; what is served, allowed and admitted are separate walks over one document. |
| Policy store (`wires/policy/store.rs`) | `policy.json` | read, `adopt_if_newer` | Several processes and several parts of one process write it. It only moves to a newer head. |
| Admin (`wires/admin`) | `root.seed`, its `policy.json`, `labels.json` | init, directory, service, role, issuer, remove, settings, push | Each edit decides on several reads and signs version + 1 over the last. A copy lost and copied back makes a version exist twice. |
| Directory (`wires/directory`) | head in memory, own word, writer lock, three pools of slots | open, beat, accept, answer, subscribe | Beat and accept each read or store first and announce later; a crash in between. It never vouches for an older head than it did, and a stranger's slot comes back. |
| Publishing (`wires/policy/fetch.rs`, `wires/admin/propagate.rs`) | what each directory answered; `reached.json` | publish, retry for 15 s, settle, report, fetch | An edit is on the admin before it is anywhere; the command must not say it arrived where it did not. |
| Host: following (`wires/host/follow.rs`, `freshness.rs`) | followed directory, held head, words, `fresh.json` | subscribe, take, adopt, vouch, resume | Moves between directories that are behind each other; a silent one must be left; a full set of words. |
| Host: gate, sessions (`wires/host/gate.rs`, `transport.rs`, `native.rs`) | trusted issuers, permits, running calls, pipes | admit, decide, bridge, stop | The policy moves while a call is admitted or runs; every way out gives its permit back and writes one log line; no byte is lost at the end. |
| Host: serving (`wires/host/serve.rs`, `embed.rs`, `control.rs`) | control sockets, endpoint | start, wait for an assignment, stop | Two hosts on one home; a socket file that is probed, removed and bound in three steps. |
| Host: push; inbox (`wires/host/push.rs`, `wires/caller/inbox.rs`) | queues, `queue.json`; `new/`, `cur/`, `tmp/` | push, deliver, long poll, acknowledge, store, print | Redelivery after a lost acknowledgement; a recipient removed while a message waits; processes that share one mailbox. |
| Caller: vouching, calls (`wires/caller/vouch.rs`, `call.rs`, `pick.rs`, `library/calls/proof.rs`) | view, kept words, `unanswered.json`, one call's progress | open, speak at once, check the proof, refresh inside the call, ack, next host | Decides whom to tell anything, with stale knowledge, while time passes inside a call; a call must not run twice. |
| Caller: view (`wires/caller/view.rs`) | `view.json` | refresh, poll, note what a host showed | Several processes read, await and write one file. |
| Capabilities (`wires/host/capability.rs`, `native.rs`, bindings) | push tokens, a call's stdio behind locks | mint, push by token, prune, close | A child, threads and jobs outlive the call whose token they hold. |
| Sign-in, keys (`wires/caller/login.rs`, `jwks.rs`, `library/calls/idp.rs`) | `token.json`, refresh token; cached key set | sign in, renew, verify, fetch keys | Two logins on one keystore; keys that rotate while tokens are verified at once. |
| MCP server (`wires/caller/mcp.rs`, `shape.rs`, `lock.rs`) | negotiated version, the tools listed, the pending line | initialize, list, call, notify | The view moves while the client lists or calls; output is cut at byte limits. |
| Web gateway (`wires/gateway`) | authorizations, codes, sessions, views, rate table | authorize, consent, callback, token, request | Five requests of three parties, in any order, repeated, or either side of a restart; capped tables. |
| Messages on streams (`library/codec.rs`, `transport.rs`, `control.rs`) | a partly read frame | read within a limit | Ends inside a prefix or a body; more behind the message. |
| Keystore, join, labels (`wires/admin/keystore.rs`, `wires/caller/join.rs`) | files | init, id, join, name | Commands at once, each checking a file and then writing it; kills in between. |
| Bindings, examples, benchmarks, scripts | stdio and locks a binding shares | start, stop, close | What a binding shares with its host is modelled; the rest holds no core logic. |

Messages: admin to directories (publish), directory to directory and to host
(subscription: heads with items, words), caller to directory (view, resolve), caller
to host (open or hello, invoke, stdin; long polls), host to caller (proofs, acks,
output, direct deliveries), services and operators to the host (control sockets),
browsers and MCP clients to the gateway. Shared state: `policy.json`, `view.json`, the
mailbox, the keystore and the sign-in between processes of one home; queues, permits,
issuers and slots between tasks of one process.

## How it is composed

A module models one part and abstracts the ones it talks to, and says in its header
which module has them. Where two parts really share state or a protocol that a
property depends on, one module builds on the other: `Directories` implements `Witnesses`
(refinement), `Calling` runs on `Witnesses`, `PolicyEdits` on `PolicyContents`, `MCDirectories` has
the fault environment. Where they interact through a narrow interface, each
assumes of the other only what that one's properties say (a host in `Failover` either does or
does not prove its head: `Calling` says when it does).

Parts that share no state are checked in one TLC run as a *sum*: the MC module
has the variables of each, a variable `part` fixed in the initial state says whose behaviour
it is, and every other part stays as it began (`MCCalls`, `MCHomes`, `MCHost`, `MCFiles`,
`MCEdges`). A sum explores exactly the behaviours of its parts, one after another; fairness
is that of the part, conditioned on it. It composes nothing, and is not meant to.

## Modules

| Module | Models | State and actions |
| --- | --- | --- |
| `Policies` | Heads, words, and the pure checks on them. | Operators only. Signatures are not modelled: every head and word was signed by the key it names. Two heads are equal exactly when their hashes are. |
| `Witnesses` | What directories promise: a register per node that holds one signed head, moves only to a strictly newer one, and signs words only for it. | Abstract: no memory against disk, no locks, no crashes. |
| `Directories` | The admin and the directory processes in detail. | See below. |
| `DirectoryDoor` | A directory's two protocols: connections at once, deadlines, admission, requests, subscriptions, the three pools of slots. | `conn`, the three counts, the policy held; `Connect`, `Hello`, `Named`, `Trade`, `Admit`, `Answer`, `Subscribe`; of a subscription each look at the policy held (`Look`, `Frame`) and each write (`Sent`, `Told`, `Lost`) apart; `Deadlines`. |
| `Publishing` | An edit from the admin's store to the hosts. | `cmd` is a command with its rounds; `Exchange` and its lost answers, `Settle`, `note_reached`, `OperatorTriesAgain` (`wires policy push`), a host's fetch at its start (`StartFetch`, `Ask`, `EndFetch`): a directory may always fail to answer, and whether it runs is not a state of its own. |
| `Following` | One host's follower and its set of words. | Rounds over the directories, frames taken and adopted, `Offer` (`FreshSet::insert` with `MAX_FRESH_SET`), its own directory, restart. |
| `PolicyContents` | What a policy says: validation, roles, authorisation, admission, views. | Operators only. |
| `PolicyEdits` | Every command that edits the policy, several at once. | Each command reads up to three times, then changes what it read last and stores it if newer. |
| `Keystores` | The files of a keystore and the commands that write them. | Each command reads and writes one file at a time, and a seed is created in one step and written in the next (`SaveNode`, `WriteNode`); kills between any two. |
| `Calling` | A caller on top of `Witnesses`: its view, its refreshes, its proofs and words. | See below. |
| `Failover` | A call over the hosts of its service. | The order tried, what each was told, ack, exit code, `unanswered.json`. |
| `ViewFile` | `view.json` and the processes that share it. | See below. |
| `Tools` | `wires mcp` and the shaping of output. | The view's channel, the mapper, the server's loop (`HandleLine`, `TakeTools`); `CallCmd` and `Apply` shape output. |
| `PushCommands` | `wires push` over a control socket. | `cmd` and `conn`, a `serve` that stops, dies and starts; exit code and report. |
| `HostGate` | Sessions deciding calls while the policy moves. | One record per session: the policy it read, its permit, its verdict, its log line; the shared issuers and highest version; `BridgeFails`, the error exits of the bridge that log nothing. |
| `Bridge` | The stdio of a call, from the caller's terminal to the service and back. | `up`, `down`, `feed`, `stdin`, `output`, `queue`: bounded buffers between the pumps; service, caller and streams end in any order. |
| `Capabilities` | A call's push token and a binding's locks. | `Mint`, uses by child, handler and threads (`CheckHeld`, `CallerPush`, `ReadBegin`...), `Finish`, `Prune`, `Restart`. |
| `Serving` | Hosts on one home from build to return. | Probe, remove, bind; the wait for an assignment; stop and unlink. |
| `Pushing` | Queues, direct deliveries, long polls. | `queue`, `disk`, fates of messages; each frame is a step; connections fail between any two. |
| `Mailbox` | `wires inbox` and its directory. | Store, list, rename, print, remove, each a step of a process that may be killed. |
| `SigningKeys` | Verifying ID tokens against cached keys. | `memory`, `disk`, the one forced fetch, the remembered failure; verifications at once. |
| `SignIn` | `wires login` and the two files it keeps. | Browser flow, renewal, `--reuse`; create, write, rename of each file. |
| `Gateway` | OAuth, sessions, views and requests of `wires gateway`, the handshake (`initialize`) included. | `pending`, `codes`, `tokens` and their file; browsers and clients that repeat and swap requests; restart. |
| `Framing` | Frames and lines read off a stream. | Bytes in one alphabet, arriving in pieces, ends anywhere. |
| `Floods` | `Throttle` and `RateLimit`. | Two atomics that tasks go through step by step; a capped table. |
| `MC...` | Instances for TLC; each `.cfg` is one run. | |
| `...Proofs` | Theorems, see Proofs: `DirectoriesProofs`, `CallingProofs`, `DirectoryDoorProofs`, `HostGateProofs`, `PushingProofs`, `HomesProofs`, `FilesProofs`, `EdgesProofs`. | |

### Directories

A running directory has `mem` (`Directory.current`: the head it serves) with its own
word `fresh`; its store is `disk` (`policy.json`). `Directory::beat` is `BeginBeat`
(take the lock, read, sign) and `AnnounceBeat`; `Directory::accept` is `BeginAccept`
(check, take the lock, `adopt_if_newer`) and `AnnounceAccepted` (read the store back,
sign, announce). The lock is held while `beating[n]` or `accepting[n]` is set. Any
other step may come between: a tick, another node's step, another process on the
keystore storing a policy (a host's follower for instance), a `Crash`. Such a process
takes `policy.json.lock` and compares (`BeginAdopt`, which sets `storing[n]`), then replaces
the file (`EndAdopt`) or dies first (`AbandonAdopt`); while it has the lock no other process,
nor the directory, stores (`FileFree`), but anyone may read. `Start` is
`open_standalone` with `Directory::open` and its first beat, guarded by `listed`.
A publish may be of any head the root signed, by anyone, late and repeated: `BeginAccept`
is enabled for all of `signed`. `Sign` is `edit_policy` with `sign_next`; the edits
are the ones that change directories and hosts, and `RecoverAdmin` is the way back
`admin_policy` prints for a lost copy.

`words` is every word announced that somebody may still show. Old words are dropped a
bounded time after they lapse (`ShownLapsed`); nothing in the code reads them later.

### Calling

The caller's clock, the directories' clocks and the admin's may differ. A host it dials
may be arbitrarily behind or dishonestly old: it shows any signed head with any
announced words for it. `Open` (nothing but the ALPN open), `ProofSame`, `ProofNewer`
and `Recheck` are `Vouching::check` before speaking; `SpeakAtOnce` and `ProofAfter`
are the path on a kept word; `Ack` is `accept_ack` with `HelloAck::assigns`, of whatever
head the host holds by then (it need not be the one it proved); `AskDirectory`,
`Answers`, `Answered`, `Unanswered` are `directory_vouched`, `ask_proven` and
`fetch`, alone or inside a call (within `RefreshBudget`). `told` records what the last
step sent, `listedAt` the last time some directory able to vouch for a node held a
head that lists it; both are history. The await of a refresh inside a call is explicit:
time, edits and directories move between `ProofNewer` and `Recheck`, but not
between the refresh's end and the second check, which the code runs without awaiting.

A call tries the service's hosts one at a time: `GiveUp` ends one attempt and `Dial`
begins the next. The code keeps the list of hosts it began with, so a later attempt may
open to a host that a refresh in between dropped from the view; it is sent `Open` only,
since `ready` and the check both need the newer view to list it. `Failover` has those
attempts, with the view as it moves.

### ViewFile

A view is its version with the two hints kept on it (`seen`, `checked`). Each operation
is a read, a wait for a directory, and a write, as in `refresh`, `poll` and the `note_*`
functions. `whole` is the home's `policy.json`, which may come to be while commands run
(`TakePolicy`); with it, `refresh` asks nobody and cuts the view from it (`CutView`), without a look
at `view.json`. A new sign-in (`SignedIn`) asks as one that holds no view. `raced` is history: the
processes whose copy another process's write made old.

### Files

`PolicyEdits`, `Keystores`, `SignIn`, `Mailbox`, `Publishing` (`reached.json`) and `Serving` (the socket)
share one pattern, and one way of modelling it: a command is a program counter and the
values it read; each file operation is a step; a file that the code replaces by a rename
changes in one step, one that it writes in place or through a fixed temporary name
in several; a kill may come between any two. What the code holds a lock for, or does in one
system call, is one step and nothing else is.

## Runs

Every run passes except `stale_clock` and `view_file_race`, which look for the violation
that the finding of the same name describes. Deadlock is not checked: with its counters at
their bounds, a model stops.

Several properties are conjunctions of named parts, so that one name says what a run asks of a
component; each part has its own definition and comment in the module.

| Run | Parts | What it asks |
| --- | --- | --- |
| `directories` | `Directories` | `Inv`, `StoreCoversWords`: what a directory serves, stores and announces agrees through adopts, accepts, beats, crashes and restarts. `ImplementsWitnesses`: each keeps what callers rely on. |
| `lost_copies` | `Directories`, with fairness | The admin loses `policy.json` and copies an older one back, so one version is signed twice, and processes of one node store at once: `CopiesOnlyGrow` (no rename undoes a newer one, whatever was stored since its writer looked), `NeverVouchesBackwards`, and the last edit still arrives (`EditArrives`). |
| `calling` | `Calling`, `Failover`, `Tools`, `PushCommands` | `RemovedNodeWindow`: how long a removed machine may be told anything. `ToldWhatIsTheirs`: token and stdin only to hosts a vouched head lists. `CallIsOneHosts`: one host runs the call, whatever failed before. `ToldOfChanges`: no tool list goes stale in silence. `RepliesAreTrue`: one true reply to each request; an exit code and report of `wires push` that say what happened. |
| `stale_clock` | `Calling` | Is a word current when the caller speaks? No: see Findings. |
| `view_file_race` | `ViewFile` | Is a view never replaced by an older one? No: see Findings. |
| `homes` | `ViewFile`, `Publishing`, `Serving` | `KnownWaysBack`, `PollerCatchesUp`: what the unlocked `view.json` does keep; an older view replaces a newer one by a race, by a cut of `policy.json` or by a new sign-in, and in no other way. `ReportsAreTrue`: a publish reported as delivered is held; no missed directory in silence. `HostsGetIt`: the last edit reaches the hosts. `ServesItsHome`: no second host on a home, none asleep on a policy that assigns it. `StopEnds`: a stop is heard. |
| `pushing` | `Pushing` | `QueuesAreTrue`: every message has one fate and it is what happened. `NoPollSleepsOnAMessage`: the notification is armed before the look. `QueuedArrives`: what is queued reaches a recipient that keeps fetching. |
| `host` | `HostGate`, `Capabilities`, `Bridge` | `GateIsKept`: bans hold for all later decisions, permits match sessions, one log line each but for the ends that are the bridge's own errors, which have none. `TokensFollowCalls`: a push token reaches only its caller, and ends with the call. `CarriesEveryByte`, `SessionEnds`, `CallEnds`: everything written is printed before the exit code, and calls end. |
| `directory_door` | `DirectoryDoor` | `DoorHolds`: slots are held by exactly one connection and strangers stay outside; a policy streamed does not ban its subscriber, and the one held as it goes out, which may be newer, names it; an answer cut from a newer policy than let its asker in goes to one that some policy held since let in. `SubscribersCatchUp`. `UndecidedSlotsReturn`: a silent peer loses its slot, whatever it is silent about; one that does not read what it is sent need not. |
| `following` | `Following` | `WordsAreKept`: a host some directory vouches for stays vouched for. `CatchesUp`: it comes to the newest policy past directories that lag, stop or are deaf. |
| `files` | `PolicyEdits`, `Keystores`, `SignIn`, `Mailbox` | `PolicyIsTrue`, `EditsStay`: two admins on one policy. `KeystoreHolds`: keys are never replaced, a network never stands without a whole node key, strings decode. `OneSignInIsKept`: the token kept is this node's and one person's. `ToldOnce`: a message acknowledged is shown, and twice only after one named race. |
| `edges` | `Gateway`, `SigningKeys`, `Framing`, `Floods` | `TokensAreDue`; `ServedFromARecentView`: also in the version that its header names, or, for an `initialize`, one in which what follows is served; `TokensAreJudgedRight`; `MessagesAsWritten`; `FloodsAreBounded`. |

### Bounds, and why they are enough

Every comparison of policies in the code is between two versions or two instants. Three
versions give an edit, an edit during it, and one that undoes it. A word that
lasts one second with three instants is signed, current, last current and lapsed.

- `directories`: two nodes (one also a host), three versions, heads that expire after one
  second, one clock ahead. `NoStrings` leaves starts from a network string to `lost_copies`,
  which has two versions, either of them signed twice.
- `calling`: two nodes, one of them also a host, two versions, three instants, a refresh that
  takes no time (`RefreshBudget = 0`: with one second of it three instants would not reach
  past the window, so that `RemovedNodeWindow` could not fail; `stale_clock` has a refresh of
  a second). Words are announced when signed and an edit changes one node (`Prompt`), since a
  late announcement of an old word only makes it lapse earlier; a proof carries at most one word
  and the caller keeps two (`FewWords`). `Failover` has three hosts and three versions that each
  drop one, so that a call may lose each host it was about to try. `Tools` has two lines of the
  client, enough for a list and what is told after it, and one change of the grants. `PushCommands` has two
  commands, two serves one after the other, and a socket that holds one connection.
- `homes`: one poller, one command that also signs in, two directories, two versions and a `policy.json` of the
  older one (`Wholes`), so that a view cut from it is the older; two directories, both listed
  from the start (`FirstDirs`), and one fault for a publish; two processes and one kill on one home.
- `pushing`: two messages, a queue and a batch of one, so that each insertion meets the cap.
- `host`: two sessions of one caller, two versions with four contents, one restart; pipes, window and queue of
  one chunk and two chunks of output, so that every pump finds its buffer full.
- `directory_door`: two connections and pools of one, so that each pool is full when the second comes;
  two policies of three contents, so that an accept between two looks bans, drops or names the subscriber.
- `following`: two directories, one of them deaf to publishes, a full set of two words.
- `files`: two admins and one edit of each of the kinds in `MCEdits`; three keystore commands, any of them killed at any step; two logins of two people;
  two inboxes of which one waits, two messages of which one may expire (`Lapsing`), one kill.
- `edges`: one authorization at a time and a second that evicts it (`MaxPending`, `MaxCodes` = 1),
  four instants, and three kinds of requests: a modern one, one without a version, and an `initialize` whose header names one
  version and whose body asks for another; two keys of which one replaces the other, three tokens, two verifications told apart by nothing but
  their names (`SYMMETRY`, sound since the run has no liveness property). A set of keys lasts nine instants, the least at
  which "published for twice `MIN_TTL` and a fetch" comes before the set is over, and the clock goes that far
  (`KeysTime`). Three messages of lengths on either side of two limits; two tasks and three refusals; four clients behind
  three addresses and a table of two.

### Fairness

Nothing is assumed of ticks, edits, crashes, restarts, commands, callers or services. What is:

- `EditArrives`: an announcement under way is made unless the process ends (straight-line code
  after the lock is taken; weak), and the newest policy is published again and again to a
  directory that is again and again ready for it (`publish_retrying`, then `wires policy push`,
  which the documentation asks the admin for; strong, since beats and other publishes take the lock in between).
- `PollerCatchesUp`: the polling loop goes on while its process runs.
- `HostsGetIt`: rounds go on, the admin runs `wires policy push` again and again, and of its exchanges with
  a directory not all are lost (strong); a host without the policy it needs is started again and again, since
  `fetch_now` runs only at a start whose preflight fails, its fetch ends within its budget (weak), and where some directory
  has what settles it, some start is answered (strong, of the directories together). The property leaves out a host that
  asks a directory an edit dropped, and one where a version was signed twice, from a restored `policy.json`: with two
  directories the two signings may each be on one, and the command says so.
- `StopEnds`: every wait of a starting or serving process has a time limit, and a stop stays ready in `select!`.
- `QueuedArrives`: the sweep runs each interval; the recipient fetches again and again; a fetch that is
  again and again possible is decided, returned and received once without failing. A permanently failing
  connection delivers nothing and nothing is claimed of it.
- `SubscribersCatchUp`, `UndecidedSlotsReturn`: every read from a peer has a deadline, which passes, and a token's verification
  one of its own; a subscriber's task runs on a change, and a subscriber that stays reads what it is sent. `wire::write` has no
  deadline, so nothing is assumed of the writing of a proof or of a refusal, and `UndecidedSlotsReturn` excepts them (finding 4).
- `CatchesUp`: the follower's and the directories' tasks run, a stopped directory comes back, and the admin
  publishes again to every directory not `Deaf`.
- `CallEnds`, `SessionEnds`: a killed process dies, the host's pumps run and the caller prints what comes. Of
  the service nothing is assumed: it may never read, write or exit.

## Findings

Two have a run; the others were met while modelling, and are stated as definitions beside the code they are
about (the name in brackets) without a run, so that a reader can check them: give the property
to the run of its module.

1. `stale_clock`: `Vouching::check` uses one `now` before and after the refresh it awaits,
   so a caller may speak on a word that lapsed during it (at most 8 s earlier). The
   window for removed nodes then is `fresh_secs` plus that refresh, which is what
   `RemovedNodeWindow` states.
2. `view_file_race`: of two processes of one user that refresh at once, the slower may write
   an older view over a newer one. `RemovedNodeWindow` does not rest on the view, so the
   effect is staleness, until the next refresh. A home that holds `policy.json` needs no race: its refresh cuts the
   view from that and writes it over whatever is there (`KnownWaysBack` states all there is).

Policy and directories:

3. A directory that was removed and took the policy that removed it is refused by `wires directory serve`
   after the admin lists it again and it joins with the new string; the manual says a node is refused when
   neither the policy nor the string lists it [`ListedNodeStarts`].
4. A connection nobody was admitted on keeps its undecided slot while its request is read
   [`UndecidedUntilDecided`]; the whole policy may go to a node the policy held by then does not
   name [`WholeOnlyToNamed`]; an expired policy is streamed until the next beat [`ExpiredServedToNobody`]. A subscription takes a policy and then asks
   whether the one held by then names the subscriber, so it may be sent one that does not. The proof and the refusals of a connection
   nobody was admitted on are written with its slot in hand and no deadline (`serve.rs:106`, `serve.rs:241-271`, `wire.rs:36-41`):
   a peer that does not read one keeps the slot as long as its connection stays.
5. Checks made on a read older than the one edited: a person ban may outlive its issuer
   [`PersonBansBite`], a network may lose its last directory [`LastDirectoryStays`].
6. With two commands at once, `reached.json` is read, changed and written without a lock
   (`propagate.rs`, `note_reached`), so a directory that was reached can be forgotten and a later miss of it go unreported;
   and a directory may be reported as stale by a command that was itself overtaken. `ReportsAreTrue` is
   therefore checked with one command at a time (the module takes a set). A directory that
   an edit drops is told once at most; if it missed that, it goes on vouching for the policy before.

Hosts:

7. A push that waits in a long poll goes out to a node banned meanwhile [`BannedGetsNothing`].
8. Sessions share the issuers of whichever policy was noted last [`VerifiedUnderItsPolicy`].
9. A job that inherited the service's output keeps the session open after the caller went
   (`CallEnds` states what does hold); a handler's thread left in `read_stdin` keeps the call
   open [`ReturnedEnds`]. A bridge that cannot wait for its service, or not read its output, returns before it
   writes the call's log line (`transport.rs:444-452`) [`EveryEndIsLogged`]; `OneLineEach` says which ends have none.
10. Two serves that find one stale socket may both serve the home [`OneAtATime`]; a host that
    returned may still answer [`NothingOutlives`]; a socket in a temporary directory is looked for in the
    caller's own [`FindsTheHost`].
11. `wires push` to a role waits 120 s for a host that gives each recipient 3 s in turn, so it may exit 1 although
    everything was delivered; `RepliesAreTrue` claims nothing of a command that gave up.
12. A writer of the throttled log that was overtaken writes a line that counts nothing [`ThisOneIncluded`].

Callers:

13. Hosts that failed are remembered only by a call that another host answered [`DownIsRemembered`].
14. Two processes that store the same message at once may print it twice (`OnlyARacePrintsTwice`, a part of
    `ToldOnce`, states that nothing else does).
15. `server/discover` declares `{"tools": {}}`, and its client is notified all the same.
16. While the forced fetch of a new key is in flight, or just failed, other tokens signed with it are refused; until the
    first fetch times out each token starts one of its own. A refetch counts as made even if it was stopped by the failure of
    an older fetch, so a key may go unnoticed for twice `MIN_TTL` and the time of a fetch (`TokensAreJudgedRight` allows
    exactly these; an earlier form allowed once `MIN_TTL`, which no small instance refuted and the proof did).
17. Two logins save through one temporary name, so one may move the other's half-written file
    into place (`OneSignInIsKept` allows that race and no other). `--reuse` writes back the
    token it read, and a sign-in that got no refresh token keeps the previous one, whoever's it is.
18. The end of a stream inside a prefix is reported as a clean one; a control line may exceed its cap by what the
    buffer holds (`MessagesAsWritten`).
19. Keystores: two joins at once may both pass the check of the network [`OneNetwork`]; labels are lost or
    rebound [`LabelsStay`]; an init killed between its two files can never be finished [`RootHasPolicy`]; a command killed between
    creating a seed and writing it leaves a blank one that no command reads or replaces [`SeedsAreWhole`].

## Proofs

Eight modules hold the theorems. Each proves properties that a run checks, for every value of the constants that
the named assumption of the module allows (`...Assumption`, which TLC evaluates in the run), by an inductive invariant that
TLC checked first (but `FrameInv`, which TLC cannot evaluate: it says that a history exists).

| Module | Theorems | The invariant, and why it is needed |
| --- | --- | --- |
| `DirectoriesProofs` | `Invariance`, `ServingIsStored`, `StoreCoversEveryWord`, `StoredCopiesOnlyGrow`, `ServingOnlyGrows`, `VouchingNeverGoesBack`, `Implementation` | `Inv`: what a directory answers for (`Held`: memory when up, the store when down) covers every word it announced; the lock has one holder, whose pending word was signed for its head. An announcement is safe only because of what the first half of the operation, under the lock, left behind. |
| `CallingProofs` | `CallingInvariance`, `ToldIsTheirs`, `RemovedIsToldNothing`, `FailoverInvariance`, `CallsRunOnOneHost`, `ChangesAreTold`, `WhatIsToldIsTrue` | `CallingInv`: the date of every word that lists a node, announced, kept, shown or on its way, is covered by `listedAt`; a call that was spoken has its host in the view. So whoever speaks does it within the window. `FailoverInv`: a host told a call, once it is not the one dialed, has refused it; a host not told does not run it. `ToolsInv`: a list the client has, with no note since, says the services the server has; those are the poll's unless a view is marked new in one of the two channels; and the requests answered and the replies written are matched in order. `CommandsInv`: while a push is being sent, what it says of its recipients is what was queued, and a connection that was answered stays so. Lemmas: `HeadLen` finds the n-th newline, `CharFloor` the last whole character, `Apply` composes them. |
| `DirectoryDoorProofs` | `DoorInvariance`, `TheDoorHolds`, `HostsKeepTheirWords` | `InStep` of each connection: which slot each step goes with, and on the word of which version it counts as named or admitted, or was found not banned; `SeenBy`, that no version it looked at is newer than the one held, so that each look is at one as new or newer. Counts are cardinalities, which is why they never go below zero. `FollowInv`: whatever a frame, the follower or the set has is a word signed by a directory that its version lists, and the set has one for each signer, none for a version the host does not hold. So a word that takes another's place vouches as well as that did, unless it is the host's own, which may not vouch; then a set of more than one (`MaxFreshSet > 1`) has another. |
| `HostGateProofs` | `GateInvariance`, `TheGateIsKept`, `CapabilitiesFollowCalls`, `BridgeCarriesEveryByte` | `Stands` of each session: the version it read was noted against a high-water mark that has not fallen since it began; no session is logged before it is over. `CapabilityInv`: a token of a call that is over has an end, at most the grace after the call's. `BridgeInv`: what a service wrote is, by its numbers, printed, on its way (over the stream and the writer's queue, as one sequence) or not yet pumped; the exit frame is the last of what is on its way; what the caller sent is read, buffered or on its way. |
| `PushingProofs` | `PushingInvariance`, `NoPollMissesAMessage`, `DeliveredWasStored`, `QueuesStayTrue` | `PushInv`: what the queues and the file hold, that what is acknowledged is stored, and that permits and slots are those of open conversations. |
| `FilesProofs` | `MailboxInvariance`, `EachIsToldOnce`, `KeystoreGoesOnHolding`, `OneSignInStays`, `PolicyStaysTrue`, `EditsGoOnStaying` | `MailboxInv`: where each message is. `KeystoreInv`: what a command under way has found or made; a blank seed is left to the one that created it, which alone writes it. `SignInInv`: what is at the names that a login in mid-save writes, while nobody raced it. `EditsInv`: what a command signed was made over a stored policy, and a policy no newer than the stored one is it; with lemmas that a policy read back from its items is the one written. |
| `HomesProofs` | `OnlyKnownWaysBack`, `HomesAreServed`, `DeliveredIsHeld`, `ReportsHold` | `ViewInv`: what a process nobody raced has read, or got since, is no older than `view.json`, unless it compared it with no view, and what it cut from `policy.json` is no newer than that. `ServingInv`: the file at the path is that of the one that listens, unless a file was removed that nobody had probed; what a host took from its directory is stored, or newer is, and is on its way to it. `PublishInv`: whom a command reports holds what it says, and each directory it lists is in one of its lists; `AloneInv`: what it works from is what the files hold. |
| `EdgesProofs` | `GatewayServesRecentViews`, `GatewayTokensAreDue`, `VerifierJudgesTokensRight`, `FloodsStayBounded`, `MessagesAreReadAsWritten` | `RecentInv`: when each view was asked for, and in which version its request is answered (`SpeaksItsVersion`). `DueInv`: an authorization is at one stage, under one number, as it was confirmed. `KeysInv`: a set that lies about a key does not outlast the change by `MAX_TTL`; while one lacks a key published some time ago, whatever is on its way or failed was asked for then, or is a refetch. `ThrottleInv`: who is about to write a line moved the mark, `EVERY_MS` past any other that did. `LimitInv`: what a net was let through in its window, and in the time of one before it. `FrameInv`: there is a history of every byte that was written, cut where each message ends, in which what the reader holds and what is on the stream follow one another from where the messages it has read end; so no length is read out of a body. |

`Implementation` is the refinement: `Directories` implements `Witnesses` with `holds <- Held`. A restart and
the two announcements map to a vouch (or a take, or a stutter when there is no word to
sign), a crash to a take of what the store has over the memory, the end of an adopt while down to a take,
an edit to an issue, everything else to a stutter.

What the theorems suppose beyond types and finiteness:

- `Nodes`, `Callers` and `Issuers` are not empty, and `None` (and `Blank`, in `Keystores`) is none of the values it stands in for.
- `2 * HttpTimeout < MinTtl` (15 s and 60 s in `jwks.rs`), that an issuer gives no `kid` to two keys, `Poll > 0` in the gateway,
  that `Grace > 0`, and that every buffer of a session holds at least one chunk.
- That an output a host sends is text, for what is said of the cuts of it (`Tools.IsText`); that a role's name is no node id and
  that the members of a role are nodes (`PushCommands`).
- `QueuesStayTrue` supposes that writes of the queue file succeed (`SavesFail = FALSE`). With failing ones a restart finds a
  stale file and the property does not hold; the invariant and the other theorems of the module need no such thing.
- `ReportsHold` supposes one command at a time (`OneCommand`), as the run does: two overtake one another (finding 6).
  `DeliveredIsHeld`, the part of it that says who holds a publish, needs no such thing.
- No limit is over what a prefix can say (`LimitAssumption`; `u32::MAX` in the code, three digits in base 2 in `Framing`, so
  that what is proved of messages is for bodies up to seven bytes, any number of them, and any limits up to that).
- A policy lists no directory twice, as `validate` has it (`FollowingAssumption`).
- No process of a home is called what stands for no file or a dead one's (`ServingAssumption`).
- `OneSignInIsKept` and `ToldOnce` are about logins and readers that nobody raced in the one way their definitions name
  (findings 14 and 17); the theorems show that no other way is there.

Two kinds of argument stand in for induction over data, which is out of the prover's reach: a finite or well-founded
set with a counterexample has a least one (the clock that is furthest ahead, the first message out of place in a queue, the
newest of the entries that an eviction leaves), and a sequence is spoken of by its positions, never by folds or `SelectSeq`: what
the lines of the log add up to is stated by the partial sums there are (`Floods.Totals`), which a step extends by one.

Three proofs did not go through for a good reason, and changed the model. In `Gateway.RequestEnds` and in `Tools.Handle` arms of a
CASE overlapped, so that TLC took the first and the logic any. `NewKeysAccepted` was too strict (finding 16).

### Model-checked only

Only liveness: every invariant and action property that a passing run checks is stated by a theorem.

- Liveness (`EditArrives`, `PollerCatchesUp`, `HostsGetIt`, `StopEnds`, `QueuedArrives`, `SubscribersCatchUp`,
  `UndecidedSlotsReturn`, `CatchesUp`, `CallEnds`, `SessionEnds`): beyond the prover, as is ENABLED.

## Not modelled

Signatures, encodings below the level of a frame, the transport and its encryption, HTTP, the
identity providers' own pages, and the wording of everything people read. Of the program:

- the loopback HTTP listener of `wires login` and its pages; how a refusal is explained (`hello.rs`);
- the gateway's fetch of a client's metadata document and its cache, and its pages;
- the name resolution in `view.rs` (`resolve`), how views, policies and logs are printed;
- the per-peer encoding of an answer larger than a frame, and the cut of joined words to sixteen
  (`vouch.rs`);
- parsing of command lines and configuration files;
- file modes, key generation and key formats;
- the example services, benchmarks, scripts and foreign-language glue, which hold no core logic.
