# A TLA+ model of claude-vk

claude-vk is an MCP channel server: it listens to a VK community over Long Poll,
lets through the messages of the people and chats that `access.json` allows, hands
them to a Claude Code session, sends the session's answers back through the VK API,
and relays permission prompts to a person's phone. It is one Bun process with one
event loop: between two `await`s nothing else runs, and at every `await` anything
may. The models below make each stretch of code between two awaits one action. On a
server, cron keeps the session alive; the models of the host's scripts make each system
call that others can see one action.

## 1. Inventory

All paths are below `server/src/`.

| Component | State it keeps | Operations | What is hard about it |
| --- | --- | --- | --- |
| **JSON file store** `state/json-store.ts` | the file, its `.tmp`, the cache, the write chain | `init`, `get`, `update`, `reload` | order of racing updates, torn files, crashes between two file operations, a failed job in the chain, a reload beside an update |
| **Access store** `modules/access/access.store.ts` | the watch, the debounce timer | `init`, `get`, `update`, reload on change | lost and coalesced events, a rename under the watch, a bad hand-edit |
| **Permission relay** `modules/permission-relay/` | the pending prompts and their timers | `handleRequest`, `tryResolveVerdict`, `expire` | a tap against the timer, double taps, re-issued ids, a prompt that is never answered |
| **Rate limiter** `vk/rate-limiter.ts` | tokens, time of the last refill | `acquire`, `withRetry` | callers that race for a token, fractions of a token, the clock set back, retries |
| **Access service, pairing, gate, pending groups** `modules/access/` | policies, chats and codes in `access.json`; the registry of dropped groups | 7 admin calls, `emitCode`, `consume`, `pruneExpired`, `check`, `record` | a check that is stale when the queued update runs, codes that expire in flight, restarts |
| **Inbound pipeline** `modules/inbound/inbound.service.ts`, `notifier.ts` | who was told that they are not allowed | `handle`, `sendDenyReply`, `notify` | downloads, look-ups and other messages between gate and notification, a session that is not open yet, a restart in between |
| **Mention detection** `access/mention.ts`, `access/community-resolver.ts` | the community's identity | `detect`, `prefetch` | messages before the identity is known |
| **Long poll** `modules/inbound/long-poll.service.ts`, `common/status.ts` | connected, last error, warned | `start`, backoff | outages of any length, one warning only, a diagnosis that nobody is there to read |
| **Attachments** `inbound/attachments.ts`, `messaging/upload-attachment.ts` | files in the inbox | `downloadAll`, upload | one of several fails, half-written files |
| **Messaging** `modules/messaging/` | the ring of sent message ids, the random id counter | `send`, `edit`, `delete`, `react`, `markRead` | chunks of which a later one fails |
| **Chunking** `vk/chunk-text.ts` | none | `chunkText` | boundaries |
| **User cache** `modules/users/users.cache.ts` | `peers.json`, the screen-name index | `resolve`, `getFull`, `resolveScreenName` | an index that outlives the entry, eviction at the limit |
| **VK client** `vk/client.ts` | the API handle | one method per VK call, all through `withRetry` | none of its own |
| **MCP server and tools** `mcp/`, `*.tools.ts` | none | registration, envelopes | none |
| **HTTP admin API** `*.controller.ts` | none | routes to the services | none |
| **Boot** `app.ts`, `env.ts`, `common/di` | none | a straight line | none |
| **Setup, VPS, uninstall** `setup.ts`, `vps.ts`, `uninstall.ts`, `deploy/respawn.sh` | the installed script, the crontab, the tmux session | `setup`, `uninstall`, two cron jobs | processes without a lock: one temporary name, two jobs in one minute, a script that rewrites itself |

How they interact. `app.ts` initialises the stores, prunes old pairing codes, then
starts the MCP server, Long Poll and HTTP, in this order. Long Poll calls
`InboundService.handle` for each message, without waiting for earlier ones. `handle`
asks the gate, which reads the access store's cache; it then calls the relay, the
pairing service, or the notifier. The admin API changes the access store through
`AccessService`. Everything that talks to VK goes through one `RateLimiter`. The access
store and the user cache each own a `JsonStore`; only the access store watches its file.

What makes each component correct:

- store: an accepted update is never lost, nothing is read that is not on disk, the
  file is never half written, every update settles, a bad hand-edit changes nothing, a
  good one is served in the end;
- relay: no prompt is answered twice, only the person asked can allow, every prompt
  ends (with a verdict, unless a tap on an older keyboard with its id has ended it);
- rate limiter: the quota over every interval, no needless waiting, every call returns as
  long as new ones do not come for ever;
- access: nobody is let in whom the operator never let in; until a reload reverts the file, a
  code that was sent works and works once, and a chat that was removed stays out; nobody is
  told twice that he is not allowed;
- messaging: what arrives is the text, nothing but blanks missing between its pieces; only
  quotes of the bot count as replies to the bot;
- user cache: the latest answers of VK are kept, the index invents nobody, every lookup
  returns;
- long poll: `/state` tells what is wrong, each warning is pushed once, the connection is
  made in the end;
- inbound pipeline and attachments: what was let in is shown, once and whole, as long as
  the session lives; a click on a verdict button is not;
- host: the session comes up again and again, an update of the plugin lands by itself, no
  broken script stays, a setup that is not raced leaves a script that can be executed.

The hazards behind these are listed in `PROJECT.json`, each at its line.

## 2. Modules

| Module | Models | Extends |
| --- | --- | --- |
| `AtomicStore` | what a store promises: a durable cell, one step per update | |
| `JsonStore` | `JsonStore` and the watch of `AccessStore` | instantiates `AtomicStore` |
| `JsonStoreProofs` | theorems about every store, one whose file nobody removes, and one without a watch, up to the refinement | `JsonStore`, TLAPS |
| `PermissionRelay` | `PermissionRelayService` behind the gate | |
| `MCPermissionRelay` | its constants: which prompt carries which id | `PermissionRelay` |
| `PermissionRelayProofs` | its theorems | `PermissionRelay`, TLAPS |
| `RateLimiter` | `RateLimiter` | |
| `RateLimiterProofs` | its theorems | `RateLimiter`, TLAPS |
| `AccessControl` | `AccessService`, `PairingService`, `AccessGate`, `PendingGroupsRegistry`, `InboundService` | |
| `MCAccessControl` | its constants and symmetry | `AccessControl` |
| `AccessControlProofs` | its theorems | `AccessControl`, TLAPS |
| `MessageSend` | `MessagingService.send`, `chunkText`, `nextRandomId`, `RecentSentMessages`, `isReplyToBot` | |
| `MCMessageSend` | its constants: texts that `chunkText` treats differently | `MessageSend` |
| `MessageSendProofs` | its theorems | `MessageSend`, TLAPS |
| `UsersCache` | `UsersCache` over its `peers.json` | |
| `UsersCacheProofs` | its theorems | `UsersCache`, TLAPS |
| `LongPoll` | `LongPollService`, `StatusRegistry`, the opening of the session | |
| `Channel` | what the way from VK to the session promises | |
| `InboundPipeline` | the dispatch of messages, `handle` past the gate, `AttachmentService`, `ChannelNotifier` | `LongPoll`, instantiates `Channel` |
| `MCInboundPipeline` | its constants: what messages are | `InboundPipeline` |
| `InboundPipelineProofs` | theorems about both, up to the safety part of the refinement | `InboundPipeline`, TLAPS |
| `Host` | `respawn.sh`, the cron lines, `runSetup`, `runUninstall` | |
| `HostProofs` | its theorems | `Host`, TLAPS |

An operator named `Fault...` is a plausible bug of the definition after it. Nothing
uses it; `PROJECT.json` ("mutants") says which property notices when it takes that
definition's place.

### JsonStore

A value is the set of the mutations it contains, so "lost" and "overwritten" are visible
and nothing else of the JSON is. `disk` and `tmp` are the two files: absent, torn (opened
and truncated) or a document. `chain` is `writeChain`. `stage[u]` follows an `update()`
through the code:

    idle -Call-> queued -Clone-> cloned -Truncate-> open -Fill-> written -Rename-> renamed -Publish-> done

with `Reject` where `assertValid`, `writeFile` or `rename` throws. `writeFile` is two
steps, since the process may die between them. A `reload()` goes through `reading` and
`read`, or, when it finds no file, through the same `atomicWrite` with the defaults and the
same `.tmp`; that is why `Fill` covers two writers of one file and a descriptor whose file
has been renamed away. `init()` is three steps: `BootRead`, `BootCreate` (or `BootFails`)
where there is no file, and `BootWatch`, so that others may change the file in between.
`WatchEvent` and `ReloadStart` are `scheduleReload` and its timer, which starts a reload
whether or not an earlier one is under way. A person may save the file, another program may
remove it (`MaxUnlinks` times), and the process may die at any step.

`Converges` says that once changes stop, what is served is what the file holds. It names the
two exceptions the code leaves: a change between `readFile` (line 78) and `fs.watch`
(`access.store.ts:55`) is not noticed (`missed`), and of two reloads that overlap the one that
read earlier may finish later and stay (`overtaken`). Either lasts until the next change.
`older` and `passed` are the history that tells the second apart.

The write of the defaults at boot is one step (`BootCreate`): nobody else writes the temporary
file then, and no process is up that could read.

Left to the environment, as `src/` uses it: `fs.watch` reports a change some time after it
happens, once or more; where it follows the inode (`PathWatch = FALSE`) it reports the
rename that replaces its file and then no more. Two assumptions keep out what the code's
timing excludes: the 100 ms debounce outlasts the `chmod` of an update that has renamed
(`outlasted`), and a hand-edit is saved from the content on disk. The number of reloads that
may overlap is that of `Reloads`: two in `store_watched`, any in the theorems.

### PermissionRelay

A prompt is one `permission_request`; several may carry the same id, and the map, the
buttons and the verdict know only the id. `phase[p]` says what became of the prompt,
`pending` is the map, `armed` the timers. `Deliver` and `SendOk` are separate: VK shows the
keyboard before `messages.send` returns, so a tap may arrive before the prompt is
registered. The gate and `tryResolveVerdict` run without an await between them and are one
step (`IgnoreTap`, `AnswerTap`, `ForeignTap`). `AccessChanges` is everything the operator
and a hand-edit may do to the two things the relay reads: the paired DMs and the kill
switch. `Restart` empties the map; keyboards stay on the phones. `FirstDm` is the smallest
peer id, because JavaScript lists integer keys in ascending order. `tryResolveVerdict` forgets
the prompt before it compares the sender (lines 124 and 130), so `ForeignTap`, on an older
keyboard with the same id, ends a prompt without a verdict and without its timer.

### RateLimiter

A tick is the resolution of the clock. Tokens are counted in units of `1/Second`, so a
tick is worth `Rate` units and all numbers are integers. `credit` is what the time since
`lastRefillAt` is worth, capped at a full bucket, and negative after the clock was set
back. One turn of `acquire`'s loop is `TryAcquire`; `withRetry` is `Begin`, `TooMany`,
`Retry`, `Return`. `load` is history: the largest excess, over all intervals that end now,
of the requests made over what `Rate` allows. The code's doubles are taken to be exact.

A caller that has returned may come back (`Begin`), so the calls are an endless stream of
which `Callers` bounds those under way. `acquire` has no queue: a newcomer may take the token
that a sleeper wakes for, again and again, and then the sleeper's loop goes on for ever.
`CallsReturn` therefore says that every call returns unless new calls come for ever; it cannot
say more of this code. The clock may be set back (`Setbacks` times by at most `MaxSetback`); a
step forward, which fills the bucket too early, is not modelled.

### AccessControl

A `File` is the content of `access.json`: policy, paired DMs, groups, and the DM of each code.
`stored` is what the file holds, `served` what `get()` returns, and they are not the same: the
file is watched. An admin call is checked against `served` when it arrives (`Call`), may wait
for VK to resolve a name (`Resolve`) and waits in `queue`. When its turn in the chain comes its
callback edits a copy of `served`, which is renamed into place (`Store`, in `RemoveChat`,
`EditSenders`, `SetMentionPolicy`, `SetDmPolicy`, `AddGroup`, `Consume`), and later the copy is
served (`Serve`, in `Publish`, after which `AddGroup` goes on to `ForgetGroup`); or it fails
(`UpdateFails`). A message goes through `Handle`, which is the gate and one of its four
outcomes: `Drop` records an unknown group, `Deny` sends one reply a day, `NeedPair` emits a
code (`StoreCode`, `PublishCode`, `TellCode`), `Admit` lets it through to `InboundPipeline`.

A reload reads `stored` at any time (`ReloadRead`) and serves what it has read at any later time
(`ReloadFinish`), outside the chain, as `JsonStore` has it; the debounce that makes this rarer is
left out. `Store` takes the clone and the rename as one step. That loses no behaviour: nobody sees
the copy, a reload that reads the file between the two might have read it before the clone, and
one that finishes between the two might have finished after the rename, since the job publishes
its copy anyway. A failed or interrupted write leaves the file as it was, which is `UpdateFails`
and `Restart`.

`reverted` is history: a reload has served something that is neither what was served nor what
is in the file, so it has put back what an update had replaced. `store_stale_reload` shows that
the code does this with nobody touching the file. After it the next update writes the file
without what was lost, and nothing that the store keeps is certain: a code that was told may be
gone, a removed chat may be back, an allowed group may be listed as pending. `ToldCodesWork`,
`AllowedNotPending` and `OperatorAdmits` are therefore about what happens until then, with reloads
that finish in time among it. `NoStranger` is about everything: whatever is put back, nobody is
let in whom the operator never let in, by `addGroup` or by the use of a code for that very DM
within its ten minutes.

Time appears as three events: a code expires, a reply is a day old, the process restarts. A new
code is one that nobody holds (the real one is six random letters of 31). Hand-edits are in
`JsonStore` only; what a message says about the bot is an input; a verdict button is
`PermissionRelay`'s. `Found` is what the file may hold at the start; whether a call ends well or
with an error is not told apart. A chat that is removed while `addSender` resolves a name or waits
in the chain makes the update do nothing (`Edited`), and the caller is told that it succeeded.
The registry, a map, is the sequence `dropped`, the group seen longest ago first: `Without` takes
a group out, `Recorded` puts it last.

### MessageSend

A text is a sequence of blanks and letters, a piece is a pair of offsets. A call goes
`idle -Send-> next -Post-> posting -Deliver-> posted -Returned-> next | ok`, or `failed`
where the send throws (`SendThrows`, before VK has the piece or after) or the process
restarts. `Cut` and `Skip` are the body of `chunkText`'s loop; the code cuts all pieces
before it sends the first, the model cuts each when it is sent, which is the same since
neither the text nor the offsets depend on anything else. `Post` draws the random id,
`Returned` feeds the ring and `ReplyToBot` reads it. `conv` is VK: per conversation, its
messages in the order of their numbers; a send whose random id is known in the
conversation is answered with the message that has it. `toSendResponse` accepts two shapes of
VK's answer, and its comment (`vk/mappers.ts:4-5`) expects the numeric one of a send to a single
peer, the only kind the client makes; which one VK gives is not in the repository. `numeric` is
that choice, either way in every run. `SentWhole` holds with both. What depends on the number,
`NoStrangeReply`, holds with objects (`RepliesMatchPeer`) and is violated with numbers
(`message_numeric_id`); the ids that a call answers are then not the numbers in the conversation
either, so there is no property about them.

Left to the environment: fewer than `Modulus` (1000) ids are drawn in a millisecond,
because every piece waits for an answer and for the rate limiter; a restart takes more
than a millisecond; the clock is not set back between two sends. `edit`, `delete`, `react`
and `markRead` are single requests without state and are not modelled.

### UsersCache

`users` is `peers.json`, `index` is `screenToId`. A lookup is asked (`Ask`) only if the
cache cannot serve it, VK reads the person (`VkReads`), the answer arrives and is dated
(`Arrive`), and when its turn in the store's chain comes it is stored, the oldest entries
make room and the name is indexed (`Persist`). VK may know nobody, the call may throw and
the update may fail (`Fallback`). Reading and arriving are two steps, so that answers
overtake each other and a name may change in between (`Rename`): a person drops it, another
takes it. An update of the file is one step, which is what `AtomicStore` promises of a store
without a watch. The clock counts answers, so that no two entries are equally old and none is
dated before an earlier one; the code's is `Date.now()` (`users.cache.ts:116`), which may tie, so
that either of two entries may go first, and may be set back, so that an entry looks older than it
is. `HourPasses` makes those up to some answer stale. `stored` and `held` are history.

Two things the code does not promise, and `KeepsLatest` and `IndexCovers` do not claim. An
entry is dated when the answer arrives, not when VK read the person: of two answers about one
person the one that arrives last is kept, though it may be the older reading. And the index
never drops a name: it may lead to a person who has lost it or has been evicted. After a
restart two cached holders of one name are told apart by their ids only: the highest gets it
(`Rebuilt`).

### LongPoll

The state of `startWithBackoff` is `loop`; a process goes

    off -Start-> starting -FailToStart-> sleeping -Wake-> starting -Connect-> running

and ends where the token is missing (`Start`) or refused (`Refuse`). `reachable` is all
else that `updates.start()` may meet: the network, VK, the settings of the community. It
changes at will until polling begins; what `vk-io` does about an outage after that is its
own, and `vkConnected` stays true then. `connected` and `lastError` are the `StatusRegistry`,
`pushed` counts the warnings (history). `app.ts` serves stdio and starts the loop without
an await in between, so `OpenSession` comes after `Start`: the warning about a missing
token, which `docs/troubleshooting.md:22` says is pushed on launch, has no reader, and
`/state` is what tells. `stop()` has no caller in the repository and is left out.

### InboundPipeline and Channel

`Channel` is the promise: a message that was let in is shown once if a session listens, is
lost only with the session or for want of one, and a click is never shown. It promises no
order, since handlers of two messages run side by side and the shorter download wins.
`InboundPipeline` adds the messages to `LongPoll`, one handler each:

    new -Handle-> saving -Fetch-> writing -Written-> saving ... -Notify-> shown | missed

`Handle` is everything up to the first await of an admitted message: the gate's answer is a
choice (`AccessControl` has the gate), and a click is consumed. `KeepUrl`, `Fetch`, `Written`
and `DownloadFails` are the turns of `downloadAll`'s loop; `out` is its result so far and
`inbox` the files, which stay when a process ends. The wait for the name has no state of its
own, since `UsersCache.resolve` always answers. `fetchBytes` (`attachments.ts:75`) sets no
timeout, so that a download ends rests on the runtime, which ends transfers that stay idle.
`Restart` cuts off the messages that are being handled: VK does not deliver them again. A
message's directory is named by conversation and number, which VK gives to one message, so no
two write one file.

`notify` mentions the saved files only, if there are any, and the kinds of the attachments
otherwise (`Mentioned`): of two attachments of which one fails the session hears of one, and
it never sees the URL, whatever the comment at `attachments.ts:22` says.

### Host

Each cron line and each shell of a person is a process. `respawn.sh` is `Respawn` (or `Kill`
and `Refresh`), `Check`, the steps of setup, `Launch`, and `Press` or `GiveUp`; `runSetup` is
`Exists`, `Compare`, `Open`, `Fill`, `Chmod`, `Rename`, `Schedule`; `runUninstall` is
`Uninstall`, `Unschedule`, `Remove`. `script` and `temp` are the two names; `writes` follows
the descriptor of a writer, which stays with the file when another process renames it; `runs`
says which name has an executable file. `Compare` throws, which ends setup, when an uninstall
has removed the script since `Exists`. One script stands for the three files that setup writes
in the same way.

The comment at `respawn.sh:18` says that writes are atomic. They are for one setup at a time:
`respawn.sh.tmp` is one name for all, and in the model `script` may be empty, or hold one
version over another, for as long as a second setup has not finished its write.
`ScriptSettles` says that this passes. It would not if that setup were killed just there: an
empty script does nothing, and every later respawn is that script. The model therefore says
that no process is killed between two of its steps. A shell reads the script in one go: what it
makes of one that is filled while it reads is not modelled.

The mode does not settle. Setup A has set it on the temporary file (`setup.ts:40-46`), B
renames that file into place, C creates a new temporary file, which is not executable, A
renames it, and C's `chmod` finds no file and its error is swallowed. Both cron lines start
`respawn.sh` by its name and fail from then on, and no later setup of the same version helps,
because `install` (`setup.ts:55`) compares the content only. `KeepsMode` says that nothing but
such a race does this: a script is put in place without its mode only while another setup is
between the creation of the temporary file and its `chmod`. `SessionComesBack` and
`UpdatesLand` assume that it has not happened for good (`Installed`); `deploy/README.md:22`
promises the second without a condition.

Nor are `uninstall` and a respawn kept apart: one that is past its check brings script,
schedule and session back. Left out are `.env`, which is written only where there is none, the
other lines of the crontab, which `installCron` reads and writes back, and a second bot:
`deploy/README.md` has its `respawn.sh` edited by hand, but the script runs setup on its own
directory, which puts `session=vk` and the launch line of this plugin back.

## 3. Runs

| Run | Question | Bounds | Distinct states |
| --- | --- | --- | --- |
| `store_unwatched` | Is `peers.json` an atomic, durable store? | 3 updates (one invalid), 1 edit, 1 crash | 5.3 thousand |
| `store_watched` | Does `access.json` serve valid states only, and the file's in the end? | 1 update, a valid and an invalid edit, 1 removal, 2 reloads at once, 1 crash | 268 thousand |
| `store_stale_reload` | Does the chain protect updates from reloads? **violated** | 3 updates, no edit | |
| `store_inode_watch` | Does the watch survive a rename? **violated** | 1 update, 1 edit, inode watch | |
| `relay` | Are prompts answered at most once, only by the right person, and do they end? | 3 prompts, 2 with one id, 2 people, 1 tap under way | 810 thousand |
| `rate_limiter` | Quota, waiting, return | 3 callers at once, any number of calls, bucket of 2, 2 tokens per 3 ticks, 3 attempts, 1 set-back | 792 thousand |
| `access` | Codes, pending groups, replies, admission, beside reloads | 2 admin calls, 2 messages, 2 DMs, 2 groups, 2 users, 2 codes, 1 reload at a time, 3 contents to start from, registry of 1 | 1.4 million (symmetry) |
| `message_send` | Does the text arrive, and are replies told apart when VK answers with objects? | 2 calls, 2 conversations, 7 texts of 2 to 7 characters, pieces of 3, search window of 2, ring of 2, counter mod 2, 2 milliseconds, 1 message of a person | 2.4 million (symmetry) |
| `message_numeric_id` | Are they when it answers with a number? **violated** | as above, 1 text of 2 | |
| `users_cache` | Are the latest answers kept, is the index sound, does every lookup return? | 2 lookups at a time, 3 people, 1 name, limit of 2, 3 answers, 2 changes of name | 1.1 million |
| `inbound` | Is what was let in shown, whole and once? Does `/state` tell, is the connection made? | 2 messages: a click, a text, or 2 attachments; 3 tokens, 3 attempts to a warning, 1 restart | 450 thousand |
| `host` | Does the session come back, does an update land, does a script stay broken, is its mode lost without a race? | both cron jobs, 1 shell, 2 versions; nothing is counted | 895 thousand |

Why the bounds are enough to be interesting. A lost update needs two writers and a third that
writes over the first; a re-issued prompt needs two with one id, and the third shows that
another id is not disturbed; a refill that leaves a fraction needs a rate that does not divide
the tick, and starving a sleeper needs another caller that comes back; a race of admin calls
needs two, and the reload that reverts one of them reads before it writes and finishes after;
an eviction needs a registry that one group fills. A reload that is overtaken needs a second
one. The texts of `MCTexts` are those that `chunkText` treats differently: shorter than a piece
and exactly a piece, a blank before the search window, at its start and after it, a rest of
exactly a piece, blanks across the cut to the end, and a blank right after a hard cut. A
counter modulo two wraps in one call. A cache of two evicts at the third person, and may hold
two people of whom one has taken the other's name, which takes two changes. Two messages
overtake each other, and a click arrives beside a text; two attachments of which either may
fail make every trailer there is. Three processes that may all be in setup are what the loss of
the mode needs, and one more than an empty script does; versions change back and forth without
end. Crashes are bounded by `MaxCrashes`, removals of the file by `MaxUnlinks`, set-backs by
`Setbacks`, taps under way by `MaxTaps`, restarts of the pipeline by `MaxReboots`; restarts of
the relay, of the access model and of the user cache are not bounded. `failures` counts up to
the first number that nothing distinguishes from the next.

`CHECK_DEADLOCK FALSE` stands in the configurations of the store, of `MessageSend` and of
`InboundPipeline` only: when every update has settled, every edit is saved and the crashes
are used up, or when every call has ended and the clock has reached its bound, or when the
loop polls or has ended, the session is open and everyone has written, nothing is left to do.

Fairness, and what justifies it:

- store: a file operation that was started completes or fails, a resolved promise runs its
  continuation, an armed timer fires, the supervisor (`deploy/respawn.sh`, or the next
  session) starts the process again. No fairness for edits, crashes or new calls.
- relay: a send returns, because `VkClient` gives up after its retries; a timer fires.
  None for taps: nobody has to answer.
- rate limiter: time passes, timers fire, VK or the HTTP timeout answers each request. None for
  a sleeper to get the token it wakes for.
- user cache: VK answers or the HTTP call times out, and a turn in the store's chain comes,
  since its file operations complete or fail.
- long poll and pipeline: `updates.start()` answers or fails, a timer fires, a download (which
  the runtime ends when it stays idle), a file operation, a look-up and a notification complete
  or fail. None for VK to be within reach (`ConnectsEventually` assumes it), for people to
  write or for a session to open.
- host: processes run to their ends and cron is punctual; and of infinitely many launches
  some show their prompt within twenty seconds (strong fairness of `Press`), without which
  no session would ever pass it.
- access, messages: safety only.

### What the violations show

1. `store_stale_reload`. `reload()` (`json-store.ts:72`) sets the cache outside the write
   chain. Each update's rename triggers a reload; one that read before the next update and
   ends after it puts the older value back, and the update after that writes the file
   without the middle one. The class comment says that updates cannot interleave. For
   `access.json` the middle one may be a pairing code, an `addGroup` or a removal; the module
   AccessControl says what is left then.
2. `store_inode_watch`. `fs.watch` is bound once (`access.store.ts:55`). Where it follows
   the inode, the first update's rename ends it, and hand-edits are no longer reloaded as
   `ACCESS.md` says.
3. `message_numeric_id`. When VK answers `messages.send` with a number, that is the id among
   all messages of the community; `toSendResponse` (`vk/mappers.ts:9`) takes it for the
   number in the conversation. The ring then holds numbers of other messages, and a reply
   to a person's message may count as one to the bot. The session also edits and deletes
   by that number. The comment above (`mappers.ts:4-5`) expects just this answer of a send to a
   single peer, the only kind that `client.ts:42-54` makes; VK's answer itself is not in the
   repository.

## 4. Proofs

`tlapm` checks every obligation. The theorems hold for all values of the constants that
satisfy the named assumption of the module.

**Store.** `JsonStoreProofs` proves `TypeCorrect` and `SchemaHolds` of every store, watched or
not. `TypeOK` alone is not inductive: an update that settles takes the head of the chain out,
so the invariant has to know that the writer is the head (`OneWriter`). `SchemaHolds` adds that
drafts on their way to the cache are valid, and so does what a boot under way has loaded.
`FileIsWhole` is about every store, watched or not, whose file nobody removes (`NeverRemoved`:
`MaxUnlinks` is 0): then the file is there whenever the process is up (`DiskOK`), so a reload
finds it and does not write (`ReadersOK`), and the head of the chain has `.tmp` to itself
(`TmpOK`). The assumption is needed: with one update, one reload and one removal, TLC finds
`NoTornFile` violated. A reload that finds no file writes the defaults (`json-store.ts:81`)
outside the chain and through the one temporary name (line 105); it may truncate what an update
has just filled, and the update then renames an empty file into place. The rest of the module
is about such a store without a watch (`Unwatched`), which keeps these and needs more.
`NoLostUpdate` says nothing of the cache, but the next draft is a clone of the cache: the
invariant `UInv` says that cache and file agree on the updates, up to the one that has been
renamed and not published (`Synced`), and that the draft of a writer is the cache and its
update (`DraftOK`). From it follow `UpdatesAreKept`, `ReadsAreClean` and `StoreIsAtomic`: every
step of `JsonStore` is a step of `AtomicStore` or leaves its variables alone, and `Rename` is
the commit. For a watched store `NoLostUpdate` is false, as `store_stale_reload` shows.

**Relay.** `Timers` (the armed timers are those of the pending prompts) is inductive with the
facts that a pending prompt carries its id and is in phase "pending". `AtMostOneVerdict`
counts: there are no more verdicts of an id than prompts with it that were answered or expired.
`Authorised` follows from these and the shape of each step.

**Rate limiter.** `Quota` needs the relation between the bucket and the load:
what has been sent in excess, together with what is still in the bucket and due, never
exceeds a bucket and a token. The extra token is the price of `refill`'s shortcut, and the
bound is tight: `load <= Full` is violated. `SleepsNoLonger` is inductive on top of that. The
time to sleep is a quotient that is rounded up, and the proof needs both sides of the
rounding: it is enough (`ShortageTight`) and one tick less is not (`CeilDivTight`). That other
calls only take from the bucket, and that a tick makes `wait` and the room for a token
smaller together, is the rest.

**Access.** All six theorems are about a watched file with any number of reloads under way.
`ToldCodesWork` is not inductive: a code may be told long after it was chosen, and in between
the sweep of another code, a removal, a restart or a reload may take it. The invariant follows
the code of a message under way (`CodesOK`: no other message has it, and nobody was told it
before its update is published). `QueueOK` says that who is in the chain waits there, once, and
that the one that has written is its head. Then `SyncOK`: until a reload reverts something,
what is served is what the file holds, but for the one job that has written and not published,
which can have added its own group or its own code only. So a copy of `served` loses nothing
that the file has. `AllowedNotPending` is inductive with these, because `record` runs only for
a group that is not served and `forget` follows the turn that serves it. `PairsOK` and
`NoStranger` are about every content that somebody holds, a reload that has read and not
finished included, and need no condition: a content is only ever copied, edited or put back,
and an edit lets in a chat only together with `admitted`. For a DM that needs `PairsOK`, since
the code used may come from a content that was put back: its DM is still the one it was emitted
for. `OneDenyReply` needs that the mark is set before the first await: who has had a reply, or
is about to, is in `denied`, and only one reply to each is being sent (`RepliesOK`).
`OnlyOperatorAdmits` follows from the shape of the steps that run at the head of the chain and
from `SyncOK`.

**Sending.** `CutEnds` and `SkipEnds` say of any text and offset what one turn of `chunkText`'s
loop gives: a piece that is not empty, not too long and ends within the text, and a next offset
that only blanks are in front of. `TextArrives` then follows the cursor (`CallOK`: the pieces
VK has end at the cursor, but for the one whose answer is on its way, which is the last and
begins there), provided VK takes every piece for a new message (`Delivered`). That is where the
random ids come in: the ids of this millisecond are the last `burst` values of the counter
(`Drawn`), so as long as fewer than `Modulus` have been drawn the next value is none of them,
also after the counter has wrapped, and no id of an earlier millisecond reaches into this one
(`IdsOK`). The counter restarts at 0 with the process, which the new millisecond makes
harmless. `TypeCorrect` and `TextArrives` hold for both kinds of answers. `RepliesToldApart` is
about objects, as `RepliesMatchPeer` says, and `message_numeric_id` shows that it must be: an
answer under way is the number of the call's piece (`AnswerOK`), and the ring holds nothing
else (`RingOK`). The least blank of the text after an offset exists because `<` is well-founded
on the naturals.

**Long poll and pipeline.** `WarnsOnce` counts failures across outages: the invariant ties
`warned` and what was pushed to their number (`WarningOK`). `ShownWhole` needs that
the entries so far are one per attachment and that a named path has its file whole, also after
the process that wrote it has ended (`PathOK`). `StepsOfChannel` is the refinement: under the
mapping `Fate`, `Handle`, `Notify`, `CutOff` and `Restart` are steps of `Channel`, everything
else leaves its variables alone. `Channel!Spec` is this and fairness; the second half
is TLC's.

**Host.** `ScriptSettles` says nothing of the temporary file, but a rename puts it in the
script's place: an empty temporary file has a writer that will fill it and whose descriptor
follows the rename (`TempSettles`), and a process in setup knows which version it installs
(`SetupKnows`). `ModeIsKept` needs the same of the mode: a temporary file that is not executable
was created by a setup that has not come to its `chmod` (`ModeComes`).

**User cache.** `KeepsLatest` is about entries that are gone, and says that whatever is kept is
younger. Its induction needs the dates: no two entries are equally old and none is from the
future (`DatesOK`), and the answers in the chain are in the order of their dates, all later
than what was ever stored (`QueueOK`). An eviction then takes exactly the oldest entries:
`EvictedCount` says how many are left, by cardinalities, and `EvictedOlder` that they are the
younger ones; that a nonempty set of dates has a least one comes from `<` being well-founded,
which the library states of a set, so that no theorem with an operator as its parameter is
needed. `IndexCovers` needs that the names which VK holds, has answered or are in the file were
once the holder's (`NamesOK`), across evictions, which leave names in the index, and restarts,
which rebuild it.

Only model-checked:

- everything temporal (`UpdatesSettle`, `Converges`, `PromptsEnd`, `CallsReturn`,
  `LookupsReturn`, `ConnectsEventually`, `SessionComesBack`, `UpdatesLand` and the liveness part
  of `ImplementsChannel`), which is beyond the prover;
- that anything is `ENABLED`: that a system does not stop where it should go on is the deadlock
  check of the runs.

Every invariant and every action property of a passing run is a theorem (those of the stores as
far as their assumptions reach, see Store). The types of `JsonStore` are only proved: a run
would add nothing to `TypeCorrect`. No operator is recursive: that `Skip` and `Cut` are what
the code's loops compute is a matter of reading.

## 5. Not modelled

- The wording of messages, the schema beyond valid or not, logging.
- The matching of mentions in a text, and the message adapter: pure functions of one message,
  which have their tests; what a message signals is an input of the gate.
- `edit`, `delete`, `react`, `markRead`, uploads, history and ping: single requests to VK, or
  a few in a row, that keep no state. All of them pass `withRetry`, which is modelled.
- MCP and HTTP plumbing: registration, routes, schemas. The routes that change state are the
  calls of `AccessControl`.
- Boot: a straight line; its order is in the boot steps, `Restart` and `OpenSession` of the models.
- `LongPollService.stop`, which nothing calls.
- On the host: `.env`, other people's lines of the crontab, a process killed between two steps,
  a second bot, a shell that reads a script while it is filled (see Host).

## 6. Plan

Done, in the order of what a failure would cost: the store (it holds who is allowed), the
relay (it answers for tool calls), the rate limiter (everything passes it), access control,
sending, the user cache, the way of a message to the session, the host.

All their safety properties are proved.

Next: what a watched store keeps. `UpdatesAreKept` needs a store without reloads.
`AccessControl` shows of its own small store that what is served and what is stored go together
until a reload reverts; `JsonStore` with every await in it should imply that store. And the
listed hazards without a property: the older keyboard that ends a newer prompt (`ForeignTap`),
and `uninstall` beside a respawn that is past its check.
