# Verification of wueasy-go-tools

`wueasy-go-tools` is a Go library (`module github.com/wueasy/wueasy-go-tools`) that
services link against: service discovery and load balancing on Nacos, a
configuration centre, a logger with masking and a gin middleware, Redis commands and a
rate limiter, a client of a file service, a logging SQL driver, and small utilities. Most of its state is package-level variables that
every goroutine of the embedding process shares, some behind a mutex and some not.
That, and what happens between two of its steps when other parties (Nacos, Redis,
the file server, the network, the Nacos SDK's goroutines) act, is what this project
models.

Contents: [1 Inventory](#1-inventory) · [2 Modules](#2-modules-and-how-they-correspond-to-the-code) ·
[3 Runs](#3-runs) · [4 Fairness](#4-fairness) · [5 Proofs](#5-proofs) ·
[6 What the code does that its words do not say](#6-what-the-code-does-that-its-words-do-not-say) ·
[7 Not modelled](#7-not-modelled) · [8 Plan](#8-plan)

How to use it: `tlc -config <run>.cfg <module>` for a run of section 3,
`tlapm <module>.tla` for a proof module of section 5.

## 1 Inventory

Each component: its state; its operations; whom it talks to; what is hard; what makes
it correct.

**Nacos service discovery** (`nacos/client.go`). State, behind one `mutex`:
`subscribedServices`, `serviceInstances` (the cached list), `serviceCallbacks`, plus
the load balancer's maps; `client`, `loadBalanceType`. Operations: `RegisterNacos`,
`CloseClient`, `ensureServiceSubscribed` (check, recheck, fetch the list, store the
callback, subscribe, publish), `getHealthyInstances…`, `GetAll…`,
`UnsubscribeService`. Talks to the Nacos SDK, which calls the stored callback from its
own goroutine. Hard: the mutex is released around every call to the SDK, so a
subscription is six separately locked steps that race with other subscribers, with
notifications and with unsubscription. Correct when: whoever was told a service is
subscribed finds its list; a service marked subscribed really is connected to the
SDK; a change of the registry reaches the cache.

**Nacos load balancing** (`nacos/client.go`). State: `currentWeights` and
`roundRobinCounters` per service. Operations: smooth weighted round robin, round
robin, random, all over the list a call has at hand. Talks to discovery, whose
subscription, notification and unsubscription create, reset and delete both maps.
Hard: the weights are copied under the lock, raised and charged outside it, and
written back; one counter serves lists that differ by filter. Correct when: something
is always selected, every host gets its share, resets leave no remains.

**Nacos configuration centre** (`nacos/config.go`, `config/config.go`). State: the
caller's configuration struct, and the logger it drives. Operations: `InitConfig`,
the merge of non-zero fields, `ListenConfig` and `OnChange`, `CloseConfigClient`.
Talks to the Nacos configuration client and to the logger's update functions. Hard:
the SDK starts a goroutine for each change; two merges write one struct without a
lock, and each applies the level and the rotation in separate steps afterwards.
Correct when: struct and logger follow the last content, and a field has what some content
gave it last.

**Rate limiter** (`redis/redis.go`). State: two Redis keys per business that expire
together. Operation: `RequestRateLimiter`, one Lua script. Talks to Redis through
go-redis, which sends again what got no reply. Hard: whole-second time, a floored time to
live, lost replies. Correct when: it is a token bucket of its parameters.

**Redis commands** (`redis/redis.go`). A global client; `Set`, `Get`, `Del`,
`SetIfAbsent`, `Increment`, … Talks to Redis through go-redis, which sends a command again
when its reply does not come, whatever the command is. Hard: a copy may be run late, even
after the call has returned; the commands are not idempotent. Correct when: one caller at
most wins a key, and no two get the same number.

**File client** (`file-client/client.go`). No state between calls. Operations:
uploads (plain, local file, chunk), requests in JSON (init, merge, info, delete),
streams and downloads. Talks to discovery for an address, to the file server over
HTTP; an upload runs a goroutine that writes a form into a pipe. Hard: caller,
goroutine, transport and server each can fail first, and wait for each other. Correct
when: success means the whole file, every call returns, no goroutine and no connection is leaked.

**Logger** (`log/log.go`). State: `atomicLevel`, `logConfig`, the rotation
parameters of the main file and of the level files, a 1 MB asynchronous buffer, `masking`.
Operations: `Init`, `UpdateLogLevel`, `UpdateLogRotation`, `UpdateMaxSize` and its
siblings, `UpdateSensitiveConfig`, `Ctx`, the log calls. Used by everything. Hard:
settings that change in any order, a rotation that is changed by one assignment after the other
without a lock, cores that wrap cores, a buffer a crash loses.
Correct when: a file holds the entries of its level, in order, all of them, and the
reported configuration is the one in force.

**Masking** (`log/sensitive.go`). State: `currentConfig`, `longStrRegex` behind
`longStrRegexMux`. Operations: `UpdateSensitiveConfig`, `Desensitize…`, the
`sensitiveWriteCore.Write` that applies them to every message and field. Hard: the
configuration is replaced without a lock while goroutines mask with it; rules run one
after the other over each other's output; lengths and regular-expression limits.
Correct when: what a rule names or matches is hidden, the rest is left alone.

**Gin middleware and breakpoint log** (`log/gin-log.go`, `log/breakpoint.go`). State: the
breakpoint configuration, shared with the program that set it. Operations: `GinLogger`,
`GinRecovery`, the two breakpoint records. Talks to gin's chain of handlers. Hard: the body
is read for the log and must be put back; handlers and the breakpoint's `Handler` panic;
the configuration changes between a request's start and its end. Correct when: the handlers get
the body, records come in pairs that tell the truth, a start has an end.

**Ant path matcher** (`ant-path-matcher/`). State: a `sync.Map` of compiled patterns.
Operations: `Match`, `Matchs`, `ClearCache`. Hard: replacements one after the other over the
quoted pattern; a cache that is cleared while it is used. Correct when: an answer is what the
pattern denotes, whatever the cache holds.

**Utilities** (`utils/`). No state. Operations: 3DES, SM4 and RSA, secrets and variables of a
configuration, the body and the sign map of a request, random strings, file sizes. Hard: blocks,
paddings, chunks and lengths at their boundaries; passes over each other's output; maps walked in any
order. Correct when: what was encrypted comes back, everything in a body is signed, and malformed
input is an error and no panic.

**Internationalisation** (`i18n/`). State: a bundle and a default language, behind a
`sync.Once`. Operations: `Init`, `RegisterMessage(s)`, the translating functions. Hard: only the first `Init`
loads anything, so one that fails cannot be repeated and one with another directory has no effect; the bundle is
in use while its files are loaded. Correct when: whoever asked for the directory that was loaded finds its messages,
and a failure is told.

**Database client and SQL log driver** (`db-client/`). State: `registeredLogDrivers`, and
`database/sql`'s registry of drivers. Operations: `Init`; the wrapping driver's statements. Talks to
`database/sql` above and a real driver below. Hard: nothing locks the registration; a statement is
skipped, prepared and tried again as the real driver's optional interfaces have it. Correct when: a driver
is registered once, handles are of the driver asked for, and each try is logged once.

**System service, startup parameters** (`system-service/`, `startup-parameter/`). Operations: a command line
that makes keys and encrypts values, and hands the rest over to a service library. Correct when: what it
prints can be used. **Session, result** (`user/`, `result/`): data.

How they interact: the file client asks discovery for a healthy instance on every call;
the configuration centre writes the struct and calls the logger's update functions;
`log.Init` calls `UpdateSensitiveConfig`; a logger taken with `log.Ctx` masks if masking
was on at that moment; the rest of the library logs through `log.Ctx`. Discovery and
balancer share a mutex and the steps under it. A configuration is decrypted with `utils`
before it is parsed, and its secrets come from the command line of `system-service`. The middleware
takes the request's user from `user`, its paths through the matcher, and writes to the logger.

## 2 Modules and how they correspond to the code

| module | models | composed from |
|---|---|---|
| `NacosBase` | what the two next have in common: callers, services, instances | |
| `Discovery` | subscription, cache, notifications, gets, unsubscription | EXTENDS `NacosBase` |
| `Balancer` | the three strategies on the shared weights and counters | EXTENDS `NacosBase` |
| `BalancerShares` | `Balancer` with the history of what was picked | EXTENDS `Balancer` |
| `NacosClient` | the whole of the client: discovery and balancer in the same steps | EXTENDS `Discovery`, `Balancer` |
| `TokenBucket` | abstract: a bucket that refills and is taken from | |
| `RateLimiter` | the script over expiring keys, clients that resend | INSTANCE `TokenBucket WITH level <- Level, second <- Now` |
| `FileClient` | one call of the file client with its goroutine, transport and server | |
| `Logging` | the logger, its settings, its files and its buffer | |
| `ConfigCenter` | the configuration centre driving the logger | EXTENDS `Logging` |
| `Masking` | one entry being masked while the configuration is replaced | |
| `Registration` | naming clients that are made, replaced and closed under a subscription | |
| `ChunkTransfer` | a file sent in chunks over many calls of the file client | |
| `RedisCommands` | the nine functions over a network that loses and repeats | |
| `GinLogger` | one request through the middleware, with its breakpoint | |
| `StatementLog` | abstract: an entry for each try of a statement | |
| `SqlLog` | the logging driver between `database/sql` and a driver | INSTANCE `StatementLog WITH state <- State` |
| `DbInit` | concurrent `Init`s that register the logging driver | |
| `AntPathMatcher` | pattern conversion, matching, the shared cache | |
| `Ciphers` | padding and layout of a ciphertext, and what decryption makes of any | |
| `RsaChunks` | RSA over a text longer than a block | |
| `Signing` | the body of a request and its sign map | |
| `Secrets` | a value from the command line that encrypts it to the configuration that uses it | |
| `Translations` | the bundle, its first `Init`, registrations and translations | |

Eight `MC*` modules give the constants values for TLC; the eight `*Proofs` modules hold the theorems (section 5).
Several `MC*` modules EXTEND more than one of these, so that one run covers parts that ask for the
same kind of instance (names that modules of one instance would share, like `Init` or `TypeOK`, carry
their component's name: `SignInit`, `MaskSpec`, `RsaTypeOK`): a variable `part` is chosen in the initial state, the chosen part moves as its own
`Next` says, and the others keep their first state. A behaviour is thus one of one part, and what a property says of a
part is what it would say in a run of its own.

| instance | parts |
|---|---|
| `MCDiscovery` | `Discovery` |
| `MCRedis` | `RedisCommands`; `RateLimiter` |
| `MCBalancer` | `BalancerShares`; `NacosClient` over the same balancing state |
| `MCFiles` | `FileClient`; `ChunkTransfer` |
| `MCConfigCenter` | `Logging` by itself; `ConfigCenter`, which drives it |
| `MCUtilities` | `Ciphers`, `RsaChunks`, `Signing`, `Secrets`, `Masking` |
| `MCRecords` | `SqlLog`, `GinLogger`, `AntPathMatcher` |
| `MCStartup` | `Registration`, `DbInit`, `Translations` |

**Discovery.** A locked region of the code is one action, and whatever lies between two
of them interleaves: nothing in a region blocks, so that is as fine as the code can be
observed. `CheckSubscribed` is the read-locked check and the write-locked recheck,
`SelectInstances`, `StoreCallback`, `Subscribe`, `Publish` the rest of
`ensureServiceSubscribed`; `ReadInstances` and `Choose` the getters;
`UnsubscribeCheck`, `…Call`, `…Clean` the three steps of `UnsubscribeService`. Calls to
Nacos fail through `SdkError`. External: `registry` (the server), `Notify` (the SDK
looks the callback up) and `RunCallback` (and runs it, after the lock has been given
back). A list is its version and its healthy and unhealthy hosts.

**Balancer.** `Begin` is the read of the shared weights, `Weigh` the pick with the
write-back; `Add` is the atomic counter of round robin, which a goroutine looked up
earlier and may find detached from the map (`orphan`); `Random` picks any host. `ResetBalance`,
`StartBalance` and `DropBalance` are what the callback, `Publish` and
`UnsubscribeClean` do to the maps. Weights are multiples of `1/Unit`, so the scan's
start of `-1` is `-Unit`. `BalancerShares` counts the picks of every list.

**NacosClient** conjoins the steps of the two that share a locked region (`RunCallback`,
`Publish`, `UnsubscribeClean`) and lets a call select from the list that discovery gave it. The steps are those of
the two modules themselves, so a theorem about `Discovery` is one about `NacosClient` (`ClientIsDiscovery`).

**RateLimiter.** `RunScript` is the script, atomic as Redis runs it; `Tick` moves Redis's
clock by less than a second, which the script does not see and key expiry does;
`SendAgain` and `Abandon` are go-redis. `Level` is the refinement mapping: the tokens
in the bucket, whether its keys exist or not; `Now` is the abstract bucket's time, and what it has
granted is what the script approved.

**FileClient.** The goroutine's writes wait for the transport (`Transfer`) or fail once
it has closed the pipe (`WriteFails`); `Report` is the send to the channel of capacity 1,
after which the deferred `writer.Close` writes the closing boundary (`"trailer"`) and `CloseWriter` is `pw.Close`. The caller goes through
`GetServerUrl`, `Do`, `DoReturns`, then `Await` and `Decode` (uploads), `Decode`
(requests), or `CheckStatus` and `ReadAll` (downloads); a stream's body is handed over
and closed by whoever got it (`CloseStream`). External, from what `net/http` promises:
`Connect`, `EndBody`, `Respond`, `Deliver`, `Break`. A server may answer before
it has read the body.

**Logging.** A change of the rotation is a call (`Begin`, with the parameters that are positive) and a statement
at a time after it (`RunStatement`): the configuration and then the main file's logger, parameter by parameter, and then the level
files in any order, as a map is walked. Those of several goroutines (`Writers`) interleave, `UpdateLogRotation`'s, a second `Init`'s and
those of `UpdateMaxSize` and its siblings; `overlapped` remembers which parameters two of them changed at once. The level is one atomic
write. A logger is two bits, what `Ctx` wrapped it for. `Plain` and `Wrapped` are the
files the code writes an entry to without and with a wrapping core; `WriteMain` puts it in
the buffer or in the file; `Flush` is the buffer's one-second flush loop; `Restart` is a
process that dies and starts again. `Reinit` is a second `Init`.

**ConfigCenter.** A thread is the caller of `InitConfig` or a goroutine in `OnChange`.
The merge writes one field at a time (`Merge`): those of `Log` that are not zero in the new struct, and of these
`Request`, a struct itself, as a whole. The level is read in one step and set in
another; the rotation is read in one and set by `Logging`'s statements, one step each. A content is empty,
does not parse, or has some fields, of which `Request` may have some fields of its own.

**Masking.** A text is a sequence of characters that are their own position in the original, so a
property can say which of them are still visible. `Begin` to `Written` are the steps of
one `Write` (or `DesensitizeQuery`), each reading `currentConfig` when the code does;
`StartUpdate`, `CopyPart`, `Copied`, `CompileLongStr` are `UpdateSensitiveConfig`,
whose assignment of the struct is copied a part at a time, in any order. A character is of a class (a digit by its
value, `X`, another), and a content pattern is the row of classes it takes: those of the presets are the code's, with the first digits a
mobile number and a qq may have and the last place of an id card. The masks of the presets and the
limit of regular expressions (a count of at most 1000) are the code's too.

**Registration.** The variable `client` is not locked, so a program may only register and close
while nobody is in a call; each call is one step, and the SDK's notifications of every client that is open
interleave. `NewClient` is the assignment at `client.go:120`; `CreateFails`,
`RegisterFails` and `RegisterSucceeds` are the ways out of `RegisterNacos` that change anything. `Subscribe` and
`Unsubscribe` are the whole of the two functions as one caller runs them; their interleavings are
`Discovery`'s.

**ChunkTransfer.** A call is `Call` (which asks for an address, as each of them does), the server's step, and
`Conclude` or `Fail`. A chunk whose reader failed travels in a form that is ended as it should be, as
`FileClient` derives it from the deferred closes; a call that fails may leave its request to be served
later. The servers and the program that repeats calls are external, the program as the file client's README and test write it.

**RedisCommands.** Redis runs one command at a time (`Serve`, by what the command does to an entry, `After`); go-redis sends
copies, and a copy flies on after its call has returned. `Outcome` is what a function makes of the last reply, `redis.Nil`
included. History variables count the lives of a key and the eras of a counter.

**GinLogger.** A request goes through the middleware's steps with the configuration changing
between any two; `GinRecovery` is inside or outside of `GinLogger`. A body is a sequence of
pieces that may break off; a handler sets a status before it writes (`SetStatus`), writes and may panic. The masking
of the parameters may panic too, before the handlers run (`MaskingPanics`), where a `MaxLength` is 1 or 2.

**SqlLog** is the wrapper as `database/sql` drives it: without preparing if the driver lets it, prepared
otherwise (`driver.ErrSkip`), and again on another connection after a bad one; a prepared statement may be prepared once more on
the connection that runs it. It implements `StatementLog`.
**DbInit** has each line of `Init` that touches the two registries as a step.

**AntPathMatcher.** Patterns and paths are sequences of characters, cleaned as `path.Clean` does. `convertPatternToRegex` is
the chain of replacements over tokens, and a small matcher stands for Go's; the property compares it with
`Denotes`, what a pattern means read from the left. The cache is the map that `Match`, `Matchs` and the key-by-key
`ClearCache` share.

**Ciphers** and **RsaChunks** keep lengths and boundaries and abstract what is under a key: a body is
the padded text with its key, a block the part of the text that is in it; another key reads garbage.

**Signing.** A body is a table of nodes; a walk chooses the next key of an object freely, as
Go's maps do. Keys are sequences of words, because one may hold the separator of paths. JSON objects have distinct keys.

**Secrets.** A text is a sequence of parts (words, references, wrappers); the command line prints one, somebody puts it into a context, and
`ReadConfig` runs its passes. That a decrypted secret is looked at by the passes after it is in the model, that a default value ends at the first `}`, also at that
of a reference in it (of which a `cut` is left), and that a variable of the environment may bring a wrapper; that two adjacent pieces could form a third is not.

**Translations.** A call of `Init` has a `LocaleDir` of its own. `Do` is `once.Do` with its steps: the bundle is published, then the
first caller's directory is loaded file by file; every later call does nothing (`DoNothing`). Texts are told apart by where they come from.

## 3 Runs

Times are on two workers. Every run is exhaustive within its bounds. Deadlock is checked in
`Balancer_race`, `Discovery_*` and `Logging_v_threshold`. `CHECK_DEADLOCK FALSE` is where a part's
work ends by itself (a call, a text, a statement, an update, a first `Init`) or where only a bound stops it
(`Balancer_v_theory`, `Redis_parts`).

| run | bounds | states | shows |
|---|---|---|---|
| `Discovery_calls` | 2 goroutines, either may unsubscribe; 1 service, 1 host, 2 versions | 286 k, 66 s | `ReadersFindList`, `SubscribedIsConnected`, `ChangeReachesCache` |
| `Discovery_v_stale` | 1 goroutine | | a violation: see section 6 |
| `Balancer_race` | 2 callers, 3 hosts, 2 lists of unequal weights, every strategy and kind of reset, 5 picks; or 2 goroutines that may unsubscribe, 2 hosts, overlapping filters | 602 k, 55 s | `EvenRotation`, `ProportionalShare`, `SelectorsFindCounter`, `WeightsBalanced` |
| `Balancer_v_theory` | two overlapping lists | | a violation: see section 6 |
| `Redis_parts` | 2 callers, all nine functions, 1 key, 2 calls, 1 resend; or rate 2, capacity 3, requests of 1, 2, 4, 2 clients, 1 resend, 9 half seconds | 1.2 M, 104 s | `OneWinner`, `WonKeysGo`, `NumbersDistinct`, `NumbersInOrder`; `GrantsWithinRate`, `IsTokenBucket` |
| `FileClient_calls` | 0 or 2 form fields, 3 pieces of data; or 2 servers, 3 chunks, 3 faults | 172 k, 36 s | `SuccessMeansWhole`, `BodyReleased`, `CallsEnd`; `MergedIsWhole`, `TransferEnds` |
| `ConfigCenter_updates` | 3 level files, buffer of 2, 3 entries; or 2 goroutines that change the rotation; or 2 in `OnChange`, 3 changes, 5 contents | 643 k, 94 s | `EntriesKept`; `SettingsAgree`, `ConfigIsLatest`, `FieldsComeFromContents`, `ContentReachesConfig` |
| `ConfigCenter_v_nested` | 1 listener, 1 change | | a violation: see section 6 |
| `Logging_v_threshold` | the same log | | a violation: see section 6 |
| `Utilities_texts` | 3 ciphers, texts around their blocks, cut anywhere; 4 RSA keys, 2 paddings, texts of 0 to 380 bytes; 11 bodies in every order; secrets and contexts of a few parts; 4 masking configurations, 8 values, 1 update | 547 k, 161 s | `RoundTrip`, `RsaRoundTrip`, `SignedIsHandled`, `SecretComesBack`, `NamedAreHidden`, `ContentIsHidden`, `UpdatesEnd` |
| `Records_parts` | 2 statements, 2 tries, every set of optional interfaces; 1 request of any kind, 1 change, 2 writes; patterns of up to 3 characters, and 2 callers with `ClearCache` | 455 k, 39 s | `IsStatementLog`, `RequestIsRecorded`, `AnswersRight` |
| `Startup_parts` | 2 clients, 2 versions; 3 database `Init`s, in turn or at once; 2 callers of i18n, directories of 2 files, of 1 and none, 2 calls | 427 k, 115 s | `ServedUntilClosed`, `ChangeReachesCache`; `DatabaseAsAsked`; `KnownIsTranslated`, `BundleSettles` |

A few properties of these runs are several of a component's own put together, each defined and explained in its module:
`EntriesKept` (`EntriesInOrder`, `PlainEntriesFiltered`), `SettingsAgree` (`LogFollowsConfig`, `RotationIsReported`),
`SignedIsHandled` (with `LeavesSigned`, `NothingUnsigned`), `SecretComesBack` (with `NoWrapperLeft`, `KeysFit`),
`ContentIsHidden` (with `OthersKept`), `UpdatesEnd` (with `PanicsOverLength`), `RequestIsRecorded` (`HandlerGetsBody`, `RecordsPaired`,
`EndIsLogged`), `AnswersRight` (with `ClearEmpties`), `DatabaseAsAsked` (`OpensWhatWasAsked`, `LinkedDriversOpen`, `NoPanic`),
`KnownIsTranslated` (`KnownIsThere`, `KnownIsAnswered`, `FailureToldOnce`), `BundleSettles` (`BundleStays`, `InitReturns`) and `CallsEnd`
(`CallReturns`, `ProducerEnds`); type invariants that no theorem states are checked along with them.

What the bounds are and why they are enough:

- *Discovery* (`MaxVersion`). Each race of the code has two sides: two subscribers,
  a subscriber and a notification, a subscriber and an unsubscriber. Two goroutines and the
  SDK's notifier have all of these, and three-way races with the notifier. Services do not interact
  (every map is keyed by service), so one is enough. One change after the initial
  version is what can be lost. The safety properties are proved for any number (section 5).
- *Balancer* (`MaxPicks`, `Unit`, `Period`). Two callers are the fewest of which one
  may write back over the other. One list has a host twice as heavy as each of the rest, one a host of no
  weight and two of unequal ones; five picks are more than a whole round of either. `Unit` makes fractions exact. The share is only promised
  for picks that do not race, which the history variable `serial` knows.
- *NacosClient*. One version is enough since every callback resets; two hosts and
  overlapping filters give lists that share weights.
- *RateLimiter* (`MaxTicks`, `MaxRetries`). Capacity 3 with rate 2 makes the time to live a floored
  number (3 seconds), and the clock runs past it. Proved for all values.
- *FileClient* (`Size`). Three pieces are a first, a middle and a last one; form fields are none (Upload) or two
  (UploadChunk). The safety properties are proved for all values.
- *Logging* (`MaxEntries`, `BufferSize`). A third entry overflows the buffer. One rotation parameter stands for the three
  numeric ones, which the code treats alike; two goroutines are the fewest whose assignments interleave, and a third change can follow
  theirs. Proved for any number of either.
- *ConfigCenter* (`MaxChanges`). Two listeners are the fewest that overlap; three changes let
  one of them finish and another start in between.
- *Masking* (`MaxUpdates`). A value is masked in far less time than an update takes to repeat; one
  update that starts at any step already gives the mixtures of two configurations,
  and the start configuration is any of the four.
- *Registration* (`MaxClients`, `MaxVersion`). A third client comes after one that has been
  replaced; one change is what can be lost. The safety properties are proved for any number.
- *ChunkTransfer* (`MaxFaults`). Two servers are the fewest that can be confused; with three faults a
  chunk can be cut, its call lost and sent again, and the merge's reply lost too.
- *RedisCommands* (`MaxCalls`, `MaxRetries`). A winner and a rival, with a copy of each on the way; three
  counting calls have one that follows two. The safety properties are proved for all values.
- *GinLogger* (`MaxWrites`, `MaxChanges`). The code decides once and looks again once, so one change
  falls before, between or after; a second write comes after the status is fixed.
- *SqlLog* (`MaxTries`), *DbInit*. Tries do not know of each other but by their number; three `Init`s are a race and a
  bystander. The refinement is proved for any number.
- *AntPathMatcher*. The replacements act on one or two neighbouring characters, which patterns of three put in every context;
  the longer ones have `/**` at the start, in the middle and at the end, and repeated. Two callers and one clearing are
  all that can meet at a key.
- *Ciphers*, *RsaChunks*. Lengths on both sides of one and two blocks; proved for every length.
- *Signing*, *Secrets*. Bodies and texts with each kind of node and part, alone, nested and side by side: the code treats
  them one at a time, in a stack or from left to right.
- *Translations* (`MaxCalls`). One caller in the first `Init` and one waiting, which may have asked for the same directory, for another or
  for none; a file before and one after the broken one.

The properties, in words, and what each would take to break, are with their definitions. Every one
of them has at least one mutant in `PROJECT.json`, a definition changed the way a plausible
bug would, under which TLC finds it violated in the same run.

## 4 Fairness

Fairness is weak throughout and given only to what the process itself runs.

- *Discovery*: goroutines that are in a call go on (a Go goroutine that can run
  does), and the SDK delivers and runs the callback of a pending change. Nobody has to call,
  change the registry, or unsubscribe, and a call to Nacos may fail every time.
- *FileClient*: the goroutine and the caller go on, the client's 30-second
  timer fires (`Timeout`), and closing a response early closes the connection
  (`Release`). The network and the server are not fair: they may never read, never answer, never finish an answer.
- *ConfigCenter*: goroutines in an update go on, and the configuration client notices that the content it has
  is not the server's, which is its long poll.
- *Masking*: the goroutine that updates goes on (blocked on the mutex, it cannot).
- *Registration*: the notifiers of open clients deliver; no one has to register, close or call.
- *ChunkTransfer*: the program goes on with what it does and a server answers what reaches it; calls are lost
  at will, up to the bound.
- *RedisCommands*: only Redis's own expiration.
- *Translations*: a caller that is in `Init` goes on, and `once.Do` lets a waiting one through when the first is done.

## 5 Proofs

Proved by `tlapm`, for every value of the constants that their `ASSUME` allows. Those assumptions are types (naturals, subsets,
functions of the right fields), and what the code gives of the data: a list names a host once (`Balancer`), a configuration has a level
that is none of `app.log`'s (`Logging`), the characters of a text are told apart (`Masking`), the environment has the variables that a
text names (`Secrets`), the nodes of a body form a tree (`Signing`). TLC evaluates every one of them on the instances of section 3.

| module | theorem | of |
|---|---|---|
| `DiscoveryProofs` | `TypeCorrect`, `ReadersFindListHolds`, `StaysConnected` | `Discovery!Spec => []TypeOK`, `[]ReadersFindList`, `[]SubscribedIsConnected` |
| `BalancerProofs` | `SharesTypeCorrect`, `WeightsStayBalanced`, `SharesAreProportional`, `RotationIsEven` | `SharesSpec => []SharesTypeOK`, `[]WeightsBalanced`, `[]ProportionalShare`, `[]EvenRotation` |
| | `ClientIsDiscovery` | `ClientSpec => Spec`: the whole client takes the steps of `Discovery` |
| | `ClientStaysBalanced`, `CountersAreThere` | `ClientSpec => []WeightsBalanced`, `[]SelectorsFindCounter` |
| `RedisProofs` | `LimiterTypeCorrect`, `LimiterIsTokenBucket`, `GrantsBounded` | types and `KeysInv`; `IsTokenBucket`, the refinement of `TokenBucket`; `[]GrantsWithinRate` |
| | `TypeCorrect`, `MutualExclusion`, `DistinctNumbers`, `OrderedNumbers` | `[]TypeOK`, `[]OneWinner`, `[]NumbersDistinct`, and `NumbersInOrder`, an action property |
| `FileProofs` | `SuccessIsWhole`, `BodyIsReleased` | `[]SuccessMeansWhole`, `[]BodyReleased` |
| | `MergesAreWhole` | `TransferSpec => []MergedIsWhole` |
| `LoggingProofs` | `FilesAreKept` (under `FilesKeepLevels`), `ReportedAsSet` | `[]EntriesKept`, `[]RotationIsReported` |
| | `LoggerFollowsConfig`, `StructHasLatest`, `FieldsAreGiven` | `[]SettingsAgree`, `[]ConfigIsLatest`, `[]FieldsComeFromContents` |
| `RecordsProofs` | `TypeCorrect`, `OneEntryPerTry` | `[]TypeOK`; `IsStatementLog`, the refinement of `StatementLog` |
| | `RecordsAreKept` | `[]RequestIsRecorded` |
| | `AnswersStayRight` (under `PatternsDecided`) | `[]AnswersRight` |
| `StartupProofs` | `ServicesStayServed` | `[]ServedUntilClosed` |
| | `DatabasesAsAsked` | `[]DatabaseAsAsked` |
| | `KnownStaysTranslated`, `BundleNeverShrinks` | `[]KnownIsTranslated`, and `BundleStays`, an action property: the safety half of `BundleSettles` |
| `TextProofs` | `PaddingRoundTrip`, `TextsReturn` | unpadding undoes padding; `[]RoundTrip` |
| | `ChunksReturn` | `[]RsaRoundTrip` |
| | `NamedStayHidden`, `ContentStaysHidden`, `PanicsAreOverLength` | `[]NamedAreHidden`, `[]ContentIsHidden`, `[]PanicsOverLength`: the safety part of `UpdatesEnd` |
| | `SecretsComeBack` | `[]SecretComesBack` |
| | `SignedStaysHandled` | `[]SignedIsHandled` |

**Induction.** The library's induction theorems take an operator as a parameter, which no installed prover can instantiate. The proofs
that need induction say it of sets: `NatMin` (a set of naturals that is not empty has a least member) follows from the library's
well-foundedness of `<`, and `SetInduction` (a set with 0 and with every successor has all naturals), `NatMax` and `Downward` (from the end of a
sequence to its start) follow from it. A recursive function is then shown to exist, as a function that solves its equation (`ExpandEquation`,
`FlattenEquation`, `PathEquation`, the sums of `BalancerProofs`), and only the equation is used from there.

*Discovery.* `ReadersFindList` speaks of a call past `ensureServiceSubscribed`; it is not
inductive, because whether the list is there depends on the service being marked.
`ListsInv` adds that a marked service has a list, and that whoever drops one tells the calls under
way (the history variable `dropped`). `SubscribedIsConnected` needs `ConnectedInv`: a goroutine
between `StoreCallback` and `Publish` has its callback stored, and after `Subscribe` the
SDK listens, unless somebody has unsubscribed. Both are proved step by step, and
`StepType`/`StepLists` do so for the steps of one goroutine.

*Balancer.* The weights of a service add up to zero because what a selection adds, the weights of its list, is what it takes from the one it
picks; the module starts with what sums of functions over a finite set do. A racing selection writes back a copy, so `BalancedInv` says the
same of every copy under way. `ProportionalShare` needs `ShareInv`: a selection that nothing raced is alone and has the current weights, each
weight is the claim, and a host off the list weighs nothing. That a pick is of the greatest weight then keeps every claim above minus one
round. The other bound comes of the sum: what one host is ahead the others are behind, so no claim exceeds `total * (Len(l) - 1)`. (A constant number of
rounds, which the first version of the property promised, is true of short lists only: lists of five hosts break it.) `EvenRotation` needs `RotationInv`: the counter,
modulo the list's length, is where the rotation is, and all hosts have had the same number of full rounds. `NacosClient` is built of the steps
of `Discovery` and `Balancer`, so `ClientIsDiscovery` is a step-by-step inclusion, and `CountersAreThere` combines `ReadersFindList`'s invariant with a marked service
having a counter.

*Rate limiter.* The keys may expire whenever they like as long as the bucket would be full
again by then. That is `TtlCoversFill`: the floored time to live is at least the time to fill, given
`Ttl > 0`, that is `2*Capacity >= Rate`. It is an assumption of all three
theorems and the only one beyond the types; without it nothing is ever written and the
limiter lets everything through (section 6). `KeysInv` says the stamp is never in the
future and the keys live `Ttl` seconds past it; `FilledIsLevel` concludes that what the
script computes is `Level`. Then a `Tick` refills or stutters (`TickRefills`), the script takes or stutters (`ScriptTakes`),
and the rest leaves the level alone. `GrantsInv` (tokens held plus tokens granted) is
what makes `GrantsWithinRate` inductive.

*Redis commands.* A reply that is on its way to its caller already decides who wins, so the invariants
speak of callers that hold one. `CopiesInv`: every copy in flight is of a command its function sends, and
those of a running call are alike. `WinsInv`: a life that was won, or is about to be, has begun, and no two are the
same. `NumbersInv`: the counter has passed every number returned or about to be, in its era, and a caller's
is above those returned before its call. Each rests on lemmas about what one command does to an entry (`AfterGrows`,
`WinBeginsLife`, `CountPasses`).

*File client.* `UploadInv` relates the goroutine's verdict to what was read and written: with nil
as the verdict everything read has been sent, a verdict in the channel is its own and was given when it
had stopped reading, and the caller only goes on with a nil one. `CallInv` ties a success to
the reply and the body. Of a transfer, `TransferInv` says that a chunk the program has as uploaded is on the server whole, whatever
form of it came before, and that a reply tells what the server did; a form that outlives its call is what `overtaken` records.

*Logger and configuration centre.* The numbers of the entries are increasing in the main file followed by the buffer, and in every level file
(`NumbersInv`); what a plain logger wrote to a level file has the file's level (`LevelsInv`). A restart may bring other configurations,
and one that gives a file another level leaves entries below it: `FilesKeepLevels` is the hypothesis that excludes that, and nothing else. Of the rotation, `ParameterInv` says that a parameter whose last change
did not overlap another has at most one goroutine at it, which gives the main file next what it has given to the configuration; once a change that began alone is over,
the two agree again, whatever overlapped before it. For the centre,
`AgreementInv` follows one update through its steps: the level it is about to set is the struct's, after that the logger's level is, and so for the rotation, parameter by
parameter; `LatestInv` does so for the fields merged so far. Both hold while updates are `alone`: section 6 has what overlapping ones do. `GivenInv` is for all updates,
overlapping ones too: a field has one of the values that contents gave it since its last one was told, or still has to get one.

*SQL log.* Every step of the wrapper is one of the abstract log under `State`, or a stutter: a failed
try logs once, wherever it failed (`FailedStep`), a success once (`DoneStep`), and what is skipped, prepared or
tried again logs nothing (`SilentStep`).

*Gin.* `BodyInv` says where the body is, `EntriesInv` which entries are in the log at each point of the chain, `RecordsInv` which records; the last two
tell apart how a request ended (orderly, by a panic the recovery took, by one that got past it).

*Ant paths.* What one caller decides about a pattern is computed by recursion over the text, and TLC compares it with `Denotes` for
every pattern of the instance: `PatternsDecided`, an `ASSUME` of `MCRecords`. The theorem is about the rest, that any number of callers who share a cache that is being
cleared answer what each would answer alone. `AnswersMeant` says of every answer that it is the first pattern's that denotes the path, and
of a caller under way that none before it did. Patterns that end in a dollar are not among the instance's (section 6).

*Registration, databases, messages.* `LifeInv` adds to the property that a client is only closed by `CloseClient`; then a step can
only disturb it by marking the service, with a client that is open. `DriversInv` relates the two registries to the lines each `Init` has passed, and
`OneAtATimeInv` says that calls in turn find them as the last one left them. `LoadInv` says that one caller loads, from the directory it asked for, and what it has put into the bundle so far; a caller knows the directory's messages
only if that is the one it asked for too.

*Ciphers and RSA.* `CipherInv` says that on its way and under decryption a body is the padded text; the padding lemma
then gives the text back. `RoundInv` says that the blocks cover the text from its start without gap or overlap up to where
encryption is, and that the decrypting function stands at the end of a block and has what the blocks before it hold. A good key is
needed for one fact, that the length of a block is the modulus' length divided by 8.

*Masking.* `MaskInv` is over what was in force while the value was being masked (the history variable `seen`). `HiddenInv`: every part that was looked at shows no more than one of
the masks in force keeps, or was named by no rule of one of the configurations in force; `ContentInv` and `KeptInv` say so of the content rules and of what no rule
concerns, `LengthInv` ties a cut to a `MaxLength` in force. Under them lie the lemmas about one rule over one text: the scan has an equation (it goes to later places only),
characters keep their places, every match of a pattern, whatever stands before and after it, hides one of its characters if the mask keeps less than it matches, and a later rule, which sees only
what is left, shows nothing again. `RunsAreHidden` speaks of one content configuration in force, because a mixture of two may have neither's rules.

*Secrets.* `SecretPasses` follows the secret: at each pass the text is what surrounds it with the secret in between, wrapped until its cipher's pass. `WrappersGo` follows the others:
the kinds whose pass is over are gone from the text, and what is left inside wrappers has no meaning of its own. `PrintedIsWrapped` is about the command. Both use what joining the parts of a text does
(`FlatOne`, `FlatIn`). `NoWrapperLeft` asks that neither the environment nor a wrapper holds a wrapper; otherwise a pass that is over can be
too early, as section 6 says.

*Signing.* What `getSignAllMap` has visited grows node by node: what is in a visited node was visited too or is still to come in a call that
has not returned, and the map has exactly the visited leaves (`WalkIsSigned`). So when no call is left every node was visited, by induction
over a tree whose nodes are numbered as they come. `FramesStand` says that each call stands at a node with that node's path (`PathIsMade`); that the map keeps
one entry for each leaf is `OnePath`, under plain keys, for a path then ends with its node's own word and the rest of it is its container's
(`PlainPaths`). For a form it matters that joining the values of a field leaves none out (`JoinedHasAll`). `BodyIsRead` is about the request's body itself.

Model-checked only:

- all liveness: `ChangeReachesCache`, `CallsEnd`, `TransferEnds`, `ContentReachesConfig`, `WonKeysGo`, the `~>` of `UpdatesEnd` and the
  second half of `BundleSettles`. They rest on fairness, and the prover does not do `ENABLED`.
- `PatternsDecided`, that the conversion of one pattern keeps its meaning: three replacements over each other's output, against a recursive
  definition. TLC compares them for the patterns of the instance.

## 6 What the code does that its words do not say

Four disagreements are runs whose violation TLC exhibits (`findings` in `PROJECT.json`):

- `Discovery_v_stale`: the list fetched before `Subscribe` is stored after it
  (`nacos/client.go:290`), over the newer one a notification may have brought. The
  cache stays stale until the next change.
- `Balancer_v_theory`: calls with different filters share the weights, a
  host can be charged below `-1`, the scan then selects nothing, and the branch that
  "in theory does not happen" (`nacos/client.go:731`) does, again and again.
- `Logging_v_threshold`: a logger that `Ctx` wrapped, for a `traceId` or for masking,
  writes an entry to every file once one of them takes it (`log/log.go:77`), so
  an error file holds debug entries.
- `ConfigCenter_v_nested`: the merge that updates "only the fields that are there", "recursively" (`nacos/config.go:186`, `:192`), goes one
  level deep: a struct two levels down is replaced whole when one of its fields is given, and those the content does not have become zero.

More disagreements with a line of the repository are in the models, where an invariant that states that line fails at once;
they have no run of their own, and the properties are stated so that they hold:

- `CloseClient` (`nacos/client.go:200`) leaves the marks of what its client subscribed to; a service counts as subscribed
  for good ("make sure the service is subscribed", `:204`), and no client registered later is asked for it. `Registration!SubscribedIsServed`
  holds only until the first close.
- `SetIfAbsent` returns false for a key it set itself when the first reply is lost (`redis/redis.go:197`, against `:192-194`): a lock nobody
  holds. `Get` turns `redis.Nil` into nil, against its comment (`:143`).
- Two database `Init`s at once with `ShowSql` both find the logging driver unregistered (`db-client/client.go:28`), and the second
  registration panics, against "avoid registering one twice" (`sql_log_driver.go:200`). `DbInit!NoPanic` says it for `Init`s in turn.
- The pattern `/api/{id}` matches nothing but itself, against `README.md:525`; a pattern with a wildcard that ends with a dollar is not tied
  to the end of the path (`ant-path-matcher.go:80`).
- A ciphertext that is cut, or another cipher's, passes the length checks and panics (`utils/des3.go:52`, `utils/sm4.go:103`)
  where an error is announced.
- Under a key of 1030 bits, which `GenerateRSAKey` makes, nothing can be decrypted (`utils/rsa.go:131`).
- Two leaves of a body at one path leave one of them unsigned, either of them (`utils/utils.go:525`, against `:467`); the map of the first
  level holds arrays and objects (`:504`, against `:470`).
- With both flags for new keys one key of 16 bytes is printed as the DES3 key too (`system-service.go:116`, against `:114`).

The rest met while modelling is in the models as the code has it; no line of the repository we know of speaks of these cases.

- Discovery: an unsubscription between storing the callback and publishing leaves a
  service marked subscribed and connected to nothing; a callback that runs after an
  unsubscription brings part of the service's state back; lists pushed by the SDK hold unhealthy instances though the
  fetched one does not.
- Balancer: racing weighted picks lose each other's charges; calls with two filters that
  alternate on one round-robin counter can each get the same host every time.
- Rate limiter: with `2*capacity < rate` the keys get a time to live of 0, are never
  written, and every request up to the capacity is granted.
- File client: a request that cannot be built (`BadRequest`) leaves the upload's goroutine blocked for good;
  the 30-second timeout also cuts streams that were handed over; a download takes any
  body with status 200 for the file, an error message in JSON too.
- Logger: two changes of the rotation that overlap leave what `GetLogConfig` reports, the main file's logger and the level files' with
  different parameters until the next change (`log/log.go:368-395`); `UpdateLogRotation` overwrites level files' own parameters, `UpdateMaxSize` and its siblings skip the level files;
  `GetLogConfig` goes on reporting the level of `Init`; a second `Init` ignores its masking configuration;
  a logger that is kept never follows a change of masking.
- Configuration centre: overlapping `OnChange` goroutines may merge in the wrong order or set
  a level or a rotation that is not the struct's; a field present with its zero value is not applied.
- Masking: content rules are skipped for a value that is JSON and whose form the walk changed;
  a rule's field names are not lower-cased while the key is; strings that are elements of an array are
  left alone; a border mask that keeps as many characters as there are hides nothing (a
  name of two characters); a `MaxLength` of 1 or 2 makes the log call panic, as does one set to 0
  between its test and its use; one above 1000 makes `UpdateSensitiveConfig` panic with
  `longStrRegexMux` held, and the next update waits for good; a query pair with more
  than one `=` is dropped from the masked text.

- Registration: a second `RegisterNacos` leaves the first client open and out of reach, so that `CloseClient` does not take
  its instance off the server; when the second client cannot be made, callers with cached lists are told that none was
  initialised. With two clients telling one callback, a list that one of them delivers late may replace a newer one.
- File client: a chunk whose reader failed is complete for the server, and if it is served after the program has sent the
  chunk again it replaces it; without an address set, the calls of one transfer may reach different servers.
- Database: when `Ping` fails the handle is returned open, with the error; an error while rows are read is not logged.
- Gin: a breakpoint's `Handler` runs above a `GinRecovery` used after `GinLogger`.
- Secrets: a secret that cannot be decrypted becomes its ciphertext without the wrapper, and the program goes on;
  a wrapper of 3DES inside one of SM4, or one that a variable of the environment brings, comes after its pass and stays as it is;
  `OnChange` gives its callback the content as it came, `InitConfig` the decrypted one.
- i18n: a message registered before `Init` is dropped; after a failed `Init` every further one returns nil, and so does an `Init` with another
  directory or language than the first one's, of which nothing is loaded.

The top-level `README.md` differs from the signatures in places no model can show: `:171` names a field `Url` that
`BreakpointConfig` has not, `:440` calls a method `UploadStream` that the client has not, `:443` and `:449` give `UploadChunk` and `DownloadChunk` other parameters, `:495` gives
`systemService.Run` another signature, `:543-548` call functions `startup.Init` and `startup.Get` that do not exist, `:628` says UUID v7 where the
code makes v4.

## 7 Not modelled

- *CloseConfigClient*: it closes the client of the configuration and nothing more.
- *Overlap of RegisterNacos or CloseClient with other calls*: a race on an interface variable, undefined in Go; no order of
  steps stands for it.
- *Chunked downloads as a whole*: each call is in `FileClient`; ranges are the caller's arithmetic, and nothing is kept between calls.
- *Errors in the SDK's notifications* (`nacos/client.go:270-273`): the callback logs them and returns, which changes nothing.
- *Parsing of contents, the Go zero-value reflection per type*: conversions
  of data the properties do not tell apart; a field is zero or not.
- *Masking*: e-mail and IP addresses, credit codes, patterns of a rule's own, `DesensitizeJSON2`; the mask character is
  taken for one that no pattern takes. Torn
  slice headers are modelled as one word per part of the configuration; the machine
  tears finer, and what a goroutine reads then is undefined.
- *Races on one object*: the messages of the i18n bundle and the parameters of a log file are read and written without a lock. An access is
  one step in the models; what a map that is read and written at once does is undefined in Go.
- *Newlines in paths*: Go's `.` takes none and neither do the matcher's tokens, but no path of the instance has one.
- *Answers without a body*: a header that a handler sends by itself (`WriteHeaderNow`) fixes the status before anything is written; here the first
  write does.
- *`localRand`*: `rand.Rand` used without a lock; a random pick is any host of the list.
- *Utilities*: random strings, UUIDs, addresses, version numbers, file sizes, regular expressions, XOR and base64, the
  reading of RSA keys. Text to text, without state; a model of them would repeat them.
- *System service, startup parameters*: installing, starting and stopping are calls of the service library; reading
  the start parameters is one call of `flag`.
- *Session, result*: accessors; what `GinLogger` uses of a session is in its module.
- *Wording and layout*: of log entries, error messages, SQL arguments, templates.

## 8 Plan

Done, in this order: discovery, balancer and their composition; the rate limiter with
its abstract bucket; the file client; the logger; the configuration centre over
the logger; masking; Redis commands; the SQL log with its abstract log; `db-client` initialisation; the gin
middleware; the ant path matcher; ciphers and RSA; signing; secrets; internationalisation; the naming client's life; the chunked
upload; the proofs of section 5.

What is left, most important first:

1. *Proofs*: `PatternsDecided`, one replacement of `convertPatternToRegex` at a time.
2. *Composition*: the chunked upload over `Discovery`'s answers, and the registration of clients under concurrent
   callers, once the variable has a lock.
3. *Masking*: e-mail addresses and `DesensitizeJSON2`.
4. *Text utilities*: version numbers and file sizes against a reference, over bounded inputs.
