# A formal model of SquidGet

SquidGet is a terminal music downloader in C11 (about 7,400 lines: `main.c`,
`api.c`, `download.c`, `tag.c`, `tui.c`, `config.c`, `json.c`, `platform.c`,
`thread.h`, `squidget.h`). This directory models the parts of it whose
correctness depends on the order in which things happen: the background task
queue, the parallel batches, the interactive session that both share, the
files that the downloads leave behind, the tags and covers put into them, the
settings on disk, the gate and caches in front of the services, the order in
which those are asked, and the terminal: its keys and its screen. The modules are written from the code;
every definition is traced to its lines in `PROJECT.json` under `map`.

Contents:

1. the system: its parts, their state and how they interact
2. the modules and how they correspond to the code
3. the properties and what the model-checking runs show
4. bounds and fairness
5. what is proved, and how
6. disagreements between the code and its documentation
7. what is not modelled
8. the plan

## 1. The system

Three kinds of thread run in the interactive program. The **UI thread** (`main`)
waits for a key, takes `s->lock`, handles the key, redraws and unlocks. At most
one **background worker** (`bg_worker`) drains a ring buffer of tasks. A worker
that executes an album or playlist task creates up to four **pool workers**
(`sqt_download_pool_worker`) and joins them. All share one `AppState`, guarded
by `s->lock`; a batch has a `DownloadPool` of its own, guarded by `pool.mu`.
`api.c` keeps two caches and the resolver's gate in globals with mutexes of
their own. The command line `--playlist` mode is a single thread.

| component | state it keeps | operations | interacts with | what is hard | correct when |
|---|---|---|---|---|---|
| task queue (`main.c:356-371, 639-662, 1284-1294`) | ring `queue/q_head/q_tail/q_count`, `bg_running`, `bg_thread` | `push_task`, the worker's pop and retire, join at exit | UI thread pushes, worker pops, under `s->lock` | wake-up against retirement, failing thread creation, join of a stale handle, full ring | one worker at a time; tasks run in order, each once; no task without a worker; exit after the last task |
| batch pool (`main.c:256-354, 490-527, 594-627`) | `next`, `done`, `failed`, thread handles | create, claim, progress, record, join, report | nests `s->lock` in `pool.mu`; UI takes `s->lock` | two mutexes, ignored create results, stale progress counts | each track has one worker; counts are right; nobody uses a freed pool; batches end |
| interactive session (`main.c:373-575, 664-757, 833-1282`) | mode, search type, lists, cursor, playlist in hand | about twenty key handlers, seven `start_*` functions, four kinds of delivery | handlers against deliveries of the worker | handlers unlock before they read what was selected; deliveries replace lists under any screen | what is queued is what was on the screen; playlist index, URL and tracks agree; cursors stay in arrays |
| track download (`download.c:396-423, 456-739`) | output names, `.sqtmp` file, attempt counter | choose a name, look up, transfer, sniff, rename, retry, tag | several pool workers in one directory | check-then-use of names, shared temporary names, partial transfers | a saved file is one whole track; no error page and no temporary file is left; nothing is overwritten |
| resolver gate (`api.c:142-284, 2289-2413`) | last request time, cooldown, penalty | gate begin/end, feedback of downloads, retry delay | all downloads; initialised by `http_init` | who initialises it; time arithmetic | requests are spaced and wait for the cooldown |
| ID and stream caches (`api.c:286-376`) | two arrays with round-robin eviction | get, put, expire, invalidate | all lookups and failed downloads | stale URLs, eviction, one URL under several keys | an invalidated or expired URL is not served |
| cover cache (`download.c:127-206`) | files named by URL hash | fetch once, reuse | pool workers and tagger | check-then-fetch by several workers | a cover that is used is whole |
| tagger (`tag.c`) | a rewritten copy of the file | FLAC block loop, MP4 atom patching, replace | reads the saved file and the cover | flags and offsets that must stay right, failing writes, replacing the original | a song can be played at any time; on any error the original is untouched |
| configuration and playlist history (`config.c`) | two text files | load, save by `.tmp` and rename | session at start and on changes | crash or full disk between the steps | a file that is read back is one that was saved |
| TUI (`tui.c`, `main.c:830-1281`) | frame buffer with a hash per row, bytes not yet used, scroll offset | read a key, render, resize | UI thread; the worker changes what is shown | split escape sequences, skipped rows, small terminals | keys are those typed; the selection is on the screen; the window shows the state |
| JSON parser (`json.c`) | none kept | recursive descent, depth limit 32 | all lookups | malformed input | accepts what the grammar does |
| stream lookup (`api.c:1815-2626`, `download.c:642-721`) | attempt, caches | services, qualities, keys and attempts in order, choice among results | gate, caches, HTTP | nested fall-backs, lost answers | what can be had is found, the right song, in the quality asked for |
| HTTP layer, folder picker, presets, debug log, build files, TinyCC | - | - | - | - | external or without state of its own |

The hazards of this code, each at its line and with the properties that catch
it, are listed in `PROJECT.json` under `hazards`.

## 2. The modules

| module | models | proofs |
|---|---|---|
| `TaskExecutor` | the promise of the queue: a serial first-in first-out executor that ends in good order or is killed | - |
| `TaskQueue` | `push_task`, `bg_worker`'s loop, the exit of `main`, the signal handler | `TaskQueueProofs` |
| `DownloadPool`, `PoolInstance` | one album or playlist batch inside `bg_worker` | `TaskQueueProofs` |
| `Session`, `MCSession` | keys, pickers, selections and deliveries | `SessionProofs` |
| `DownloadTrack`, `MCDownloadTrack` | `download_track` by several workers in one directory | `DownloadTrackProofs` |
| `SettingsRegister` | the promise of the settings: two registers, written whole or not at all | - |
| `ConfigStore` | loading and saving both files, by sessions that may end anywhere | `ConfigStoreProofs` |
| `ResolverGate`, `MCResolverGate` | gate, gap, penalty, cooldown and retries of the calls to services | `ResolverGateProofs` |
| `StreamCache`, `MCStreamCache` | the caches of IDs and of stream URLs | `StreamCacheProofs` |
| `StreamLookup`, `LookupInstance`, `MCStreamLookup` | the order in which services are asked, and the choice among results | `StreamCacheProofs` |
| `SongFormat` | what the tagger makes of a FLAC or M4A file (functions) | `TagFileProofs` |
| `TagFile`, `MCTagFile` | cover cache and tagger, step by step, by several workers | `TagFileProofs` |
| `Keyboard` | `tui_read_key`: bytes into keys (functions) | `TerminalProofs` |
| `ListView` | cursor and scroll offset under the keys of a list (functions) | `TerminalProofs` |
| `Terminal`, `MCTerminal` | the main loop: reading, handling, drawing, resizing, deliveries | `TerminalProofs` |

Two components are proved beside the one they serve: the batch beside the queue
whose task it is, the lookup beside the caches it fills. As both modules of such a
pair have a `pc`, a `Spec` and the like, `PoolInstance` and `LookupInstance` take
the second one as an instance in which the variables that clash have other names
(`at`, `kept`), and repeat the names of its properties. TLC checks these instances,
so that the runs and the theorems speak of the same formulas.

The models compose along the calls of the code: `TaskQueue` treats a task as one
step (`Finish`), `DownloadPool` opens that step for a batch, `DownloadTrack`
opens `TrackReturns` of a batch, and `Session` is what puts tasks into the queue,
with the queue itself reduced to its promise (`pending`, `active`), which
`TaskQueue` is shown to keep by refinement of `TaskExecutor`, and which is all that
`Session` does with it (`SessionUsesExecutor`). `ResolverGate`,
`StreamCache` and `StreamLookup` look into the look-up step of `DownloadTrack`
from three sides: when a call may begin, what is answered without one, and which
call comes next. `TagFile` opens its tagging step and uses the functions of
`SongFormat`. `Terminal` is the other half of `Session`: it has the bytes, the
scroll offset and the screen, and only four of the modes. `ConfigStore` stands apart:
it shares with `Session` only the playlists and the quality it keeps.

**TaskQueue.** `queue, qHead, qTail, qCount, bgRunning, bgThread` are the fields
of `AppState`; `pc` and `task` belong to each thread, `ui` is where `main` is.
One critical section of `s->lock` is one action: `PushAccepted`/`PushRefused`
(`push_task`), `Pop` and `Retire` (the two ends of the locked part of
`bg_worker`), `ReadRunning` and `Join` (the end of `main`). Between `Retire` and
`ThreadEnds` a thread has unlocked but not returned. `log`, `issued` and
`spawnOk` are history. A thread that was used is never used again, so the set
`Thread` also bounds how many can be created; `CreateFails` may happen at any
time.

**DownloadPool.** `next, done, failed` and the two mutexes `mu` and `sLock` are
the code's; each worker's `pc` follows the locks and unlocks of
`sqt_download_pool_worker` one by one. `handle` says what is in `workers[ti]`:
a thread, or whatever was on the stack, since the result of
`sqt_thread_create` is not tested. A join of such a handle is undefined: it
returns at once, or the process crashes (`parent = "crashed"`).

**Session.** The state is what the keys read and change: mode, previous mode,
search type, cursor, lists with their counts, the playlist in hand, the history.
List rows carry the number of the answer they came from, which is all the
properties need to tell items apart. A handler that unlocks before it reads the
selection is several actions (`op` is where it is), everything else is one.
Abstracted: query text (a URL or not), scroll offset, quality row, setup preset
and status lines. `api_fetch_playlist` is used as `main.c` uses it: the playlist
it returns has the URL that was asked for. `Page` is how many rows of a list the
window shows. In a window of fewer than six rows it is zero or negative, PgUp and
PgDn take the cursor out of the array (`main.c:962, 973`), and the next Enter reads
outside of it: that is undefined and not modelled. `RoomForARow` names what is left.

**DownloadTrack.** A path is a name, the numbers put after it, an extension and
whether it is the `.sqtmp` file. A file is a sequence of parts, each with the
track and type of its bytes. Every system call that looks at or changes the
directory is an action. An open file is kept by the path it is linked at: a
rename takes it along, a `remove` leaves its writer writing into nothing. There are
two transfers, and `windows` says which: that of curl (`api.c:812-858`) tells every
failure but that of `fclose` and removes its file; that of Windows
(`api.c:617-679`) looks at no status, read, write or close, and returns the length
that was announced, even when it could not open the file (`OpenFails`, `WriteLost`,
`TransferBreaks`). Windows also neither removes nor renames a file that is open, and
renames nothing over another (`Held`, `Move`). `nameOf` gives each track its name,
which two tracks may share. `cut` and `met` are history: the tracks that lost bytes
without a word, and the names that two workers had in hand at once. Names too long
for their buffers (`track-N`) and the progress display are left out; the stream
look-up and the tagging are single steps with their outcomes.

**ConfigStore.** One session at a time has directory, quality and playlists in
memory (`outDir`, `quality`, `playlists`) and saves `config` or `playlists`: open the `.tmp` file, flush,
close, remove the old file (Windows), rename. Each of these is an action and may
fail, and the session may end before any of them (`Stop`). A file's contents is
what loading makes of it, so the contents of a cut file are those that the
loader takes from a prefix (`CutsOfConfig`, `CutsOfPlaylists`). `Windows` and
`DiskMayFill` are constants.

**ResolverGate.** Moments of the code (`g_qobuz_resolver_last_ms`,
`..._cooldown_until_ms`) are kept as the time since or until them, in units of
about two seconds, and `Tick` is the clock. `GateBegin` takes the mutex and
computes the wait, `GateEnter` is the end of the sleep. What is called under one
hold of the gate (several resolvers in turn, with a pause) is one call. The
gate, the penalty and the caches are inert until `http_init`
(`g_qobuz_cache_ready`, here `ready`), which only the command line calls;
`Interactive` says which of the two programs it is, and the variable `serial`,
chosen at the start, whether `SQUIDGET_SERIAL_RESOLVER` is on. The properties do not
rely on the code's `cool`: `told` is the history of what the responses have asked
for, kept up to the latest moment, and `left` what of it was ahead when a worker
decided on its retry.

**StreamCache.** Both arrays with their next slot. `With`, `First` and `SlotFor`
are the linear searches, `Advance` the index. `foundId`, `foundURL` and
`foundAge` are history: what the service last said, and when; `foundSince`
is the set of songs found since a name was.

**SongFormat.** A file is a sequence of parts. For FLAC these are an ID3v2 tag, the
marker, the metadata blocks, each with its "last" flag, and the audio; for M4A the
top-level boxes with their sizes, where `moov` holds the position of the audio
(`at`, for all `stco` and `co64` entries). `TaggedFlac` and `TaggedM4a` are
`flac_tag` and `m4a_tag` between reading and writing; `Plays` is a reference
definition of what a player needs, written independently of them: blocks up to
the first one flagged, then nothing but audio; a `moov` whose position is that of
`mdat`. `ServiceFiles` are the FLAC files with the blocks of `OwnBlocks` behind
STREAMINFO, with or without an ID3v2 tag in front, and the two orders of M4A boxes
that `tag.c:628` assumes. `OwnBlocks` is a constant: any set of sequences of blocks
of any kinds and length, of which only the last is flagged. TLC has five of them, the
theorems all.

**TagFile.** `coverAt` is the name in the cache: which file has it, if any. A
file is kept by who made it, so that a writer whose file was removed under it
goes on writing into nothing. Each of `CheckHit`/`CheckMiss`, `Open`, `Fetch`,
`FetchEnds`/`FetchFails`, and of the tagger's `Read`, `OpenSide`, `Write`, `Close`,
`RemoveSong`, `Rename` is a call of the code, and `windows` selects the variant of
`http_get_file` and of the rename. The read of a whole cover file is one step.
`Kill` ends the process; songs that still wait are worked on by the next one.
`lost` and `spoilt` are history: what an unchecked `fclose` lost, and that a
transfer of the cover went wrong unnoticed.

**Keyboard.** A stroke sends bytes, each of which has a name; a read returns any
prefix of what has arrived (with `VMIN = 0` it comes back as soon as something
has). `ReadKey` gives the key and what is kept in `pending`.

**ListView.** The six navigation keys of `MODE_RESULTS` and `MODE_ALBUM_TRACKS`,
which are alike, as functions of cursor, scroll offset, length and page.

**Terminal.** `pc` is where `main` is: reading, about to draw (`render`), between
unlock and `fb_flush` (`flush`). `Compose` is `tui_render` up to its unlock with
`tui_resize`, `fb_ensure` and one `fb_put` per row, in the order of the code, since
a small window has rows that are put twice; `Flush` is `fb_flush`. The text of a
row is what it is made from, and stands for its hash. `touched` and `missed`,
`owed`, `honest` and `whole` are history for the properties. Typing shows only at a
read, so `Type` is enabled there only. A window whose size changes is `Junk`,
whatever a real terminal leaves of its text; the width plays the part of the
height. The spinner has one frame, a list two possible contents. `type` is the type
of search, `found` the length of the list of songs or albums it shows, `saved` that
of the playlists, which only grow: Tab and Ctrl+U empty the first and leave the
second (`main.c:872-882, 990-999`). A fetched playlist puts the cursor at its place
among the playlists whatever is shown by then (`DeliverPlaylist`, `main.c:556-565`).

**StreamLookup.** `Plan` is the sequence of requests for one ID: all services and
fall-backs of `qobuz_try_direct_stream_resolvers` twice, then the resolver of the
environment. `world` says how each service answers, and any answer may be lost,
`MaxLost` times in all. A link is taken unseen, as in `extract_qobuz_stream_url`:
besides services that link to what they were asked for there are some that link to
streams of one kind whatever was asked (`upgrade`, `downgrade`) and some whose error
page holds a link (`page`). A search finds a sequence of candidates, each described
by how title and artist compare with those wanted and by the difference in length
(-1: not known). `Overlap` is `token_overlap_score` on what the comparison can give:
the same text, one part of the other, so many of the wanted words somewhere in it, or
nothing left to compare, which scores 0 even for equal titles.

## 3. Properties and runs

| run | configuration | shows |
|---|---|---|
| `queue` | `TaskQueue` | No lost wake-up; clean exit; a full ring without worker stays so; `TaskQueue` implements `TaskExecutor` (first-in first-out, each task once, one worker at a time). Accepted tasks finish (unless stranded by a failed create, or killed); quitting returns. |
| `pool` | `PoolInstance` | Each track has one worker; the last message is exact; nobody can touch the pool when it is destroyed; the counts written as tracks finish ascend (a progress message may show an older count). Batches end: the nested mutexes, joins and the UI do not block each other. |
| `session` | `Session` | In a window with room for a row: a confirmed selection is queued as that item; cursors stay in the arrays; index, URL and tracks of the playlist in hand agree in its picker. |
| `track` | `DownloadTrack` | With either transfer, with names of their own or one name for both: downloaded tracks are whole but for what the transfer lost without a word; no error page becomes a song; nothing is overwritten, nothing left behind, all of this except for a name in the hands of two workers at once; every track is downloaded or given up. |
| `config_registers` | `ConfigStore_Registers` | Where no byte is lost: whatever fails and whenever the session ends, each file is its old or its new contents, and nothing kept is forgotten; refines `SettingsRegister`. |
| `config_faults` | `ConfigStore_Faults` | Windows and a full disk: a file only vanishes or becomes what its session has in memory, at worst cut; quality and history stay in range. |
| `gate` | `ResolverGate_CommandLine` | Calls keep the widened gap and wait until the last moment that any response has asked for; with the gate switched off a retry still waits for all that was asked when it was decided on, up to the maximal delay; every track comes to its end, as the gate is given back on every way out. |
| `cache` | `StreamCache` | What a cache gives is the last that was found, fresh, and not known to fail. |
| `tagging` | `TagFile` | A song can be played at every moment (`SongPlays`), has the new tags and no others when it was tagged (`TagsTaken`), and is as it came, with nothing beside it, when that failed (`FailureLeavesNothing`). A cover that is used is whole (`CoverWhole`). |
| `terminal` | `Terminal` | Nothing that was not typed is acted on, but for an Escape and characters that are bytes of a broken sequence (`KeysHonest`); cursor keys keep the selection on the screen (`SelectionVisible`); the cursor is on the list, with two exceptions below (`CursorUsable`); the window shows the state when nothing is to be drawn (`ScreenTrue`); all comes to rest (`Settles`). |
| `lookup` | `StreamLookup` | A song that can be had is given up only after a loss in each attempt; a lossy stream is saved for a lossless request only after losses, or from a service that passes it off; a song that fits is passed over only for one that the words do not tell from it. |
| `tag_contract` | `TagFile_Contract`, a violation | Section 6. |

Several of these properties say exactly how far the code goes and no further.
`FullRingWithoutWorkerIsFinal` is a hazard stated as a fact: `push_task` returns
early on a full ring, before the test that would start a worker, so a ring that
filled up while thread creation failed is never drained. `SelectionHonoured` has
the exception `overtaken`, a history variable set only by a delivery between a
handler's unlock and its unlocked reads; everything else, for instance a
delivery under an open picker, must not change what is queued. `SavedIsWhole`
excepts what was lost without a word (`cut`): the last bytes when `fclose` fails and,
on Windows, any part of a transfer that broke off or could not be written. It,
`NamesTellTypes`, `NothingLeftBehind` and `NothingOverwritten` except a name that two
workers had in hand at once (`met`): both find it free, then share one temporary
file, and either may sniff, rename or remove it under the other; the properties say
that the damage stays with that name. `OnlyFromMemory` allows a file to be cut or to vanish, since
both happen; what it excludes is a mixture of two saves or of two files.
`RetryAwaitsCooldown` leaves out what exceeds `MaxDelay`.
`SongPlays` and `FailureLeavesNothing` leave out Windows, where the song is removed
first, and the first also a song whose last bytes `fclose` lost. `TagsTaken` leaves
out an M4A whose audio comes first: everything from `mdat` on is copied, the old
`moov` included, and a player that takes the first one sees no new tags.
`CoverWhole` excepts a song that reads the cache file while another writes it, and a
cut file left there unnoticed (a failed `fclose`, a kill, a failed transfer on
Windows), which is a hit for ever. `KeysHonest` leaves out Escape, which half a
sequence gives, and the characters that the rest of the sequence then gives: an Up
whose first byte comes alone is an Escape, a `[` and an `A`, and in the track list of
a playlist that `A` queues a download of all of it. What it says is that these are
all: no cursor key, Enter, Backspace, Tab or control key, and no character that is
not a byte of a sequence, is ever invented. Of completeness it speaks only while no
read cut a stroke or took a sequence together with something else. `ScreenTrue` has two exceptions: the
spinner of a worker that has retired, since `Retire` marks nothing to be drawn, and
a window that changed its size and changed back between two drawings (`missed`),
where the hashes still match and the stale rows stay. `SelectionVisible` and
`CursorUsable` except windows of fewer than six rows, where the page is zero or
negative. `CursorUsable` also excepts a playlist delivered after Tab has left the
playlists: its place among them is then the cursor in a list of songs or albums that
may be shorter; from there keys only move the cursor back. `GivenUpOnlyForLosses` excepts songs whose first link is no song: any link
in a body counts, so a service that answers with an error page hides the later ones,
in each attempt. `LossyOnlyAsLastResort` excepts a public service that links to a
lossy stream when asked for a lossless one: the link is taken unseen, and whoever
comes after it is not asked. `RightSongChosen` says what the points can tell: a song
of the same words in another order, as near in length, has the same points, and wins
if it comes first; and a title in which nothing is left to compare never fits.

For each property of a passing run `PROJECT.json` names a mutant: a definition
changed the way a plausible slip would change the code, under which the property
fails in that run.

## 4. Bounds and fairness

Bounds are constants. `TaskQueue`: a ring of 3 (the code: 64) wraps under 5
tasks, with 3 threads, so a second and a third worker start on a ring that has
wrapped. `DownloadPool`: 3 tracks for 2 workers, so that one of them claims
twice; one progress message per track (`MaxMsgs`), since one stale message shows
all a message can do; that four threads (the code's number) go no further is what
the theorems show, except for `BatchEnds`. `Session`: 2 rows, a page of 1, 3
tasks of which one may wait, so that a third is chosen while the answer to the
second arrives, and 3 playlists for a history of 2, so that the history can be
full. Windows without room for a row are not in `Session`; `Terminal` has them.
`DownloadTrack`: 2 workers, 2 tracks, transfers of 2 parts, a retry, and names up to
number 2 (the code: 999). The settings are four (`Few`): names of their own with the
transfer of curl, in a directory that holds the song of one of them or the temporary
file of a dead session; the same temporary file with the transfer of Windows; and one
name for both tracks in an empty directory. `ConfigStore`: two directories and qualities, three playlists for a
history of two, and any number of sessions one after another. `ResolverGate`: one
track after the other without end, two retries (the default), cooldowns of 6 and
10 units against a maximal delay of 7 and a gap of at most 5, so that cooldowns
both fit into a delay and exceed it. `StreamCache`: three songs for two slots, a
slot being overwritten, erased and filled again within a few steps; a time to
live of two ticks. Names, IDs and URLs are interchangeable there, as are the
playlist URLs of `Session`, and symmetry is used. `TagFile`: two songs, so that one
can read, overwrite or lose what the other fetches, a cover of two pieces, which can
be empty, cut and whole, files with none to three blocks of their own and room for
two (the code: 64), so that one is lost. `Terminal`: three strokes, of which the
arrow and PgDn have several bytes to be cut, and four strokes and changes of the size
together, so that it can change back after two strokes; windows of three rows (rows
put twice, no room for the list) and of six (one row of it); lists up to two, and no
or one playlist kept from earlier: a delivery after Tab then finds a list that is
shorter than the place it gives. `StreamLookup`: a retry, two lost answers, which are
enough to fail both attempts, at most two services that give links, since a third can
only come after the two that hide it, eleven candidates (equal, one part of the other,
all words in another order, two, one or none of three, nothing left; eight
differences in length) and lists of one or, with one that fits, two of them, since the
choice is a maximum.

Fairness is on threads, never on the user or on failures. A thread that can
take its next step eventually takes it: the loops of workers contain no wait but
mutexes, joins and HTTP calls, and the latter end, by `CURLOPT_TIMEOUT` of 15 s
or 300 s (`api.c:746-761, 770, 818`) or the WinHTTP timeouts
(`api.c:430-446`). In `DownloadPool`, where threads compete for mutexes over and
over, waiting for a mutex needs strong fairness: a mutex that is released
infinitely often is obtained at some time. Nothing is assumed of keys, of thread
creation, or of requests, which may fail each time. In `ResolverGate` time
passes, and a worker within a track takes its next step; the next track is not
assumed.

In `Terminal` the loop of `main` goes round at least every tenth of a second
(`VTIME = 1`), and the worker ends its task or retires; nothing is assumed of the
user or the window, which the bounds bring to rest, or who quits.

`CHECK_DEADLOCK` is off where a run ends by itself: `TagFile` when all songs are done,
`Terminal` when the user has quit, `StreamLookup` when the song is saved or given up.
Elsewhere it is on, and the ends of the systems are explicit stuttering disjuncts.

## 5. What is proved

Every safety and action property of a passing run, and the refinements, are
theorems (`PROJECT.json`, `theorems`). They hold for every value of the constants
that satisfies the named assumption of the module (`TaskQueueAssumption`: a ring of
at least one slot and a thread that is no thread's name; `DownloadTrackAssumption`:
at least one part, names up to at least 2; and so on). A few have a
hypothesis, where the property is false or undefined without it: `RoomForARow` for
those of `Session`, `Faultless` for the two about registers of `ConfigStore`, and
`~Interactive` for the gate. Each property follows from an inductive invariant of
its component:

- **TaskQueue**: `IInv` joins the ring contents, the flag and the execution
  order. The ring part alone is not inductive: that a popped task is the next
  one (`RunsInOrderOnce`) needs the contents of the slot at `qHead`, and that
  there is only one popper needs the flag. The refinement theorem `Refinement`
  shows that the initial states map to initial states and each step to a step of
  `TaskExecutor` or a stutter, through the state function `AbstractView`.
- **DownloadPool** (in `TaskQueueProofs`): `PoolInv` adds who holds which mutex at
  each program point (`LockState`), which handles are threads (`ThreadState`), what a
  worker between its two increments has counted (`CountState`) and what the parent
  will read (`ShownState`).
- **Session**: `IInv` adds where the chosen item is at each stage: in the
  picker, in a handler's operation, in a handler's gap (`GapState`,
  `PickerState`, `OpState`) and what help returns to (`HelpState`).
  `SessionUsesExecutor` shows that the queue in `Session` is `TaskExecutor` as long as
  the program runs (quitting is left to `TaskQueue`): tasks wait in the order of their
  numbers behind the one that runs (`QueueState`), a push is `Accept`, a pop `Begin`,
  and the end of a task or its last delivery is `Complete`. With `Refinement` this
  joins the two modules: `TaskQueue` provides what `Session` relies on. TLC agrees
  (`PROPERTY UsesExecutor` in `Session.cfg`; no run includes it).
- **DownloadTrack**: everything holds for any names, equal ones included, and for
  both transfers; what is said of files is said of names that two workers never had
  in hand at once. `Order` says who has a path or an open file and that two workers
  with one name have been noticed (`met`); so while a name is not in `met` a worker's
  step does not concern the paths of any other (`Concerns`, `Alone`, lemmas `Others`
  and `OtherSongs`), and a step on a name that is in it concerns no other name
  (`MetStep`). `FileInv` says what the temporary file holds at each program point:
  parts of the track and, where they were lost, holes (`Partial`), then all of it but
  for what was lost if it begins as media (`Received`). Without the exception the
  properties are false; see section 6.
- **ConfigStore**: types and `OnlyFromMemory` hold on any system with any
  failure. Refinement and `SettingsSurvive` are proved under `Faultless` (no
  Windows, no full disk), where they can be true. The invariant says what the
  temporary file holds at each step of a save, so that the rename writes the
  register.
- **ResolverGate**: types hold for both programs. `SpacedAndCool` is proved for the
  command line with the gate on: who sleeps at the gate holds it and sleeps at
  least until gap and cooldown are over (`Waits`), which needs that nobody
  changes penalty or cooldown meanwhile, as both are changed under the same mutex.
  That the code's moment is the last one asked for is an invariant of its own (`Kept`:
  `told = cool`), which a shorter cooldown that replaced a longer one would break.
  `RetryAwaitsCooldown` needs no gate: only the command line learns cooldowns, and
  it has one worker (`Learnt`); who waits for a retry sleeps until all is over that
  was asked for when it decided, but for what lies beyond `MaxDelay` (`Waited`).
- **TagFile**: `FailuresLeaveNothing` and `SongsAlwaysPlay` rest on what a song and
  its `.sqttmp` file are at each program point (`SongInv`): the song is as it came
  until the rename, and the file that is renamed is either the tagged song in full or
  known to be cut (`lost`). Windows, where the song goes first, is outside of both.
  That a tagged song plays is itself proved (`FormatsKeepPlaying`), for covers of any
  size and for any `OwnBlocks`: lemma `FlacTagged` takes a FLAC file of any blocks in any order and
  follows the loop over them (each block that is kept loses its "last" flag, the
  picture or the comments get it, what does not fit is left out) to a file whose only
  comments are the new ones; for M4A, where two orders of boxes are assumed, lemmas
  `MoovFirstTagged` and `AudioFirstTagged` compare the moved position with the sum of
  the sizes before `mdat`. Sequences are described there by their length and their
  elements, as induction over them is not available. `TagsAreTaken` adds to `SongInv`
  what the file has been made from (`TagInv`). The invariant of `CoversAreWhole`
  (`CoverInv`) is that a cover in the cache is whole or `spoilt`, or that one of those
  writing to its file finds there every piece it has written: the last that opened it.
- **StreamCache**: no key stands in two slots (`Distinct`) and each entry agrees
  with the history (`IdsTrue`, `StreamsTrue`). `Distinct` is what makes the first
  slot found the right one; lemma `Put` shows that storing keeps it although
  slots are erased in the middle.
- **StreamLookup** (in `StreamCacheProofs`): that the choice among results is a
  maximum (`BestIsBest`), and what a score says of title, artist and length
  (`OverlapTells`, `ScoreTells`: 100 points are all words and two seconds, 85 most
  words and eight seconds), give `RightSongChosen`. For `LossyOnlyAsLastResort`
  the invariant `Owed` counts: each service with a lossless stream that the plan has
  come past was asked, once per round, and each time its answer was lost; the plan
  begins with both rounds of lossless requests, which only a service that passes off
  lossy streams answers with one (`DirectLossless`). For
  `GivenUpOnlyForLosses` the attempts that are over have each lost something
  (`Paid`), and the present one either has lost something too or is still on the
  track that leads to the song (`OnTrack`).
- **Terminal**: in windows with room the cursor is not above the first row shown, and
  it is on the list or the list is shown from its start (`OnList`, the second for a
  cursor left by a playlist under another type of search): this is what
  `SelectionVisible` and `CursorUsable` need of the state before a step, for any lists
  and windows. `ScreenTrue` needs four
  facts that are only together inductive (`Redrawn`): a change of the size is still
  known to somebody (`SizeTold`), the frame buffer has a row for each row of the
  window (`Buffer`), a row of the window differs from the frame buffer only where that
  is marked (`Written`), and the frame buffer is that of the state unless `s->dirty` is set
  (`UpToDate`), but for the spinner. Lemma `PutOnCovers` shows that every row of a
  window of two rows or more is put, and put last with its final text, though small
  windows put rows twice.
- **Keys** (in `TerminalProofs`): `KeysHonest` is proved for any number of strokes and
  any cuts. Its two halves have invariants of their own (`KeyInv`). Every key but
  Escape and the characters that are bytes of sequences has a byte that no other has, its sign, and each read that
  gives such a key takes one of its signs off (`ReadTells`); the signs that have
  arrived and are not read can be mapped, in their order, to keys owed (`Owing`): a
  key that is acted on takes away the first, and what was lost in a cut or unknown
  sequence only makes the signs fewer. While every read took what it can tell, the
  bytes that have arrived are the units of the keys owed, one after the other
  (`Spelled`), and those kept contain no Escape; lemma `ToldApart` shows that such a
  read gives the first of them, because no unit begins with `[` or `O`.

The proofs also hold what no run spends its time on: the types of every component
(`TypeOK`), that the ring holds the pending tasks, that the flag names the only
worker, that counts agree with outcomes, that a list is one answer, that the quality
picker stands on its row, and that the track list of a playlist is the current one
(`RingCorrect`, `OnlyWorker`, `CountsCorrect`, `AnswersNotMixed`,
`QualityPickerCorrect`, `ScreenCorrect`).

Only model-checked: the liveness properties (`AcceptedTaskFinishes`, `QuitReturns`,
`BatchEnds`, `EveryTrackEnds`, `TrackEnds`, `Settles`), since the proof system does
not reason about fairness, and the violation `UntouchedOnError`. `ConfigStore`,
`StreamCache`, `TagFile`, `Session` and `StreamLookup` have safety properties only.
No theorem says what a step may *need* (`ENABLED`): that a step is not missing is
what the mutants and the liveness runs are for.

## 6. Disagreements between the code and its documentation

Checked by a run:

- `tag.h:4-6` says that on any error the original file is left untouched. On Windows
  it is removed before the new one gets its name (`tag.c:333-336, 644-647`), and when
  that fails it is gone; `download.c:599` then says "file still saved"
  (`tag_contract`).

Stated in the modules as definitions that no run includes. Each is violated when it
is put into the configuration named; they were found that way:

- `README.md:149-153` says that Enter downloads the selected result. A handler
  of Enter unlocks `s->lock` first and reads `tracks[cursor]`, `albums[cursor]`
  or `current_playlist_url` afterwards; results that arrive in between are
  downloaded instead (`SelectionAlwaysHonoured`, `Session.cfg`; the exception
  `overtaken` of `SelectionHonoured` is exactly this).
- `README.md:157` says that a playlist URL opens the playlist's track list. If
  Tab was pressed while the page was fetched, the picker that opens is for an
  album (`PlaylistOpensItsPicker`, a property, `Session.cfg`).
- `README.md:226` promises serialised resolver calls by default. Only the command
  line initialises the gate; in the interactive program calls run at once
  (`SerialCalls`, `ResolverGate_CommandLine.cfg` with two workers and `Interactive`),
  and for the same reason without the gap of `README.md:227` and without the caches of
  `README.md:75`.

Seen while modelling, without a definition of their own; the properties except them
by name where they touch them:

- `download.c:529` says that `build_out_path` handles collisions. It does for
  files that exist; two workers with tracks of one name both find the name free,
  and then share one temporary file. The run `track` has such tracks: without the
  exception `met`, `SavedIsWhole` and the three beside it are violated there.
- The Windows transfer (`api.c:617-679`) ignores the HTTP status and the results of
  reading, writing and closing, and returns the announced length. A transfer that
  breaks off is sniffed by its head and saved as a song; so is the temporary file of a
  killed session when it cannot be opened again. An answer that announces no length is
  never saved. The song is reported as downloaded: `cut` excepts it.
- A playlist that arrives after Tab leaves a cursor that may be past the list
  (`main.c:556-565, 937-938`), and its picker then downloads an album, or nothing.
- An Up whose first byte is read alone is Escape, `[` and `A` (`tui.c:1005`); in the
  track list of a playlist, `A` downloads all of it (`main.c:1019`), and the digits of
  PgUp, PgDn and Home choose a quality where the picker is open (`main.c:1061-1072`).
- `README.md:196-197` names lossless streams for the lossless qualities, and
  `README.md:202` says that whatever stream comes back is saved. The code does the
  latter at once: the first link in an answer is taken unseen (`api.c:2027-2065`), so
  a lossy one ends the rounds of lossless requests that a later service could meet.
- `token_overlap_score` gives all points to the wanted words in any order, or as parts
  of other words, and none to titles without an ASCII letter or digit, even to equal
  ones (`api.c:2444-2462`).
- A title that ends in " (2)" has the name that `build_out_path` gives to the second
  copy of the title without it; `DownloadTrack` takes numbers and names apart.
- `README.md:198-199` calls High and Low lossy streams; the community service is
  asked first whatever was chosen, and only has lossless ones
  (`api.c:1928-1932, 2265`), so that a lossless file comes when it answers.
- `squidget.h:89-91` says that a collision of row hashes costs one extra render. It
  costs one too few: `fb_put` skips the row (`tui.c:246-250`).
- `api.c:2285` clears the error that `api.c:2314` reads, so that the message of
  `api.c:2336` with the reason in it cannot appear.
- `tui.c:983` decodes bracketed paste, which nothing asks the terminal for; a paste
  comes as text.

Two more limits are built into the model and visible in what `OnlyFromMemory`
permits, beyond what `ImplementsRegister` promises. `config.c:100` calls saving
atomic, but neither the writes nor `fclose` are checked: on a full disk a cut file
replaces the good one. `config.c:118` says "Atomic replace", but on Windows the
old file is removed first, and a session that ends in between has lost it.

## 7. What is not modelled

`PROJECT.json` lists every part under `components`. Most lines of the repository are
not SquidGet: 34,500 of 42,000 are the headers of a vendored compiler (`src/tcc`).

- Out of reach or without state: the HTTP libraries (external), wording, layout and
  colours of the screen, the debug log, the folder picker (an external program), the
  build files.
- String work on what services send: the JSON parser, the readers of metadata,
  lyrics and playlist pages (iTunes, Apple, Spotify, Tidal, Deezer), normalising of
  titles, signing and deobfuscation. A model of these is the program once more, in
  another language; they are for tests. `StreamLookup` takes their outcomes as
  inputs.
- The command-line mode beyond what `ResolverGate` and `StreamCache` say of it: one
  track after the other, no second actor.
- In the tagger: boxes besides `ftyp`, `moov` and `mdat`, which are dropped when they
  stand before `mdat` although the offsets are moved by the growth of `moov` alone;
  fragmented files, of which the scan keeps the last `moov` and `mdat`; boxes with a
  64-bit size, which the scan advances past by one byte; pictures beyond the 24-bit
  length of a FLAC block. `tag.c:628` says which shapes are assumed, and `SongFormat`
  has these.
- In the terminal: the quality picker, help and the two track lists as screens (they
  are modes of `Session`); the console keys of Windows; xterm's `ESC [ H` and
  `ESC [ F`, which `tui_read_key` does not know.
- In the lookup: two tracks at once, and links or IDs kept across tracks
  (`StreamCache` has these). The first hit of an ISRC search is taken unseen by the
  code, so nothing can be said about it.
- Retry-After values of weeks, which overflow an `int` (`api.c:261`), and the 32-bit
  clock of Windows (`thread.h:58`): nothing in the repository says what should happen.

## 8. The plan

Done: the queue and its abstract executor, the batch, the session, the track
download, the settings, the gate and the caches, the lookup, cover and tagger, the
terminal; for each of them every safety property is proved. Next:

1. Composition: `DownloadPool` with `DownloadTrack` as its tracks, in the way
   `Session` uses `TaskExecutor`.
2. An abstract specification of the lookup (a song is found, or losses are paid for)
   with `StreamLookup` as its implementation, in the way of `TaskExecutor`.
3. `SelectionHonoured` with the two fixes it asks for (reading the selection before
   the unlock), as a variant that needs no exception.
4. A wider `SongFormat`: fragmented files and boxes between `ftyp` and `mdat`, when
   the tagger handles them.
