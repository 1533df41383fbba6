# A verification of Turbo64's core

Turbo64 is a bulletin board system for one caller at a time, written in C for a
Commodore 64 with an REU, a 6551 modem interface (SwiftLink, Ultimate) and disk
drives (IEC or SD2IEC).  This directory holds TLA+ models of the parts of it
where the order of events decides whether a message, a user record or a byte
survives, the TLC runs that check them and TLAPS proofs of what matters most.

File names below are relative to the repository (`src/src/hal/rel_seq.c`).

## 1. The system

One 6502 thread runs everything: boot, the waiting-for-call loop, the session of
the caller, and the drawing of the local screen.  A timer interrupt receives
modem bytes.  State that outlives a call is on disk, in record sets and in
sequential files; the machine may be reset at any moment, and usually is (there
is no shutdown).  The disk fails, too: the drive may be missing, a command may be
refused, or its reply may be lost.

| Component | State | Operations | Works with |
|---|---|---|---|
| SEQ record backend: `hal/rel_seq.c`, `hal/seq_region.c` | the REU copies of the record sets, the one open handle, its dirty flag; on disk `<name>` and `<name>.NEW` | `rel_open`, `rel_position`, `rel_read`, `rel_write`, `rel_close`, `rel_reset`; at boot `rel_seq_sweep` | disk HAL below; every data module above |
| Message base: `data/messages.c`, `data/boards.c` | a board's record, its index `B<n>.IDX`, its bodies `B<n>.TXT` | `msg_post` (prunes), `msg_delete`, scans, `board_save` | record backend, `reu_compose_commit` |
| Compose buffer: `hal/reu.c` | the text in the REU | append, edit, commit to a file | editor, message base |
| Modem driver: `platform/cbmdos/net.c`, `net/at_response.c`, `net/telnet_iac.c` | receive ring, RTS shadow, hold depth, call state, AT parser | `net_rx`, `net_rx_raw`, `net_tx`, `net_rx_hold`, `net_rx_release`, `net_disconnect`; the interrupt | session, transfers; disk HAL holds RTS |
| Session: `session/session.c` | handle, user record, login attempts, time limits | login, registration, idle and time checks, logoff | users, modem driver, menus |
| Bulletin reader: `features/bulletin.c`, `features/editor.c` | current board and message, read pointers | read, next, reply, change board, post | message base, session |
| Users: `data/users.c`, `data/usrptr.c`, `data/usrday.c`, `data/user_hash.c`, `features/auth.c`, `features/newuser.c` | user records, read pointers, day counters | find, allocate, register, save | record backend; session and editor program share the file |
| Transfers: `net/punter.c`, `net/zmodem.c`, `features/xfer.c` | block numbers, checksums, positions | send, receive | raw modem calls, disk HAL |
| File areas: `data/file_areas.c`, `data/file_entries.c`, `features/files.c` | directory records, the caller's current area | choose, list, add | record backend, transfers |
| Overlays: `main.c`, `hal/disk.c`, `features/menu*.c`, `features/doors.c`, `features/sysop.c` | what lies at `$9700`, `wfc.ovl_wfc_loaded`, the menu stack | load a bank, call into it, load back | every feature runs in it |
| Directories: `data/boards.c`, `data/file_areas.c`, `data/votes.c`, `data/doors.c` | a record set each, of boards, areas, polls and doors, by number | create, edit, order, delete; find by number or by place in a list | record backend; message base, file areas and doors keep more under the same numbers |
| Editor program: `src-editor/` | a copy of one user, board or door | create, edit, reset, delete users and entries of the directories | the same record sets, never at the same time as the BBS |
| Others: terminal output, configuration, stubs, diagnostics | | | see `PROJECT.json`, "components", with the reason why each is not modelled |

What is hard here, and what each property is for, is listed with its source line
under "hazards" in `PROJECT.json`:

* *Resets.*  A save is four disk operations, a post touches three files.  The
  boot sweep sees only which files exist.
* *Partial failure.*  Every call returns an error code, some of which are
  ignored on purpose, and a failed save is retried by a later, unrelated call.  The
  boot sweep drops all its results, and a read that fails passes for the end of a file.
* *Sharing.*  All `UD<n>` and `B<n>.IDX` sets share one REU region, and there is
  one handle for all sets: a stale name or count would save one set as another.
* *The interrupt* writes the ring and drops RTS while the thread reads the one
  and raises the other.
* *Boundaries.*  u8 counters that wrap over a smaller ring, u16 offsets, record
  numbers that are never reused, an empty first message.
* *Copies.*  The session, the reader, the file areas and the editor's form each keep
  a record they read earlier, act on it after prompts, and write it back whole.
* *One zone of code.*  Seven overlays and the doors are loaded over one another, and
  a call or a return goes to whatever is there.
* *A streaming line.*  A Zmodem sender does not wait: what it sent before it hears
  of an error arrives all the same, and a SEQ file cannot be rewound.
* *Numbers that outlive what they name.*  A deleted board leaves its callers' read
  pointers, a deleted area its files, both under a number only.
* *Derived data.*  The end of `B<n>.TXT` is not stored, it is computed from the
  index; the number of the next message likewise.

## 2. The modules

    RecordStore             what the record backend promises: atomic saves
        ^ refinement
    RelSeq  <- RelSeqStore  the record backend, and that it keeps the promise
        ^ RelSeqProofs      its invariants and the promise, proved
    MsgBase                 one board over two record sets that keep RecordStore's
        ^ MsgBaseProofs     promise, and the file of bodies; proved
    RxRing                  the receive ring, RTS and disk operations
    Line                    a call: the driver's state machine under the waits of the BBS
        ^ NetProofs         the invariants of both halves of the driver, proved
    Reader                  the bulletin reader and the line editor, several boards
        ^ ReaderProofs      and callers, over boards as MsgBase shows them; proved
    Accounts                the user file under registration, login, logoff and the
        ^ AccountsProofs    editor program; proved
    Directory               boards, areas, polls and doors in the editor program, with
        ^ DirectoryProofs   what callers leave under their numbers; proved
    Transfers               file areas, Punter, Zmodem
        ^ TransfersProofs   its invariants, proved
    Overlays                what runs at $9700, from boot to logoff
        ^ OverlaysProofs    its invariants, proved

The modules meet where the code has an interface: `MsgBase` takes from the record backend
what `RecordStore` promises; `Reader` takes from a board that numbers are never reused and
that a deleted message stays in its place; `Accounts` has the two versions of a record set,
read and durable, that `RelSeq` has, and so does `Directory`, whose `Visit` and `Upload` are
a call of `Reader`, `MsgBase` and `Transfers` as seen from the numbers; `Overlays` has of a
session the states that load code and of a transfer only its overlay, and `Line` only the
waits of both.

`MCRelSeq`, `MCRelSeqStore`, `MCReader` and `MCTransfers` give small sets and tuples;
the other modules have constants a .cfg can give directly.  Operators named in a
comment "Mutant: ...", and in `Line` those whose comment describes a changed action
(`ResetKeepsStalls`, `WfcUndrained`, ...), are changed copies of the action that
follows: putting one in its place must break the property `PROJECT.json` names with
it.  They are part of no specification.

### RelSeq: the record backend

| Model | Code |
|---|---|
| `main[n]`, `new[n]` | the files `<n>` and `<n>.NEW` on the drive |
| `reu[r]`, a sequence | the REU region `r` and its `s_count_by_region[r]` |
| `s_loaded`, `s_window_name`, `s_name`, `s_open`, `s_pos`, `s_dirty` | the statics of `rel_seq.c` of these names |
| `pc`, `req` | how far the running `rel_*` call is; which set a `rel_open` in progress asks for |
| `swept` | how far the boot sweep is |
| `written`, `acked`, `exposed`, `damaged` | history only: what callers wrote, what the last good close left, which sets failed while their live file was gone, which a failed sweep or a load cut short has shown as less than they were |

Calls run to completion one at a time, so an action ends where the drive's state
changes, and nowhere else.  `RelOpen` decides whether a save that failed is
retried; `OpenSet` is the rest of `rel_open`; `FlushScratchTmp`, `FlushCreate`,
`FlushFill`, `FlushScratchLive` and `FlushRename` are the steps of
`region_flush`, each with its failures, and `FlushFill` writes one record.
`Crash` may happen after any of them and loses all but the two files;
`BootRecover` is the decision table of `rel_seq_recover` for one name, and
`BootRecoverFails` what it leaves when one of its own operations fails
(`Misrecovered`): the partition is not selected, the probe of `<name>.NEW` or of
`<name>` answers wrongly, the scratch or the rename is refused.  Nobody looks at
its result, so the boot goes on either way; a probe that takes an absent live file
for one that exists costs the only copy.  `Loaded` is what `region_load` may make of
a file: all of it, or less after a read error, which it takes for the end.  The eight
kinds of failure are a constant (`FaultKinds`).  "reply" is a nasty one: the drive has
done the command, and the BBS cannot know.  "probe" stands for every failure of the
sweep but those of the scratch and the rename.

`RecordStore` says what callers rely on: a save takes effect as a whole or not
at all, and a reset loses the unsaved edits of one set at most.  It admits one
weakness of the code, which the source names: the first save of a set has
nothing to fall back on, and may leave a prefix.  `RelSeqStore` maps the saved
version to what the sweep would make of the two files at this moment, so that
the scratch of the live file, not the rename, is where a save takes effect.

### MsgBase: a board

`cur` and `store` are the two record sets of a board (the index, the board's
record) as `RecordStore` has them: what a reader gets, and what survives.  A save
that fails leaves `cur # store`; any later open retries it.  `txt` is the body
file, one number per byte: the post that wrote it.  `pc` and `job` are the
position and the locals of the running `msg_post` or `msg_delete`, one step for
every access to a record set and for every byte of the body.  Each record access
has the outcomes the code distinguishes, with the bookkeeping of failures in a
few operators (`ReadDone`, `SaveDone`, `SaveLost`, `WriteFails`, `AccessFails`,
`ScanFails`).  Results that the code ignores are ignored here: the parent's reply
count, the pruned records.  Inside `msg_scan_all` a failed open is reported to
nobody, and its callers see an empty index.

The fields of a message that no decision reads (author, subject, times) are left
out, and `own`, the post a record belongs to, is added for the properties.

### RxRing: the receive path

The interrupt (`Isr`) and the thread share `s_rx_buf`, `s_rx_head`, `s_rx_tail`
and the RTS bit.  The thread's loops are cut at each access to what they share:
`RxBegin`, `RxDrain` (one byte), `RxTestFill` (compares the fill with the low-water
mark) and `RxAssert` (writes RTS, on an answer that may be old by then) are
`net_rx` and `net_rx_raw`; `Hold`, `Release` and `ReleaseAssert` bracket every
disk operation; `DtrOff`, `DtrOn` and `Flush` are `net_disconnect`.  A disk
operation may stop the timer or reset the vector (`armed`), as the code's
comments report of the KERNAL.  `ModemSends` is the modem: with RTS off it sends `Slack`
more bytes.  `nsent` and `taken` are history; a byte is its number, so that order,
loss and repetition are one comparison.  That the poll outruns the line, which the
choice of the timer latch is about, is assumed.  `RingInit`, `RingNext`, `RingTypeOK` and
the like have the prefix because `NetProofs` extends `Line` as well.

### Line: a call

| Model | Code |
|---|---|
| `line`, `alive`, `calls`, `typed` | outside the program: the call the modem holds, whether its caller is still there |
| `ring` | the receive ring, a token for each line of text or result code, with its call |
| `s_state`, `s_saw_dsr_inactive`, `s_dsr_was_active`, `connected`, `s_tx_stalls`, `s_tx_dead` | the statics of `net.c` of these names; `connected` is `s_at.connected` |
| `pc`, `ret` | how far `net_rx` or `net_disconnect` is, and where the latter returns to |
| `at` | the wait the BBS is in: `wfc`; `drain` and `detect` of terminal detection; `loop`, the session's main loop; `step`, `key` and `prompt`, the three ways in which a session waits for a byte; `end` and the two pumps that follow a hang-up |
| `s_idle_fired` | that the idle limit has struck in this session |
| `conn`, `sess`, `got` | history: the call last answered, the call the session was begun for, the call whose byte `net_rx` has returned |

There is one thread, but the modem moves between any two of its looks at
`ACIA_STATUS`.  So `net_rx` is cut at each of them (`RxDead`, `RxCheck`, `RxTrack`,
`RxSettle`, `RxAnswer`, `RxReply`) and at each token (`RxTake`), `net_disconnect` into
`Escape`, `DtrPulse` and `Reset`.  `Send` is a byte sent from wherever the code sends
one; what it does to the state machine is the count of refused bytes.  The actions
of the BBS are what each wait makes of the answer of `net_rx`, and which wait is
next.  A disk operation needs no action: it is any number of steps of the modem
between two of the program.

The two modems differ in everything that matters here.  With `u64`, DSR tells of the
line and DTR hangs up, but DSR may stay up after a caller who has gone
(`LeaveUnnoticed`).  With `tcpser`, DSR never changes, result codes in the ring tell
everything, and only `+++`, `ATH` hangs up.  Assumed of them: the Ultimate drops the
call when DTR is low for the half second of `net_disconnect`, answers no call
meanwhile, and tcpser acts on the escape whenever it is sent.  The idle limit is
assumed to be configured (0 turns it off).

### Reader: the bulletin reader

| Model | Code |
|---|---|
| `base[b]`, `high[b]` | a board's messages by number, and `msg_high_id` in its record |
| `marks[u]`, `s_ptr` | the records of `USR.PTR`, and the copy of the caller's |
| `s_board`, `s_high`, `s_cur_msg`, `s_author` | the reader's statics: the board record read on entry, the message shown last and its author in `s_cur_info` |
| `compose`, `cut`, `s_line_count`, `parent`, `to` | the compose buffer by lines, whether it is full and ends within one, the editor's count, and the locals of `bull_do_post()` |
| `at` | the boards prompt, the reading prompt, the editor, its abort question |
| `shown`, `found`, `uncounted` | history: what each caller was shown; what they found current when they entered without board 1; the lines that a quote left in the buffer and the editor did not count |

Each command of either prompt is an action, with the `display_msg()`, `usrptr_advance()` and
`bull_load_board()` it makes.  `Display` has both outcomes of `display_msg()`; a message
that is not shown leaves the current one as it was, which is what most of the reader's
subtleties come from.  `Save` is the end of `bull_do_post()` with the pruning of
`msg_post()`.  Whom a new message is to is not kept, except of replies. `HangUp` may happen
at any prompt, where the code takes it for ENTER (`EnterKey`).  Five kinds of disk call may
fail (`FaultKinds`).  The statics outlive a call, as in the code, and `Begin` resets only
what `bulletin_run()` resets: if board 1 cannot be read, nothing but the pointers.

`Quote` puts the lines of the current message in the buffer, all or the first of them, the
last of them cut where the buffer ends (`PutLines`), or none; then
`editor_count_lines()` counts those that are ended, and no more than `MaxCount`
(`Counted`), while `Rubout` takes back the last line, cut or not, and counts one less.

### Accounts: the user file

| Model | Code |
|---|---|
| `users`, `disk` | `USR LOG` as the next `rel_open()` shows it, and as it survives a reset |
| `day`, `date`, `today` | `USR.DAY`, `wfc.date`, and the calendar, which the program does not see |
| `handle`, `password`, `confirm`, `reg_step`, `reg_editing`, `login_attempts`, `empty_handle_attempts`, `user`, `user_id` | `session_t` |
| `timing`, `used`, `mins` | `s_time_active`, `s_day_mins_used`, and the clock since |
| `form`, `form_id` | the `user_record_t` that `users_do_edit()` holds |
| `given` | history: the handle under which an account was announced |

An action is one line typed, with all that the code does before it asks for the
next.  `Numbered` is the check of a new handle and its number, with what each scan says
when it cannot read.  `SaveFails` has the two failures of `user_save()`, of which the
second, a failed flush, leaves the record where it will be read and saved later
(`LateFlush`).  A handle may begin with a space, which no check refuses; since
`handle_eq()` compares up to the first space, all such handles are one, `Blank`, and it is
that of a deleted account.  The editor program runs from a reset of the BBS to its own
(`Configure`, `Stop`) and writes back its form, old or not.

### Directory: boards, areas, polls and doors

| Model | Code |
|---|---|
| `view`, `disk` | the record sets `BOARDS`, `UDS`, `VOTE1` and `DOORS` as the next `rel_open()` shows them, and as they survive a reset |
| a record's `born` | which entry it is of, by the order of creation; the code has only the number, and 0 is a slot never used |
| `index`, `bodies`, `pointers`, `entries` | `B<n>.IDX`, `B<n>.TXT`, what `USR.PTR` has of board n, `UD<n>`: the entry each was written for |
| `at`, `form`, `id`, `tag`, `how` | the menus of `src-editor/admin`, the board or door in its form, the buffer of the net tag, whether the entry is a new one |
| `said`, `place` | history: what the SysOp was last told of each entry, and the number it was given |

An action is one command of a menu, or one key of a form, with every call it makes.
Such a call may fail half-way, and the code goes on, returns, or undoes what it did; so
the calls are operators on *outcomes* (`Now`, `Open`, `Save`, `Delete`), sets of states
the record sets may be in with the result that is returned, and an action chooses one
and keeps it (`Keep`).  `Anyway` is a result the code does not look at.  A save that
fails at its open leaves the old record, one that fails at its flush the new one, to be
saved by any later open.  `BoardsCreate` saves the board, opens its form, and deletes it
again if it cannot be read; `BoardSave` saves twice, with the net tag the second time;
`VotesCreate` saves twice and reports success whatever comes of the second save.  The
number of a board, area or poll is the one after the highest ever used (`UsedIds`), that
of a door the first free slot (`DoorSlots`).  Lists are ranked as `board_by_index()` and
its siblings do it, one call for each line of a page (`BoardRank`, `Nth`, `Page`).

### Transfers: file areas and protocols

A file is a sequence of chunks, each with its upload and place.  `disk` is the
directory, which all areas share; `entries` and `total_files` are the record sets;
`area`, `area_idx` and `area_files` are what `files_run()` remembers.  With Punter one
block is under way at a time, so an exchange with its retries is a step.  With Zmodem
the terminal's frames stay in `line` until the BBS reads them and its answers go back
through `reply`: the external sender streams up to `Window` frames ahead, starts over
where `ZRPOS` says, and may start over unasked.  `at` follows `zmodem_recv()`: `zhello`,
`zhead` (waiting for a header), `zsub` (in a frame), `zgarbage` and `zskip` (reading
what is dropped), `zfin`.  A frame can be damaged, lost or, with an answer lost, sent
again; the disk can fail at the opening, at a chunk, and in each of the three record
sets an upload touches.

Two failures pass unreported, and the history variable `dropped` remembers them: a
`disk_read()` that fails is taken for the end of the file by both senders
(`PunterSendBlock`, `ZStream`), and a byte that the drive loses behind `disk_putc()`
is missed by the Punter receiver, which stores a chunk with a hole, `<<begun, 0>>`
(`PunterRecvBlock`).  `unmade` has the names that `disk_open()` scratched and could not
make again, `unkept` the areas with an entry or a count that was not saved.

### Overlays: one zone of memory

`zone` is what lies at `$9700`; `at` is where the program is, `ret` where it goes on
after a reload.  Every action that calls or returns into the zone does so through
`Runs`, which compares the bank that is there with the one the code was linked for: if
they differ the model stops `at = "wild"` and `stray` says who went there.  A load may
fail and leave the zone (`absent`) or stop in the middle (`partial`, `junk`).
`commands`, `MenuCommand`, `MenuBack` and `MenuUnknown` are the menu tables and their
dispatch; `DoorRun`, `Restore` and `LoginDoors` the doors with the reload that must
succeed, `Panel` the SysOp's view of the session, which is code of WFC and trusts
`ovl_wfc_loaded`.

## 3. The runs

| Run | Checks | Bounds |
|---|---|---|
| `RelSeqFaults` | four invariants of `RelSeq` | 2 sets, both in WINDOW; 2 records, 1 value and the blank one; all eight failures, those of the sweep included, any number of times; resets anywhere; 1.5 million states |
| `RelSeqAtomic` | `AtomicSaves`: `RelSeq` implements `RecordStore` | 2 sets, one in WINDOW; 2 records, 1 value and the blank one; "select", "open", "write" and "scratch" |
| `MsgBaseFaults` | five invariants, an action property | 3 records, a limit of 2, batch 1, bodies of 0, 1 or 2 bytes, offsets that wrap at 4, 4 posts, one failure or one reset in mid-call; resets between calls are free; 4.1 million states |
| `RxRingFlow` | three invariants, two liveness properties | a ring of 13 whose counters wrap at 26, 28 bytes sent, marks 2 and 1, one byte late, holds nested twice, two disk operations between two drains |
| `LineCalls` | three invariants, three liveness properties | both modems, 2 calls, 2 lines of text each, 3 refused bytes mean a dead peer |
| `Reader` | two invariants, an action property | 2 callers, 2 boards, 2 numbers to a board, limits of 2 and 1 messages, 2 drafts, 2 calls, lines of the editor 1, buffer 3, lines counted 2, any two of five failures; 1.2 million states |
| `Accounts` | three invariants | 3 accounts, lines too short or beginning with a space, 2 passwords, 2 tries, a limit of 1 with days of at most 2, one failure, 2 calls, 2 edits, 2 days; 2.2 million states |
| `Directory` | three invariants | 2 boards, 2 areas, 1 poll, 2 doors, one entry to a page, 2 entries ever created, 2 failures, resets and callers anywhere; 1.27 million states |
| `Transfers` | four invariants, a liveness property | 2 areas, the second above the caller's level; files of up to 3 chunks, 2 uploads, 1 record to an area, 4 frames under way, 2 faults, 1 resend |
| `OverlaysTurns` | three invariants, a liveness property | 2 failed loads of either kind, 2 unknown commands, 2 login doors, menus to the code's depth |
| `ReaderEnter`, `TransfersPunter` | fail, see 4 | no failure of disk or line at all |

Three more configurations pass and are run by hand: `RelSeqWindow` (`MCRelSeq`) has the two
WINDOW sets of `RelSeqFaults` and a fixed one, of one record each, with the same failures
(2.2 million states); `AccountsNames` (`Accounts`) two handles that do not begin with a
space, on one day (3.8 million); `ReaderFull` (`MCReader`) a third draft, for which a board
has no number left, and no failures, and checks `DraftIsOwn` as well (1.6 million).

Why these bounds are enough to be interesting.  Two WINDOW sets are the least with which a
set can lose its region to another, and two records give every length a prefix can have, and
a gap to fill.  `RelSeqAtomic` has a fixed set beside one in WINDOW: a third set, which
stays resident while two take turns, is left to `RelSeqWindow`, and all three with two
records each are beyond what TLC finishes; the proof needs none of these bounds. Posts
outnumber the records of a board, so that pruning, the ceiling and a rejected number all
occur, and the limit is below the ceiling as in the code (100 and 200).  One failure in
`MsgBaseFaults` is enough for each of its properties to be broken by a mutant.  Offsets that
wrap at 4 leave room for three bodies of one byte, or one of two and one of one, all
readable at once and each with an offset of its own, before the end wraps and `BodiesIntact`
is no longer claimed; two bodies of two bytes reach the wrap with a post still to come.  The
ring's counters wrap, with more bytes sent than the wrap, and 13 is exactly the size at
which the proof says the ring cannot overrun for these marks.  `Wrap` is twice `Size` as 256
is twice 128. Two calls are the least in which one can leave something to the next, in the
ring or in the statics; two lines, one read as a key and one left over; three refused bytes
leave room for a count that is neither fresh nor full.

In `Reader`, two callers and two boards are the least in which a copy can be another's.  A
board that keeps two messages lets a caller go from one to the next, one that keeps a single
message makes the second post prune the first.  A buffer of three lines that counts two is
the least in which a quote can be counted in full, be cut, and be too long to be counted.
Two failures are what it takes for a pointer to reach a message of the caller before: board
1 at the entry, then the message asked for.  In `Accounts`, there are two passwords, a
handle that begins with a space and one, typed in two pieces, that does not, and a third
slot; the second edit is the one that can write back a stale form.  In `Directory`, two
entries are the least in which one can be given the number or the slot of another, and a
page of one makes a shared rank a page that shows the same entry twice; the failures are the
two that a save and its undoing need.  In `Transfers`, three chunks give a first, a middle
and a last one to a file, and four frames let a header, its data, the end and a repeated
header be under way together; two faults are the least with which a restart can itself go
wrong.  In `Overlays` nothing but the failed loads is bounded below what the code allows in
one session, and two failures let the reload after a failed load fail.

What they show:

* `ViewIsLatest`, `OthersUntouched`: whichever operation fails and however often, in a call
  or in the sweep, the next reader gets what was last written, and no set is saved into
  another's file. (That a set in the REU without unsaved records equals its file,
  `CacheCoherent`, is proved.)  One kind of set is excluded, `damaged`, until the next
  reset: one that the sweep found in `<name>.NEW` alone and, for a failure of its own, did
  not restore, and one whose load a read error cut short.  Its callers are shown less than
  it was, and their next save makes that final; `RelSeqSweep` (section 4) is the
  counterexample.  No other set suffers from it.
* `Durable`: a reset at any moment leaves a set that the sweep, if it does not fail itself,
  restores as last saved or as being saved.  Three windows are excluded, and named in the
  property: the first save of a set, a set whose save failed after its live file was
  scratched (`exposed`), and a damaged one.
* `AtomicSaves`: without rename failures, lost replies, loads cut short and failing
  probes of the sweep only the first window is left.
* `BodiesIntact`: the end of the body file derived from the index is right as long as no
  call was cut off between the two, no byte was lost and the bodies fit in a u16; then each
  message reads back as its own body, deleted ones and empty ones included. `skewed`
  remembers that it was otherwise; it compares the file with the highest end *and* with each
  record (`EndsAt`), since an end that has wrapped and a byte that is missing can make up
  for each other.  `CountsExact`, the count in the board's record and its limit, holds for
  undisturbed boards.  `ThreadsRooted`, `AckedDurable`, `NeverOverwritten` hold in spite of
  failures: threads keep their root, a post that was reported as done survives a reset, and
  no message takes another's number.
* `InOrder`, `QuietDuringIo`, `EveryByteTaken`, `RtsComesBack`: no byte
  is lost, overwritten in the ring, repeated or left behind; the modem is quiet while
  interrupts are masked; and the caller is never frozen for good.
* `CallerIsHeard`: whichever of DSR and the result codes comes first, and whatever
  comes late, a connected driver takes the caller's bytes for keys and not for the
  modem's chatter.
* `FreshBytes`: no session reads a byte of an earlier call than its own.  A redial
  inside a session is a *later* call, and the code lets it have the session: the
  property does not say otherwise.
* `LineAnswers`: with `u64` no state that a call leaves in the driver keeps it from
  answering the next caller who stays.
* `LineRecovers`: a caller who vanished without a trace loses the line in the end, to
  the refused bytes or to the idle limit.  A session that outlives its own idle limit
  is excluded: the limit strikes once, and is armed again only by a new session.
* `DropNoticed`: every wait but the editor's abort prompt (`prompt`) notices that the
  call has ended, so that the BBS gets back to WFC or has another caller.

* `MarksShown`: a read pointer, in memory or on disk, is at a message its caller was shown:
  not at a number asked for in vain, nor at another board's.  One exception is the code's,
  and `ReaderLastRead` is its counterexample: the message of the caller before, found
  current because board 1 could not be read.  `DraftIsOwn` (`ReaderFull`): the compose
  buffer holds nothing of an earlier draft, and `s_line_count`, by which DEL takes lines out
  of it, never exceeds what is there; it is short only by a line cut at the buffer's end and
  by those a long quote has beyond the count. `KillsAuthorised`: K, which goes by a copy of
  the header of the message shown last, deletes only what its caller wrote or moderates.
* `GivenFound`: the account announced to a caller is found under its handle after a
  reset, whatever was registered, edited, deleted or written back since, unless the
  handle begins with a space (`AccountsBlank`).  `TypedTwice`:
  however fields are changed before they are accepted, the password kept was typed
  twice and the handle was checked.  `TypeOK` holds the counters of attempts below their
  limits at every prompt, and the minutes of a day below theirs.
* `OwnContent`: a new board or area never shows messages, read pointers or files of an
  earlier one, whatever was left under its number.  `SaidIsKept`: what CONFIGURE told the
  SysOp of an entry is what a reset leaves of it, a failed attempt since apart; and each
  live entry is on exactly one line of its list, so that it can be picked.
* `CompleteIsWhole`: what TRANSFER COMPLETE promises, and the four exceptions it has. Nobody
  reports a read that fails or a byte the drive drops, and then the file is short, or has a
  hole; but nothing in it is out of its place. The exception for Zmodem is a limit of the
  protocol as implemented: `zmodem_recv()` accepts a `ZEOF` at any position and
  `zmodem_send()` hears no `ZRPOS`, so after damage to a frame the two may differ and both
  be content.  `ListedIsThere`: a listed file exists, whatever failed on the line or in the
  records, unless an upload of nothing listed it, or `disk_open()` scratched that very file
  for a later upload and could not make it again.  `CountsAgree`: an area counts as many
  files as it lists, although the count is kept in a copy of its record that outlives
  changes of area; an entry that found no room and a save that failed are excluded by area
  (`unkept`).  `TransferEnds`: whatever the line does.
* `StraysKnown`: the program never runs another bank's code, except on the paths the
  property lists; `FlagTold`: `ovl_wfc_loaded` is true of the zone, except while login
  doors run and after a load that stopped half-way.  `BackToWfc`: a session whose caller
  is gone ends.

### Fairness

In `RxRing`, `RingFairSpec` assumes that the interrupt, whenever it can take a byte again
and again, does (`SF`: it is masked for the length of a disk operation, not for ever, and
re-armed by `Release` or `RxBegin`); that the thread goes on (`WF` of its steps; there is
nobody it waits for) and every disk operation ends; and that somebody calls `net_rx` with
room for a byte again and again (`SF`). The last one is what the code's waiting loops do:
`main_loop` at WFC, where a byte on an idle line is consumed whatever `want` is, `sess_getc`
for a key, and `net_rx_raw` in a transfer.  The caller is not assumed to send anything.

In `Line`, `FairSpec` assumes that the program runs on (`WF` of all its steps together:
one thread), and of three actions that they happen if they are possible again and
again (`SF`): the keepalive, the idle limit of a session and that of the detection.
Each is one branch of a turn of a wait that read no byte, chosen by a clock that the
code reads in every such turn; the model has no clock, and strong fairness says only
that the branch is not avoided for ever.  Nothing is assumed of the callers and the
modem.

In `Transfers` and `Overlays`, `FairSpec` is weak fairness of the program's steps: one
thread, every wait of a transfer has a timeout, and every prompt of a session ends with
its carrier.  One of the latter is an idealisation: the editor's abort prompt, inside
`ActionReturns` of `Overlays`, does not look at the carrier (`Line` has it as a wait of its
own, and excludes it).  The terminal is not assumed to send anything.  `OverlaysTurns`,
`Transfers` and `Reader` do not check for deadlock: the program may halt on purpose
(`door_run()`, a failed boot), and the bounds on calls and drafts end a behaviour.

## 4. Disagreements between the code and what is said of it

Each is a configuration that ends in a counterexample.  The first two are runs, and
`PROJECT.json` quotes the sentences.

* `ReaderEnter`.  ENTER is to "advance to next message".  `display_msg()` does not make a
  deleted message current, so in front of one ENTER answers "DELETED." for ever.
* `TransfersPunter`.  "Last block gets index 0xFFFF": `punter_send()` gives it to the block
  before, and never sends the last, so that every download of more than 248 bytes
  lacks its end while both sides report success.

The others are kept as configurations to be run by hand
(`tlc -config RelSeqPromote.cfg MCRelSeqStore`, and so on):

* `RelSeqSweep` (`MCRelSeqStore`).  The sweep's probe treats a failed `disk_open()` as
  absent, "matching region_load()'s convention" (`rel_seq.c:158`); that convention is the
  opposite, "NOT file absent" (`rel_seq.c:65`).  After a reset that left a set in
  `<name>.NEW` alone, one failed probe makes the next `rel_open()` serve it as "genuinely
  absent == empty set" (`rel_seq.c:77`), and its next save scratches the records.
* `AccountsBlank` (`Accounts`).  "A slot holds a real user only if it has an id AND a
  non-blank handle" (`users.c:362`), but `user_by_handle()` asks for the id only
  (`users.c:253`).  A handle that begins with a space is accepted, equals the blanked handle
  of a deleted account, and is found there first: the account announced under it cannot log
  in by it any more.
* `ReaderLastRead` (`MCReader`).  "Per-user last-read pointers" (`README.md:703`).  When
  board 1 cannot be read, `bulletin_run()` (`bulletin.c:624`) goes on with the board and
  message of the caller before; if the first message then cannot be read either, the pointer
  of the new caller is advanced to that of the old one (`bulletin.c:652`, `659`) and saved.
* `RelSeqPromote` (`MCRelSeqStore`).  `seq_region.h:33` says of a `<name>.NEW` found alone
  "complete, rename it in".  After a rename that failed, the retry (`rel_seq.c:115`)
  scratches that complete file and writes it again record by record, with no live
  file behind it; a reset meanwhile promotes a part.
* `MsgBaseCeiling` (`MsgBase`).  `README.md:590` has a hard ceiling of 200 *messages*;
  the code refuses the post with *number* 201, for ever, however few messages are left
  after pruning.
* `MsgBaseEof` (`MsgBase`).  `reu.h:67` takes "current EOF position (see msg_body_eof)";
  that is the end of what the index covers.  A reset between the body and the index record
  leaves bytes that no record covers, and from then on each body is recorded that much too
  early.
* `MsgBaseWrap` (`MsgBase`).  The same sentence, without any failure or reset: the end is a
  `u16` (`messages.c:419`), and 200 bodies of up to 1500 bytes do not fit in 64 KB.  After
  the wrap a post is reported as done and its record names bytes of another.
* `MsgBaseScan` (`MsgBase`).  `records.h:62` says that `msg_high_id` makes scans
  unnecessary; the scan is made all the same (`messages.c:534`), and when it cannot open
  the index the new message becomes number 1 and replaces the first.
* `RxRingOverrun` (`RxRing`).  RTS pauses the sender "before the 128-byte ring overruns"
  (`net.c:140`) only if `net_rx` is called in time: each disk operation ends by raising RTS
  without looking at the ring.  With a ring of 128 and a mark of 16 that takes some 110
  single-byte operations in a row.
* `LineHangUp` (`Line`).  `net_disconnect` issues `+++` and `ATH` "so tcpser closes the TCP
  itself" (`net.c:637`); when the peer was given up as dead the state is already
  `NET_DROPPING`, in which `acia_putc` sends nothing, and the call stays with the modem.
* `OverlaysPanel` (`Overlays`).  The 40-column panel "only draws while WFC is resident"
  (`sysop.c:1179`).  The flag it looks at is cleared after the login doors have run
  (`doors.c:273`), so the panel drawn for a door's own output, at the console, calls into
  the doors' overlay.
* `AccountsDay` (`Accounts`).  The minutes of a day (`session.c:592`) are counted anew when the
  record's date is not today's, but today is the day the SysOp entered at boot.
* `DirectoryFull` (`Directory`).  `file_areas.h:88` has `BBS_EFULL` for "area table full (8
  areas max)"; the number of a deleted area is not given again, so that the table is full
  with fewer areas, or none.  That is what `OwnContent` rests on: `UD<n>` stays.
* `DirectorySlot` (`Directory`).  CREATE DOOR takes any failure of `door_by_id()` for a free
  slot (`src-editor/admin/doors.c:253`): after one read that fails, SAVE replaces a live door.
* `AccountsReset` (`Accounts`).  A password reset in the editor program does not refresh the
  form (`src-editor/admin/users.c:575`): saving the form afterwards writes the old hash
  back, after the new password was announced.
* `AccountsScan` (`Accounts`).  `user_next_id()` takes any failure to open the file for
  "File doesn't exist yet" (`users.c:332`): the new account is number 1 and replaces the
  SysOp's.

Noticed while modelling, without a configuration of their own: `zmodem_send()` ignores
`ZRPOS` and reports success; a `ZFIN` in place of the first header, or a skipped file, is
reported as an upload and listed; opening the destination scratches a file of that name
before anything has arrived; `fl_load_area()` overwrites the current area before it checks
the level, after which an upload looks only at `upload_level`; the results of
`fentry_add()`, `fentry_save()` and `file_area_save()` are ignored.  A handle `NEW` can be
registered but never log in; the daily limit is looked at in `sess_getc()`, and so not at
the menu prompt; a failed save at logoff says FAILED although the record is kept and saved
later; read pointers that could not be loaded are saved as zeros.  A board chosen by its
number is not checked against `read_level`, and `R#` moves the pointer past messages that
were not read.  The CONFIGURE editor saves a new board before its form is shown
(`src-editor/admin/messages.c:172`): a reset in the form leaves a board readable by all.

## 5. The proofs

`RelSeqProofs` proves, for any sets, sweep order, capacity, values and failures:

    TypeCorrect, CacheIsCoherent, ViewIsAlwaysLatest, OthersStayUntouched, SavesAreDurable

(the last four of sets that are not `damaged`), each as `Spec => []...` from one inductive
invariant `IInv`.  None of the properties is inductive alone.  That the sweep may promote
`<name>.NEW` depends on its being complete, which depends on the step at which the live file
goes; that a resident set is current depends on who owns WINDOW while a save is pending.
`IInv` adds `ControlInv` (what each `pc` implies of the handle), `HandleInv` (an open set is
resident, a set with unsaved records keeps WINDOW), `FlushInv` (how much of `<name>.NEW` is
written at each step), `SettledInv` (no `<name>.NEW` exists between saves), `SweptInv` (what
the sweep has put right) and `DurableInv` (why a live file is missing when it is).  There is
one lemma for each action.  Assumed are `NamesAssumption` and `RecordsAssumption` of
`RelSeq`: the sweep covers all names, WINDOW is not a set's name, a region has room for one
record.

`SavesAreAtomic`, in the same module, is the refinement: with `"rename"`, `"reply"`,
`"read"` and `"probe"` not among the failures (`NoSwapFaults`, the assumption of
`RelSeqAtomic`), `Spec => AtomicSaves`. The step simulation has one lemma per action.  A
record write is `Edit`, and needs `OthersUntouched` to know that no other set has unsaved
records; a flush takes effect at the scratch of the live file (`Save`), or, for a set that
has none, record by record (`FirstSave`); a reset is `Reset`, and a turn of the sweep is
seen only where it promotes the beginning of a first save (`Adopt`).  Everything else is
invisible.  It needs one more invariant, `SwapInv`: a set that has been saved lacks its live
file only between the scratch and the rename, and then `<name>.NEW` is there, and no set is
damaged; with any of the four failures it is false, and so is the refinement.

`NetProofs` proves, of `RxRing`, `NoOverrun`, `InOrder`, `QuietDuringIo` and `RingTypeOK`
for every ring size, counter width, marks, latency and number of bytes, provided

    Size >= High - 1 + (MaxIo + 4) * (Slack + 1)            (Roomy)

where `MaxIo` bounds the disk operations between two times that `net_rx` finds the
ring below `Low`.  The key part of the invariant is `RoomInv`: what is in the ring,
plus `Slack + 1` bytes for each time RTS may still be raised, fits.  Each raise
spends one of those times; the interrupt, which drops RTS at `High`, and `net_rx`,
which starts the count anew when it finds the ring below `Low`, restore it.
`CountInv` and `BufInv` connect the wrapping counters with the number of waiting
bytes; the lemmas on remainders they need come first.  `Roomy` is needed:
`RxRingOverrun` is the same system without it.  The real numbers (128, 16) allow
`MaxIo` 109 for a modem that stops at once, 52 if one more byte arrives.

Of `Line` it proves `TypeOK`, `CallerIsHeard` and `FreshBytes` for any number of calls,
lines and refused bytes, and either modem (`LineTypes`, `LineHears`, `LineFresh`).
`CallerIsHeard` is inductive once every writer of `s_state` is seen to write `connected`
with it; the other two are not.  That a stall count stays below the limit needs
`DeadIsTornDown`: a full count is a dead peer, in a state in which nothing is sent, until
the hang-up clears it.  That a byte is of the session's call or a later one needs
`LatestCall` (the modem holds the latest call or none, and no token, answer or session is of
a call yet to come) and `Drained`: from the moment a session is past its drain, what is left
in the ring is no older than the session.  One lemma covers what the modem does to the ring
(`ModemInv`), one each the waits (`WaitInv`, `BbsInv`) and the driver (`NetInv`).

`ReaderProofs` proves `TypeOK`, `DraftIsOwn`, `RepliesReachAuthor`, `KillsAuthorised` and
`MarksShown` for any boards, callers, levels, bounds and failures (`TypeCorrect`,
`DraftsAreOwn`, `RepliesReachAuthors`, `KillsAreAuthorised`, `MarksAreShown`).  The
inductive part is what the copies have to do with the originals:
`CurrentInv` (if a message is current on the board at hand, the author remembered is its
author), `ReplyInv` (the message a reply is begun to still exists under its number when
the editor returns, although others were pruned), `DraftInv`.  `KillsAuthorised` then
follows step by step.  `MarksAreShown` rests on `MarksInv`: what is current on the board at
hand was shown to the caller who is on, or found there by them, which is what `found`
remembers of a `Begin` that could not read board 1.

`OverlaysProofs` proves `TypeOK`, `StraysKnown`, `FlagTold` and that code which runs is at
`$9700` (`CodeAtHome`), for any number of failed loads, doors and levels of menus.  The
flag `ovl_wfc_loaded` speaks of one bank only; what the program knows of the others is
where it is, which is `HomeInv`.  It needs where a reload or a door returns to
(`ReturnInv`), what a broken load leaves (`JunkInv`), that WFC is missing from a logon only
after a failure (`LogonInv`, `StartInv`), and the count of unknown letters (`CountInv`).

`AccountsProofs` proves `TypeOK`, `GivenFound` and `TypedTwice` for any number of users,
calls, edits, days and failures, and handles of any kind typed, provided that no search of
the user file fails (`"scan" \notin Faults`; `AccountsScan` is the same system without it).
The strengthening is that handles that do not begin with a space differ, in the file as read
and in what a reset leaves (`Unique` in `FileInv`), and that the copies which are written
back later, the session's and the form's, have the handle of their record (`SessionInv`,
`FormInv`); `RegInv` says what a registration has collected at each of its steps, through
every change of mind.

`DirectoryProofs` proves `TypeOK`, `OwnContent` and `SaidIsKept` for any numbers of boards,
areas, polls, doors, lines to a page, entries and failures.  Every action comes down to
one slot that is written with one record, or with one and then another, and may stop
anywhere on the way (`Wrote`).  A number once given to a board, an area or a poll stays with
it, in `view`, in `disk` and from the second to the first (`Grows`); `ContentInv` needs all
three, because a caller's files are written under what `disk` has and a reset goes back
to it.  `SaidInv` says that of each announced entry both sets have something the SysOp was
told of, or may have; its part about doors (`SaidForm`), whose slots are given again, is
where `"slot" \notin Faults` is used: `DirectorySlot` is the same system without it.  That
a live entry is on one line of its list (`EachIsListed`) needs no invariant but the types:
ranks have no ties (`BoardRankIs`, `NumberRank`), and a rank is on one line of one page
(`OnePlace`).

`MsgBaseProofs` proves all that `MsgBaseFaults` checks, and that pruning takes the oldest
messages first while nothing has failed (`PrunesOldest`), for any capacity, limit, batch,
lengths of bodies, width of an offset, posts and failures.  `TypeOK` needs that the counters
of the running call stay below the ceiling at which it was admitted, and that a post adds
one reply to one message (`RepliesCounted`).  `CountsExact` and `PrunesOldest` come from
`CountInv`, which says step by step how far the counts in `job` and in the board record are
apart from the index while nothing has failed.  The other four survive failures and
resets, and rest on `KeptInv`: the index on disk is the beginning of the one that is
read (`Begins`), which every step but a reset only lengthens (`Grows`), while `job` has the
id and the high mark of the index and record it is about to write.  `ThreadInv` and `BodyInv`
add what the new record will need: the root that was found for it, and that the file
ends where the post has got to.  They assume `"scan" \notin Faults` (`AllScansRead`): an open
that fails inside `msg_scan_all` makes the next message number 1, and `MsgBaseScan` is the
system in which it may.  The attempt to prove `BodiesIntact` for any width of an offset
failed at first, for a good reason: with lost bytes and a wrapped end together it was
false as it was stated then; hence `EndsAt`.  `ThreadsRooted` became stronger by the proof,
too: it now says that only a reply can be in another's thread.

`TransfersProofs` proves `TypeOK`, `CompleteIsWhole`, `ListedIsThere` and `CountsAgree` for
any files, areas, window, resends and faults.  For Punter and for a download the argument is
local: at each block what has arrived is the beginning of the file, chunk by chunk whole or
with bytes missing (`PunterInv`), and what was streamed without damage or a failed read is
all of it (`StreamedInv`).  A Zmodem upload is not: whether the chunk that the BBS writes
next is the right one depends on what the terminal sent long before, perhaps twice.
`StreamInv` says it by a trace: there is a frame, the one read last, that tells the
receiver's position (`ReadLast`); each frame on the line follows the one before it
(`Follows`); the last of them tells the sender's position (`SentLast`).  Reading a frame
moves the beginning of the trace, sending one its end.  Once the file is complete every
further copy is skipped, which is why a sender that starts over unasked does no harm, and no
restart is under way but the first, which finds the line empty.  The trace breaks with the
first damage to anything but ZEOF, and `CompleteIsWhole` makes that exception; ZEOF may be
lost, because what may follow it is the whole file once more or nothing. `ListedIsThere`
rests on `FileInv`: a transfer that writes has a file to write to until it ends.
`CountsAgree` rests on `CountInv`: the count at hand is that of the area at hand, in the
record too, unless its save has failed.  `TypeOK` needs `JobInv`, that no upload ends whose
credit was not begun.

Model-checked only: every liveness property, since fairness is out of the prover's reach.
`ReaderEnter` and the other counterexamples need no proof.

## 6. Not modelled

* In `RelSeq`, several programs on one disk: CONFIGURE and the BBS never run at
  the same time.
* In `MsgBase`, message flags nobody sets, and several boards: two boards share the window
  of `RelSeq`, whose properties say that they do not disturb each other.
* In `RxRing`, the nesting of the interrupt in its own key scan (it touches only the
  ring, one byte at a time, as `Isr` does), and the contents of the bytes.
* In `Line`, the bytes of the telnet filter, a modem that ignores DTR or a command,
  sessions at the local console (they never touch the line), and the difference
  between the two time limits and the SysOp's kick, which are one action (`Kick`).
* In `Reader`, the list of headers, help files and colours; word wrap, of which only the
  number of lines matters to the editor; the steps inside `msg_post()`, which are
  `MsgBase`.
* In `Accounts`, collisions of the password hash (`Hash` is injective), the callers' log,
  credits and the other fields that no decision reads, and the limit on calls per day,
  which is configured and which no code looks at.
* In `Directory`, the settings and the other fields of the forms, `board_set_subop()`, which
  nobody calls, `door_by_key()` and the visibility of doors to callers, and a file that the
  SysOp deletes from an area.
* In `Transfers`, CRC, escapes and the checksum handshake byte by byte: a subpacket is
  good, damaged or cut short.  What the drive loses after it has accepted a `disk_write()`
  (a Zmodem upload) without an error is lost there, unseen by any code.
* In `Overlays`, what an overlay does while it is in place, and display files.
* The REL build (`hal/rel.c`): the drive keeps the records, and the code has no state but
  an open channel.
* Terminal output, configuration parsing and the stubs of mail, chat and votes: tables and
  layout, with hardly any control.  See `PROJECT.json`, "components".

## 7. Plan

Done: record backend, message base, receive ring, line, overlays, reader, accounts,
directories, transfers; proofs of all of them. Left:

1. An abstract specification over `Line`, one session for each call, with the run that
   says where the code departs from it: `main_loop` calls `net_rx` before it looks at
   the state, so that a redial can resume the session of the call before it.
