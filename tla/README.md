# Verification of Nixodria OS

This directory models Nixodria OS in TLA+, checks the models with TLC on small
instances and proves the central safety properties with the TLA+ proof system: of the
file store, the print transport, the editor and the interpreter's key queue, and of the
eight host programs under `tools/` that build, publish, import and export its disks.
Every definition is translated from the source; the field `map` of `PROJECT.json` names
the lines. Paths below are relative to the repository.

## 1. The system and its parts

The repository holds two systems.

The **legacy system** is a 16-bit real-mode kernel on a virtual floppy: a shell, a
line editor, a file store, a package catalog, a BASIC interpreter and a print
module with its own network stack. It is one thread of control; what is
concurrent with it is the world: the drive, the network, the serial line, the
power switch. The **Rust system** is an Alpine guest whose login shell is
`src/main.rs`, with host tools that build, publish, import and export disk images.

| part | source | state it keeps | operations | hard behaviour | what makes it correct |
|---|---|---|---|---|---|
| file store | `src/boot.asm` 855-961, 1149-1847 | directory, data cells, `active_slot`, `active_generation`; two slots on the floppy | boot, save, remove, commit, roll back | power loss between any two sectors, failing and torn writes, decayed or unreadable sectors, a 16-bit generation that wraps | an operation is all there or not at all; what was acknowledged is what the next boot shows; memory describes itself |
| shell, editor | `src/boot.asm` 150-550 | command line, edit buffer | dispatch, edit, list, run | limits of the buffers | a command changes only what it names; documents keep whole line ends; one Enter is one line, whatever the terminal sends for it |
| packages | `src/boot.asm` 508-642, 965-1149; `tools/build_image.py`, `tools/fetch_package_catalog.py` | catalog sectors | list, install, remove | a damaged catalog; a full directory; a name checked in three places | a package is installed whole or refused; what is listed can be installed by that name |
| print transport | `src/print.asm` 85-170, 400-1348, 1467-1480 | one TCP connection, the response buffer, one clock | resolve, connect, send, wait | loss, duplication, reordering, retries, resets, a reply before the request is complete | a job is reported queued only if the printer took it whole; the command returns |
| print content | `src/print.asm` 172-400, 1349-1465, 1484-1914 | pagination, chunk buffer | paginate, encode, parse | two walks over the same text; lengths chosen by the printer | announced pages are the pages written; the parser stays inside the response |
| BASIC | `src/basic.asm` | program, variables, return stack, key queue | run, poll, wait | input while the program runs, full queue, midnight | Escape always stops the program; keys stay in order |
| exporter | `tools/export_legacy_files.py` | the destination directory, what the run has noted as its own | parse, create, write, clean up | the choice of snapshot made again in another language; Ctrl-C between creating a file and noting it | host and kernel agree; nothing of others is touched |
| importer | `tools/import_legacy_files.py` | the guest's disk, the archive it serves | serve, drive the guest, the guest's script, report | signals in a script that goes on, QEMU killed around a rename, a destination that appears meanwhile | the whole import at once or nothing; the report is true |
| guest session | `tools/qemu_guest.py` | what the console printed behind the last match | expect, run, shut down | the console echoes what is sent; slow guests; QEMU dies | an exit status belongs to its command |
| legacy runtime | `tools/prepare_runtime_image.py` | the user's floppy image | read, combine, replace | a machine that runs on the image | saves are kept |
| image builder | `tools/build_image.py` | base, modules, catalog, image | validate, lay out, write | two programs check the same sectors in different ways | what is built, the kernel loads, lists and installs |
| catalog fetch | `tools/fetch_package_catalog.py` | lock file, cached catalog, temporary files | read the pin, compare, download, replace | concurrent runs, an edited lock, a download cut short | the cache is a pinned catalog |
| system build | `tools/build_system.py` | installer, toolchain, partial image, image, stamp | build, create the toolchain, check the installer | a kill between two files; sources edited during a build | the stamp vouches only for its image |
| publication | `tools/build_system.py`, `tools/export_utm.py` | runtime disk, UTM draft | copy, link, run, convert, publish | concurrent launchers and exports, a guest that starts meanwhile | published once, whole, never replaced |
| Rust shell | `src/main.rs` | settings file, temporary directory | edit, run, install, print | Ctrl-C, half-written files | edits are kept, no stale program runs |
| Tetris | `apps/TETRIS.rs` | board, piece, score | shift, rotate, lock, tick | none concurrent | pieces never overlap |

How they interact: the shell calls the store (`file_save`, `file_remove`) and gives
the print module a pointer into a data cell; the store calls the drive through the
BIOS; the exporter reads the very sectors the kernel writes and must choose as it
chooses; `prepare_runtime_image.py` puts old snapshots under a new kernel; the builder
writes the catalog that `pkg` reads. On the Rust side the build, the launchers and the
exporter meet in the disk images and in QEMU's locks on them, the importer and the build
drive a guest through the same session. The components and hazards in `PROJECT.json` list every part
and every place that is hard to test, also the parts no module covers.

## 2. The modules

```
SnapshotSlots  pure: slots, generations, validity, choice
  |- Storage         the running kernel: boot, save, remove, commit, crash
  |    |- StorageProps   properties, inductive invariant, refinement mapping
  |    |    |- StorageProofs   TLAPS
  |    |    |- MCStorage       TLC
  |    |- StorageMedia   decay and unreadable sectors between boots
  |         |- LegacyExport    the host exporter on the same floppies
  |              |- MCStorageMedia TLC
AtomicStore    abstract: what a file store promises
  |- Workspace         shell, editor, package and print commands over that store
       |- WorkspaceProps     properties
            |- WorkspaceNotebook  refinement mapping to Notebook
                 |- WorkspaceProofs   TLAPS
                 |- MCWorkspace       TLC
Notebook       abstract: what the user is promised
FileNames      pure: the five places that read a filename
Keyboard       abstract: what a BASIC program and its user are promised of keys
BasicInput     polling, key queue, KEY, WAIT, Escape, watchdog
  |- BasicInputProps    properties, refinement mapping to Keyboard
       |- BasicInputProofs  TLAPS
       |- MCBasicInput      TLC
PrintTransport the print command, the network, the printer
  |- MCPrintTransport TLC
  |- TransportProofs  TLAPS
CreateOnce     abstract: what a tool promises that makes something new at a path
RuntimePublish launchers, the runtime disk, guests
  |- UtmExport       exports beside them
       |- RustDisks       composition, refinement mappings to CreateOnce
            |- RustDisksProofs  TLAPS
GuestSession   a host program that drives a guest over its console
  |- LegacyImport    with ImportScript, the script in the guest, as its command;
       |              refinement mapping to CreateOnce
       |- LegacyFilesProofs   TLAPS, with the two below
RecoverFiles   the exporter's writes
RuntimePrepare the refresh of the user's floppy beside a running machine
SystemBuild    one `make` after the other
CatalogFetch   concurrent runs of the catalog fetch
ImageBuild     the image builder and the kernel's view of its work
  |- BuildProofs     TLAPS, of the three and FileNames
FoldFacts      TLAPS: FoldLeft, for BuildProofs and WorkspaceProofs
MCHostTools    TLC, of all the host programs
```

### SnapshotSlots

The on-disk format and the boot's choice, without any state. A slot is a header and
`MaxFiles` cells; a header carries a generation, the entries of the directory and
the checksum of the cells. `Gen`, `IncGen`, `SubGen` and `AFirst` are the 16-bit
arithmetic with the width as a constant (`HalfGen` is half the generations):
`AFirst` is the comparison of `storage_load`: the difference, taken modulo the width, is
at most half the range, unsigned (`cmp ax, 0x8000`, `jbe`). `HeaderValid`, `PayloadValid`
and `Sound` are `storage_header_valid`, `storage_validate_files` and
`storage_try_slot`; `ChooseSlot` is the loop of `storage_load` with its fallback to
the other slot. Contents are model values, and the CRC is an ideal digest: two
different payloads never share one. A snapshot
of the older format (`nix2`) holds one unnamed document, with the same checksums, of its header and of its
text; it is loaded under `DefaultName`, and there is no name to check.

### Storage

The kernel with its drive. Variables: the floppy (two slots), the directory and
cells in memory, `active_slot` and `active_generation`, and the registers of the
operation in progress (`job` and what a rollback would restore). Each operation is
a sequence of steps because the drive is written one sector at a time:

| action | code |
|---|---|
| `Boot` | `storage_load` with `files_initialize` when nothing loads |
| `SaveFile`, `RefuseFull` | `file_save` up to the first write; the ninth file |
| `RemoveFile` | `file_remove`: entries and cells move down |
| `Invalidate`, `WriteCell`, `Commit` | `storage_save`: the target header is blanked, the cells are written, the header is written |
| `InvalidateFails`, `WriteCellFails`, `CommitFails` | the same with a drive that reports an error, its sectors new, old or torn; then the rollback |
| `Crash` | power loss or `reboot`, anywhere |

### StorageProps, AtomicStore

`AtomicStore` is the promise: one set of files, operations that succeed or change
nothing, and a crash that resolves the operation in progress one way or the other.
`StorageProps` maps `Storage` onto it (`Atomic == INSTANCE AtomicStore WITH ...`)
and states the properties listed in section 3. A commit that reports failure and
has reached the floppy is the interesting case: the operation is denied, and the
next boot may show it, unless a later save hides it. The abstract store says so.

### StorageMedia, LegacyExport

`StorageMedia` lets sectors of either slot decay while the machine is off, and lets
a boot fail to read a slot that is sound. The history variables `decayed` and
`previous` serve the properties. `LegacyExport` is the Python exporter:
`parse_record`, `recover_files` and its comparison of generations.

### Workspace, WorkspaceProps

The console: bytes arrive one at a time, and `mode` says which loop reads them,
the prompt, the editor, a running program or its last screen. The file store is
not `Storage` again but its promise, `Store == INSTANCE AtomicStore`: the refinement
checked in `storage_refinement` is what allows it, and every saving command
takes the steps of that store (`Settle`, then `Success`, or `Failure`, which may be a commit that
reached the floppy all the same). A document is a sequence of units: characters, CR and
LF, of a buffer of `Capacity` bytes, so that the last free byte and the missing NUL are
real. `swallow` is the register BP: 1 from a CR until the next byte.

| action | code |
|---|---|
| `TypeLine`, `EraseLine`, `IgnoredAtPrompt`, `Run` | the prompt `shell`; `Run` is the dispatch, one disjunct per command |
| `TypeChar`, `NewLine`, `Bell`, `Backspace`, `ClearAll`, `IgnoredKey`, `SwallowLF` | the loop of `command_edit_name` |
| `Save`, `RunDocument`, `Exit` | Control-S, Control-R, Control-X |
| `ProgramByte`, `Dismiss`, `Escape` | `basic_run` and `basic_read_key`, as far as they take bytes from the console |
| `EditFile`, `RunFile`, `PrintFile`, `ListPackages`, `InstallPackage`, `RemovePackage`, `SetPrinter`, `PlainCommand`, `Halt` | the commands |
| `PowerLoss`, `Boot` | power, and `reboot` |

A command line is typed in one step (`TypeLine`) and then edited or entered: the order
of the single characters of a line touches nothing else. The catalog is fixed on the floppy;
a run starts from any of several, sound, empty, with a gap, with a name twice, with a
damaged payload, and `CatalogSound`, `Offers` and `Intact` are the three checks of the code, in its order.

### Notebook, WorkspaceNotebook

`Notebook` is the promise made to a user: an open page, kept files, an offer of
packages. A key edits the page only; a save makes the page the file or says that it
did not; installing puts the offered text, whole, under a name that was free; removing
removes that file and nothing else; a power cut loses the page and no kept file.
`WorkspaceNotebook` is the mapping: the page is the edit buffer while the editor is open,
and the paper is the abstract store.

### FileNames

Five routines decide what a filename is: `filename_normalize`, `storage_validate_files`
and `package_header_valid` in the kernel, `package_filename` in the image builder,
`parse_record` in the exporter. Each is an operator over a text of bytes; the state
machine feeds it byte by byte, and every prefix is taken as a typed name and, when
it has the size of the field, as a field.

### SystemBuild

One action per call of `build`, `create_toolchain` and `checked_iso`. A disk has a
stage (`part` while a program writes it, `base` when copied, `built` when the guest has
installed and checked it) and the edition of the sources it was made from; `wanted` is the
edition of which the fingerprint was taken when the build started, `stamp` the one the
stamp names. `Contents` says what the sources say after so many edits, so that an edit
may be edited back. Every call may raise (`BuildRaise`), the process may be killed between any two
(`BuildKill`); `make clean` and the user who moves an unfinished toolchain aside, as
the error message asks, come between builds. That the guest does what it was told is
`GuestSession`.

### RuntimePublish, UtmExport, RustDisks, CreateOnce

A path is a record: who put something there, and what. `LaunchCopy` reads the image,
`LaunchLink` is the exclusive `os.link`, and the loser of a race goes on with the winner's
disk. A guest writes to the runtime (`GuestWrite`) while it runs and
holds QEMU's lock. An export reads its source's first and last state in two steps
(`ConvertOpen`, `ConvertClose`): its draft is of one moment when both are
the same. `Publish` is `publish_exclusively`. `Rebuild` replaces the image by another
finished one at any time; others put things at both paths. `CreateOnce` is the promise
of all tools that make something new: nothing, then one whole artifact in one step, then
the same for ever, and whoever is told "ready" finds something there. `RustDisks`
instantiates it for the runtime and for the bundle, `LegacyImport` for the import.

### GuestSession, ImportScript, LegacyImport

A session is a list of lines: prompts, commands, `poweroff`. Line n brings answer n + 1.
The console is the sequence of what was printed behind the cursor of `expect`; it shows the
echo of each line too, which for a command holds the text of the marker. `Expect`
is `expect` with its caller (`run` looks at the status, `shutdown` waits for QEMU); `GiveUp` is the
deadline or the end of the console; `Raised` is the `finally` of `import_files`, which
powers the guest off after a failed command.

`ImportScript` is the shell script, one action per command, under `set -e` with its EXIT trap.
A signal runs the trap's cleanup and the script goes on behind it, as a shell does
when the trap does not exit. `disk` is what a power loss leaves: the rename may have reached
it or not, and files that were not synced may be cut short (`Survivors`). `LegacyImport` composes the
two: the guest works on the session's one command by taking the script's steps, and the power goes
when QEMU dies or is killed at the end of a session. The user may try again on the same disk.

### RecoverFiles, RuntimePrepare

`RecoverFiles` is `export_files` from the destination directory to its cleanup.
Creating a file and noting it are two steps, because `KeyboardInterrupt` may come between.
Others make files in the directory at any time.

`RuntimePrepare` has a template, the floppy image at the path, and a machine that
keeps the file it has opened: after `os.replace` the machine's drive is no longer the file at
the path (`shared`). `Overlap` says whether images are prepared while a machine runs.
A save takes two steps and may be stopped between them.

### ImageBuild

What the builder checks, in its order, and what the kernel does with the result, in its
order: the loading of the two modules, the scan of the catalog, the installation. A slot is blank or has a name and at
most one defect out of those either side looks for; a checksum is known by what it
was computed from. For a module that is the module with whatever its checksum field holds
(`ModuleField`), while the kernel blanks the field first: that is why the builder wants it blank. `PackageSlots` is a constant.

### CatalogFetch

`fetch_catalog` and `replace_atomically`, for any number of runs that share the lock file
and the cache. The server sends any release, or garbage; a download may be cut short; the lock is
edited at any time, also to something malformed; the cache is damaged, removed or made a link.

### MCHostTools

These programs share no state that one module would not cover. `MCHostTools` puts
them into one run: `tool` is chosen at the start and takes all the steps. (The file
names have no state but the text, and are one of the choices.)

### BasicInput, Keyboard

The part of the interpreter that meets the world: the serial line, where bytes
arrive at any moment, and the tick counter, which goes back to 0 at midnight. `at`
says where the interpreter is: at the start of a statement (`next`), polling before it
(`statement`), in it (`execute`), in `hlt` and awake again in WAIT, on the closing
screen, or discarding after Escape. A byte is its number in the order sent, so that
the queue holds numbers and order can be seen. The program is any program: which
statement comes next is a free choice among KEY, WAIT, END or an error, and the rest.

| action | code |
|---|---|
| `Start`, `Begin`, `End`, `Other` | `basic_entry`: its start, a new statement, the end or an error, any other statement |
| `PollByte`, `PollDone` | one turn of `basic_poll_input`, and the watchdog after it |
| `Key`, `ReadKey` | `basic_try_key`, `basic_read_key` |
| `Wait`, `WaitChecks` | `basic_wait`: its start, and the comparison after each `hlt` |
| `Discard`, `Drain` | the two loops of `serial_discard_input` |
| `Send`, `Tick`, `ShellReads` | the terminal, the timer, the shell between two programs |

A tick that passes between the comparison and the `hlt` does not wake it, so WAIT may
sleep one tick more. `Keyboard` is the promise: keys are given in order, one is lost only when
`Capacity` others wait before it, Escape is given to no program, and the one that dismisses the
closing screen takes the others that were queued with it.

### PrintTransport

The client is `src/print.asm`; the network and the printer are external.
Variables are the code's (`retry_count`, `local_sequence`, `remote_sequence`,
`remote_fin`, `response_collecting`, `response`), with `stage` and `sending` for
where the command is, `expired` for the ticks since `wait_start`, and the two sets
of frames. `Handle` is `tcp_handle_received`: it is part of every action that takes
a segment while sending or waiting, acknowledgement included. `SendReceive` is one
turn of the loop of `tcp_send_bytes`, `AnswerReceive` one turn of
`tcp_wait_response`. A wait that has not matched anything goes on or gives way to a
new attempt in the same step, as in the code, and an acknowledgement restarts the
clock, because `nic_send_frame` shares `wait_start` with its caller.

What is abstracted: a request segment counts 1 in the sequence space (it is always
resent with the same boundaries), a reply is a sequence of units of at least a
status line each, ARP replies are not frames, corrupted frames are lost frames. No
frame is ever taken out of the network: that is loss (nobody takes it), delay,
reordering and duplication in one. The printer's TCP delivers in order and sends
any stretch of its reply again at any time; its IPP server answers when it has seen
the terminating chunk, or refuses before; it may close, and it may reset.

## 3. The runs

| run | bounds | what it shows |
|---|---|---|
| `storage` | 3 files, 3 names, 2 contents, generations of 4 values, 1.0 M states | `IInv`, and its parts named below, hold through every sequence of saves, removals, failures and crashes |
| `storage_refinement` | 2 files, 3 names (so that the directory fills), 1 content, 73 k states | `ImplementsAtomicStore`; under weak fairness of the steps of a save, `SaveAnswered`: every operation is answered unless the power fails |
| `storage_media` | 2 files, both slots may decay, 727 k states | no damaged file is shown; later saves survive; one damaged snapshot gives the previous one; `ExporterAgrees` |
| `storage_read_fault` | the same with a read that fails | violation, see section 5 |
| `export_dot_names` | the same with a file named by dots | violation, see section 5 |
| `workspace` | buffer of 4 bytes, 1 file, 2 names, 1 character, 5 catalogs, 265 k states | `LinesWhole`, `EnterOnce`, `ImplementsNotebook` |
| `enter_swallowed` | the same | violation, see section 5 |
| `basic_input` | a queue of 2, 4 bytes sent, a watchdog of 3, a day of 4 ticks, waits of up to 2, 391 k states | `RingInv`, `WaitInTime`, `SuffixKeptOut`, `EscapeStops`, `Yields`, `ImplementsKeyboard` |
| `print_transport` | 3 segments, 2 attempts, a reply of 2 or 3 units in a buffer of 2, 2 different reply segments, 757 k states | the invariant `TransportInv` of the proofs, the properties of the transport named below, and `Terminates`: the command returns |
| `print_rejected_but_taken` | as `print_transport` | violation, see section 5 |
| `host_tools` | each program alone, sizes below, 481 k states | the fifteen properties of the host programs named below |
| `refresh_running` | `RuntimePrepare` alone, with `Overlap` | violation, see section 5 |

Properties of the store. `AckedIsDurable`: what was acknowledged, or shown by a
boot, is what the next boot shows. `HeadersVouch`: no valid header stands over a
payload that is not its own, in any state of any write. `MemoryIntact`: the
directory describes the cells, and so does the state a pending rollback restores.
`FallbackKept`: the slot loaded or committed last is never the one being written.
`SavesSurvive` and `DamageRecoversPrevious` are the same promises with decay, in `storage_media` for boots that
read whatever is intact (`TransientReads` is FALSE); `storage_read_fault` drops that.

Properties of the console. `LinesWhole`: every document, in the buffer, in memory and
on the floppy, has a legal length, each CR followed by its LF and no LF alone, which is what
Backspace relies on when it removes two bytes after looking at one. It is shown for the documents this system
writes: `Init` takes those already on the floppy to be whole, because the kernel, which checks their length and
CRC, does not look at their line ends.
`EnterOnce`: an Enter sent as CR LF adds one line, also when its CR left a program's screen.
`ImplementsNotebook` as above. `TypedNamesKept`: a name that can be typed survives the
checks of the next boot and, but for `.` and `..`, of the exporter. `CatalogNamesAgree`:
a package shown by `pkg list` can be installed by that name and is stored in the same
field, and what the image builder lets through, the kernel lists. There is one
exception, which the property names: the builder accepts a package called just `.BAS`,
the kernel wants a byte before the suffix and would refuse the whole catalog.

Properties of the interpreter. `RingInv`: the three registers of the ring agree, and
what is queued is in the order typed and no Escape. `WaitInTime`: WAIT ends with the first
look at the clock that finds its time gone, midnight or not. `SuffixKeptOut`: the bytes that a
terminal sends after the Escape that stopped a program, within one tick, never reach the shell.
`EscapeStops`: an Escape typed while a program runs leads to the shell, also with a full queue.
`Yields`: no program runs on for ever without waiting, not even one that polls KEY.

Properties of the transport. `QueuedMeansPrinted`: "Print job queued." is said only
of a job the printer accepted, every segment once and in order. `RequestInOrder`:
resending from one buffer leaves no gap. `ResponseFaithful`: the collected response is one
unbroken stretch of the reply, from its first unit when it answers a complete
request. `CollectedAnswerReported`: an accepted answer that is in the buffer is
what the command reports, whatever reset or timeout races it.

Properties of the host programs. `OnlyFinishedDisks`: no disk that a guest has not
finished is ever the cached toolchain or the image. `CurrentIsTrue`: the stamp never names
sources newer than the image's, so a build that skips the work is right to.
`RuntimeCreatedOnce`, `BundleCreatedOnce`, `ImportCreatedOnce`: the three refinements of
`CreateOnce`. `SessionTrue`: a session that ends without an exception ran every line, each
command with status 0, in order; no QEMU outlives a session and keeps the disk locked.
`ImportedMeansThere`: what is reported imported is on the disk, whole, and outlives a power
loss. `NothingLeftBehind`: the script removes its archive and its staging directory
however it ends. `ExportedMeansWhole`: "copied" means every file, whole; a failed
export leaves at most one file, the one created and not yet noted, and nothing in it.
`OthersKept`: what others made survives the export and its cleanup.
`ImageWorks`: of a built image the kernel loads both modules, lists the packages the
builder named and installs each; with the exception of `.BAS` again.
`CatalogPinned`: the cache is never a catalog that no lock pinned, nor a part of one, and
only a killed run leaves its temporary file. `SavesKept`: the last save that was reported is
the newest in the image at the path, in `host_tools` while no machine runs on an image that is being
prepared (`Overlap` is FALSE); `refresh_running` drops that.

**Bounds.** Generations take 4 values instead of 65536: the comparison only sees
differences, two live generations differ by 1 (proved: `NewerWins` for every
width), and 4 values make the wrap happen every few saves. Two slots are all there
are; three files are what it takes for a removal to have a file before and after
it. Three request segments are the first, a middle and the last, which are the
cases the code distinguishes; two attempts are one and a last one; a buffer of two
units is filled exactly by the shorter answers and overrun by the longer, and both
replies can be cut anywhere. A buffer of four bytes holds, before its NUL, a character and a
line end, or is one byte short of a second line end; one file makes the directory full after one
save, with a second name to be refused. Fields of six bytes fit `.BAS` with no byte
before it, one byte before it, and no NUL behind it. Four bytes from the terminal fill a queue of
two, lose a third and still send Escape, or are an Escape, its suffix and two keys; every tick of a
day of four is a possible start, so that waits cross midnight at both lengths.

In `host_tools`: two edits, the second of which undoes the first, so that the stamp, the image and
the sources can be of three editions and the first and the last the same; two finished
images and two launchers, a winner and a loser of every race; one export beside them, and one write
of a guest, which is what it takes to tear a copy; three prompts and one command, the
importer's own session; two saved files, one noted when the other is not; three package slots
for two names, so that a name occurs twice or a gap comes between; two fetches of
two releases; two editions of the template and three saves, so that both slots have been written again.

**Fairness.** `Storage`: weak fairness of the steps of an operation, because the
kernel runs them in a straight line and the drive answers or fails each request. A request is
`disk_transfer` with its three tries, as one step: that they end is part of the assumption, and what
`SaveAnswered` shows is that the loop over the payload ends and that every failure is answered.
`PrintTransport`: weak fairness of the client's own steps and of the clock, because
the module polls without stopping. Nothing is assumed of the network or the
printer, neither delivery nor silence, with one exception: `Terminates` is stated
for runs in which, from some time on, nothing restarts the clock of a wait. That is
needed: a peer that keeps sending data out of sequence keeps the command waiting,
since every acknowledgement restarts `wait_start`. `Terminates` therefore covers lost, late and repeated
frames, but not such a peer (`print.asm` 554): nothing in the code bounds that wait, so no property of ours does.

`BasicInput`: weak fairness of the interpreter, which runs without stopping, and of the timer;
strong fairness of `Discard`, because its loop reads the clock many times in a tick and so cannot keep
missing every change of it. The user need not type anything.
`Workspace` states no liveness and assumes no fairness: it waits for a user. Nor do the
host programs: every one of their waits has a deadline, after which they raise, and that is a
step of the models, but whether a program is given the time is up to the host.

`CHECK_DEADLOCK FALSE` is set for the print command, which stops by design when it has
returned, and for `host_tools` and `refresh_running`: a chosen program may have ended for good,
a text of full length has no further byte, the saves are used up. The symmetry sets of the store permute contents and the names
other than the default one, and no run with a liveness property uses them.

## 4. The proofs

`StorageProofs` proves, for any number of files, any contents and any even number
of generations:

- `TypeCorrect`: `Spec => []TypeOK`, first, because every later step needs the types.
- `Invariance`: `Spec => []IInv`. The four properties below are not inductive.
  `IInv` strengthens them with what the code relies on without saying so: the
  active slot holds the committed directory and the generation in memory, and when
  there is none slot B cannot compete (`ActiveHolds`); any valid header, in either
  slot, loads an intact directory (`Loadable`); from the first write of a save to the
  last the target has no valid header, and its cells up to the cursor are those of
  the new directory (`TargetOpen`); and after a boot or an acknowledgement a boot
  would choose the active slot (`ActivePreferred`).
- `HeadersVouchAlways`, `MemoryIntactAlways`, `AckedIsDurableAlways`,
  `FallbackKeptAlways` follow from `IInv`.
- `NewerWins`: of two consecutive generations the later one is preferred, in either
  slot and across the wrap. This is the arithmetic under `AckedIsDurable`.

The argument runs over the life of a save: until `Commit` the active slot is
untouched and the target is invalid, so a boot finds the old files; `Commit` makes
the target valid with the next generation, and by `NewerWins` a boot finds the new
ones; a failure returns memory to the registers (`SaveRestores`,
`RemoveRestores`, `UndoRestores`) before anything else can happen. The lemmas on
`ChooseSlot` (`ChooseSound`, `BootNone`, `BootNewest`) turn facts on the two slots into
facts on what a boot shows. The only assumption is `SlotsAssumption` of
`SnapshotSlots`: at least one file, at least four generations, and the special values of
names and contents distinct from the ordinary ones.

`StoreIsAtomic`: `Storage` implements `AtomicStore`, step by step (`NextAtomic`). Files are maps, so a
save adds a name to one and a removal takes one away: the lemmas on file maps say what the
lists of entries and cells are as maps, also when a removal moves the rest down (`SaveFiles`, `RemoveFiles`), and that they
have no more names than the directory. The three ways a write can end (`WriteOutcomes`) leave on
the floppy what a boot reads as the files before, the files after or the files it read already
(`FallsBack`, `CommitBoots`), which are the choices `AtomicStore` has while it saves.

On a floppy that goes bad most of `IInv` is false, and the proofs are of its remains.
`DirInv` is what a boot checks for itself, and the form of every directory that passes
its CRC (`Directories`); it survives any decay and any unreadable sector. From it
follows `ExporterAgreesAlways`: kernel and exporter choose the same snapshot. `MediaInv` adds
that the active slot is sound and holds what memory does (`ActiveSound`), that a boot
prefers it, and that the slot beside an acknowledged one holds the files saved before
(`PreviousHolds`). Two assumptions are needed. `ExporterAgreesAlways`
assumes `DotNames = {}` and `SavesSurviveAlways` and `DamageRecoversPreviousAlways` assume
`~TransientReads`; the runs `export_dot_names` and `storage_read_fault` violate the same properties without
them (section 5). TLC checked `DirInv` with transient reads (1,270,682 states) and `MediaInv` without
(727,304) before they were proved.

`TransportProofs` proves `QueuedMeansPrinted`, `RequestInOrder` and `InStep` (the client goes
on only when the printer has the segment), `ResponseFaithful` and `CollectedAnswerReported`, for every
length of the request, number of attempts, buffer size and number of frames in the
network (TLC bounds the latter by `MaxSegments`). None of the first three is inductive:
`TransportInv` adds that a frame with data carries the segment its number counts and
none is ahead of the client (`FramesCounted`), that no frame, however old,
acknowledges what the printer does not have (`AcksTrue`), and that an accepting
entity, in the printer, in a frame or in the response buffer, comes from a printer
that has accepted and therefore holds the whole request (`AnswersTrue`). An
acknowledgement that matches exactly then moves both ends together
(`AcknowledgedKeeps`); what `Handle` collects is a stretch of a frame
(`HandleKeeps`), so what `Parse` accepts was said by the printer (`ParseSays`).
`ResponseInv` carries `ResponseFaithful`: every frame under way is a stretch of the reply at its own
sequence number (`SegmentsFaithful`), the client expects nothing behind the reply and its end (`SequenceBounded`),
it begins to collect before the reply does (`CollectsInTime`), and where its stretch ends is where it
expects the next frame, or the buffer or the reply has ended (`ResponseStretch`). `AnswerInv` carries
`CollectedAnswerReported`: an accepting frame acknowledges the whole request, so an acceptance is never in the
buffer before the wait for the answer, and there ends it (`AnswerHeld`). TLC checked both on the
bounds of `print_transport` (757,260 states) first. The
assumption is `TransportAssumption`.

`WorkspaceProofs` proves `LinesWhole` for every buffer size, store size, set of characters and
catalog. `LinesWhole` alone is not inductive, because a save must also fit what a file may
hold and an install writes the buffer into the store: `DocumentInvariance` carries, for every
document anywhere, wholeness and the length limit together, through the registers of the
abstract store as well. The lemmas say that appending a character or a line end and
`Shortened` keep a text whole. The assumption is `WorkspaceAssumption`: a buffer of
at least two bytes, and catalogs whose payloads are CR LF text of legal length, which
`validate_package_catalog` in `tools/build_image.py` enforces before a catalog reaches an image.

`EnterOnceAlways` needs `EnterInv`: wherever the next byte is the shell's or the editor's, the
bit is set if the last byte was a CR. It says nothing of a program's screen, which is why
leaving that screen has to set the bit whatever the program has read. No screen outlasts a power cut.

`NotebookImplemented`: `Workspace` implements `Notebook`. `Page` folds a text into characters and line
ends; the lemmas on it say what a page becomes when a character, CR LF or a Backspace is
typed (`PageChar`, `PageLine`, `PageShorter`) and that a whole text is as large as its page
(`SizeWhole`), so that the kernel's limit on bytes is the notebook's limit on pages. `NotebookInv` is
what else the mapping needs: a name is open exactly in the editor and in a program
that Control-R started, and an operation of the store in progress is the one that the success message
will name (`Saving`): of the open document as it is now, of a package on offer under a name that
is free, or of a file that is there. "Saved." can then only mean this document. TLC checked `NotebookInv`
on the bounds of `workspace` (265,104 states) first. `NotebookAssumption`: the line end of a page is none
of the characters.

`BasicInputProofs` proves `InputTypeOK`, `RingInv`, `WaitInTime` and `SuffixKeptOut`, and that
`BasicInput` implements `Keyboard`, for every size of the queue,
length of the day and longest wait. `RingInv` is inductive with the types. Its proof
rests on `ModOnce`: an index is at most one turn too far, so the places of the queue can be
compared without division. The free place of a queue with room is none of those in
use (`RingEnqueued`), and taking a key renames the places of the others (`RingDequeued`). For
WAIT, `ClockInv` says that the clock stands at its start plus the ticks gone by,
less a day after midnight. `SuffixInv` counts for `SuffixKeptOut`: while nothing behind the Escape
has been read, every change of the clock that `serial_discard_input` has seen, or has still to see, is a
tick since the Escape, and after two of them the terminal is past the time of its key. For
`KeyboardImplemented`, the keys in the queue and those still on the line are one sequence:
polling moves a key from one to the other, a full queue loses the one that comes next, a
key taken is the first (`MovesOver`, `LosesBehind`, `TakesFirst`); `GivenRead` says that the last key
given has been read, so that nothing typed later changes it. The assumption is `InputAssumption`: a
wait is shorter than a day.

`BuildProofs` proves `OnlyFinishedDisks` and `CurrentIsTrue` for any number of edits and any
contents, `CatalogPinned` for any number of fetches and releases, `TypedNamesKept` and `CatalogNamesAgree`
for any size of a filename field, and `ImageWorks` for any number of package slots. `BuildInv` adds to the
first what each step of a build finds on disk (`DisksFinished`) and to the second the order of the
editions (`EditionsOrdered`): the stamp is not newer than the edition wanted while a build is on its way,
and that is not newer than the partial image, because the fingerprint is taken before the
sources are copied; the stamp is written last. `FetchInv`: the pin a run has read was pinned
(`PinWasPinned`), and what it moves over the cache is what it read (`DataIsPin`).
`NameInv` carries the filename rules: what `package_header_valid` has read of a field decides which forms
the field can still have (`ReadName`). The state "invalid" is the hard part: no field that goes on from
there is a name with NULs behind it, so the kernel refuses nothing that the builder's `partition`
would accept. `ImageInv` compares two loops over one catalog: as long as the builder has objected to
nothing, its packages come first, their names differ, and the kernel's scan has found the same
(`BothRead`); what is written is what was checked (`Packed`).
Assumptions: `BuildAssumption`, `FetchAssumption`, `NameSizeAssumption`, `ImageAssumption`.

`FoldFacts` states no result about the system; its lemmas are about the library's `FoldLeft`, which recurs over sets of
indices, and serve the two modules above that fold. `FoldAppend`: the fold of a
sequence with one more element is one more step. Induction over data is out of the prover's
reach in general, and this is a way around it for loops whose input grows by steps: the recursion
is shown to have one solution by least counterexamples (`SolutionsAgree`, `SolutionExists`), the
module is instantiated with the step of each loop, and the rest is an invariant.

`RustDisksProofs` proves the two refinements of `CreateOnce` for any number of images,
launchers, exporters and writes: initial states map to initial states, every step to a
step or a stutter. `LaunchInv` says that a copy a launcher may link is whole (`CopiesWhole`).
`ExportInv` says that a draft is of one moment (`OneMoment`), and why: no guest runs on a disk while it
is converted (`LocksHeld`), nor is the image rewritten in place. Assumptions: `LaunchAssumption`,
`ExportersAssumption`.

`LegacyFilesProofs` proves `SessionTrue` for every number of prompts and commands, and for the
import `SessionTrue`, `NothingLeftBehind`, `ImportedMeansThere` and the refinement of
`CreateOnce`. `SessionInv` is the lock step of host and guest: while no exception is on its
way, at most one line is sent and not answered, and it is the one before the answer looked
for, so that the markers, searched for by their kind only, cannot be an earlier one's. Of the script,
`TrapKnows` says that what exists has a name the trap removes, `SafeToLosePower` that what is on the
disk stays and a whole import not yet there is of synced files, and `ScriptKnows` what the
destination holds once the script has looked. `ImportInv` ties the
script to the line that carries it (`ScriptRuns`), its end to its status (`ScriptTold`)
and the report to the disk (`ReportTold`). Assumption: `SessionAssumption`.

It also proves `ExportedMeansWhole` and `OthersKept` for any number of files, and
`SavesKept` for any number of saves and editions, if no image is prepared while a machine runs
on it (the theorem assumes `~Overlap`; section 5 shows why). `RecoverInv`: the directory with
files of the export is its own (`FolderIsOurs`), what it has noted it made (`NotedIsOurs`), and what it
has passed is whole (`WrittenWhole`). `PrepareInv`: the newest slot at the path is the last reported save (`NewestIsSaved`), because what a preparation has
read is still what it replaces: no machine is on meanwhile (`OneAtATime`).
Assumptions: `RecoverAssumption`, `PrepareAssumption`.

Only model-checked is liveness: `SaveAnswered`, `Terminates`, `EscapeStops` and `Yields`, which need
fairness and `ENABLED`. Every other property of a passing run is stated by a theorem, for
every value of the constants that the assumptions above allow. The assumptions on the constants are
those of the modules, which TLC evaluates on every run; the three theorems with a hypothesis
(`DotNames = {}`, `~TransientReads`, `~Overlap`) have a run that shows what happens without it.

## 5. Where code and documents disagree

- `storage_read_fault`. A boot that cannot read a sound slot and loads no other
  starts at generation 0 with an empty store. The next save is acknowledged in slot
  A with generation 0, and a later boot that can read slot B again prefers it: the
  acknowledged file is gone.
- `export_dot_names`. The kernel accepts a file named `.` or `..`; the exporter
  rejects every snapshot that holds one, and exports an older one or none.
- `print_rejected_but_taken`. A TCP reset, or a timeout after part of the answer,
  is reported as "Printer rejected job." although the printer has taken the job;
  the interface comment in `print.asm` keeps that result for rejections and
  malformed responses, and 1 for TCP failures and timeouts.

- `enter_swallowed`. After Control-R the editor ignores an LF whichever key left the
  program's screen; the comment says that any other key clears that state. On a terminal that sends LF
  for Enter the next line end is lost.
- `refresh_running`. `prepare_runtime_image.py` replaces the floppy image under a machine that
  is running: the machine's later saves go to a file that no longer has a name, and what it saved
  after the preparation had read the image is not in the new one. `docs/legacy.md` 273-275 says that
  rebuilds preserve every saved file. The passing run and the theorem show that this needs
  a running machine.

Three more places are exempted by name in the properties that meet them. A signal in
the import script between `mv -nT` and the test that follows makes the cleanup remove the
staging directory of a move that was skipped, and the test then takes the move for done:
`ImportedMeansThere` excludes imports that were signalled, `ImportCreatedOnce` does not.
Sources edited during a build and edited back later leave an image of the middle edition
under a stamp of the first: `CurrentIsTrue` exempts images newer than their stamp. The builder
accepts the package `.BAS`, as said in section 3.

## 6. What is not modelled, and why

- The boot loader, the raster encoder and the font: straight-line data
  transformations or BIOS calls without state that outlives them.
- The drive's controller, the NE2000's registers and receive ring, and the BIOS are seen through
  what they return.
- CRC and digest collisions: checksums are ideal.
- Two print commands with the same port and initial sequence number (every 4096 ticks,
  `print.asm` 857): it takes a network that outlives a command.
- Pagination and the walk over the printer's answer (`print.asm` 222, 1433): functions of long byte strings.
- BASIC statements, expressions and the return stack (`basic.asm` 275 and on).
- The Rust shell (its package and printer writes, `main.rs` 473 and 595) and Tetris: not modelled yet.
- Two `make`s at once in one checkout, which share the names of the partial image and of
  the download: the Makefile starts one. A change of the toolchain's lock gives a cached file of
  another name, so one lock is modelled. `fingerprint()` reads its sources at one moment.
- The guest scripts `guest/install.sh` and `guest/selftest.sh` are one step that ends well or
  raises; `config.plist` is one file that is there or not. Formats of archives, plists and
  qcow2 files are left out.

## 7. Plan

In this order, the most consequential first; done are 1 to 4, 7 and the first half of 6.

1. `SnapshotSlots`, `Storage`, `StorageProps`, `AtomicStore`, proofs of the invariants.
2. `StorageMedia`, `LegacyExport`.
3. `PrintTransport`.
4. `Workspace`, `Notebook`, `FileNames`: the console over the abstract store.
5. `PrintContent`: response walk, pagination and chunking as pure functions, checked
   against reference definitions over all short inputs; the NE2000 ring as a module.
6. `BasicInput` (key queue, Escape, WAIT across midnight), done, and `BasicControl` (line
   search, GOSUB stack, expressions against a reference).
7. The host programs: `SystemBuild`, `RuntimePublish`, `UtmExport`, `LegacyImport`, `RecoverFiles`,
   `ImageBuild`, `CatalogFetch`, `RuntimePrepare`, and their proofs.
8. `RustShell`: package installation, compiler output directory, printer setting.
9. `Tetris`.

Proofs planned: those of the modules still to come, and, of `PrintContent`, that chunking and pagination
lose no byte for texts of every length (with `FoldFacts`).
