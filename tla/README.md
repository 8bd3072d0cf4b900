# thingOS in TLA+

thingOS is a BuildRoot distribution for small devices that must survive without a
technician: updates are installed over the air, the power may be cut at any time, and
"whenever something goes wrong, we prefer to reboot the system instead of trying to run
complex recovery procedures" (`README.md`).  The code that carries these promises is a few
thousand lines of shell under `src/board/common`.  What decides which system is built is in
C: Kconfig (`src/support/kconfig`) keeps the configuration, and the toolchain wrapper
(`src/toolchain/toolchain-wrapper.c`) stands in for the cross compiler in every package's
build.  The rest of the tree is BuildRoot's make files and packages.  This directory models
that code, checks it with TLC and proves its main invariants with TLAPS.

Paths below are relative to `src/board/common/overlay` unless they start with `src/`.

## 1. Inventory

| component | state | operations | hard behaviour | what makes it correct |
|---|---|---|---|---|
| **fwupdate** (`sbin/fwupdate`, `usr/libexec/fwupdate-auto`) | `/data/.fwupdate` (marker files, image, infos, old_boot), partition table, boot partition, `/sbin/reboot` | install, download, extract, flashboot, flashreboot, status, set_auto | power cuts, failing commands under `set -e`, the EXIT trap, concurrent processes, reboots in flight | a device always boots or can be flashed on; markers tell the truth; everything temporary is undone |
| **initramfs** (`src/board/common/overlay-initramfs/init`) | root partition, boot configuration | copy the image, clean up, reboot | power cuts while dd runs, dd failing | an update that began is completed; boot and root partitions match |
| **reboot, poweroff** (`sbin/`) | the shutdown in progress | request | may be a stub during an update | no reboot while the boot partition is replaced |
| **panic** (`sbin/panic`, `etc/init.d/bootdone`) | panic_counter (survives), panic_inhibit (does not) | action, inhibit, reset, details | unlocked read-modify-write, sleeping through state changes, timeouts | failures are answered by a reboot within the hour; the delays grow; inhibitions hold |
| **watchers** (S13watchdog, S35wifi, S36ppp, S37bluetooth, S40network, S41netwatch, S55openvpn) | retry counts | poll, report | what they do when panic returns | none stops watching |
| **post-upgrade** (S14postupgrade, S52postupgradenet, S79postupgradeapp, S02defaultdata) | `/data/etc/version`, two lists of scheduled scripts | run, schedule, record | boots cut half way, another update before the scripts have run | every script is run, once the ones before it are, and the record never lies |
| **first boot** (S00datapart, S01mountall, S02restorebackups, S39factoryreset) | partition table, data partition, markers | create, format, install defaults, restore backups, reset | power cuts between the steps | a data partition is complete or will be made again |
| **rcS, rcK, service** | what is running | start and stop scripts in order | a script that blocks | order of dependencies |
| **network bring-up** (S35wifi, S36ppp, S40network, S42connman, `sbin/dhclient-script`) | links, leases | start, stop | timeouts | a usable interface or a panic |
| **captive portal** (S44hostapd, S45dnsmasq) | access point or client mode | switch | panic inhibition, client timeouts | leaves the access point when configured |
| **toemmc**, **S72postgresql** | a copy of the system; the database directory | copy, migrate | power cuts | the source is kept until the copy is whole |
| **configuration** (`os_conf`, `base`) | os.conf, user files on /boot | read, prepare_conf, set_auto | unlocked edits, remounts of /boot | no setting is lost |
| **other services**, **build scripts**, **make files** | – | – | sequential wrappers, vendored code | – |
| **kconfig expressions** (`src/support/kconfig/expr.c`) | trees of conditions | join, rewrite, compare, evaluate, print | rewritten in place, once per menu level | what a condition means never changes |
| **kconfig menu tree** (`menu.c`, `symbol.c`) | nodes, properties per symbol | parse, finalize, check for recursion | lists rearranged while they are walked | every entry once, with the conditions around it |
| **kconfig symbols** (`symbol.c`) | values given and calculated, flags | calculate, set, toggle | caches that depend on each other, choices | the cache is current, a choice has one value |
| **kconfig files** (`confdata.c`, `conf.c`) | .config, .config.old, auto.conf, tristate.conf, autoconf.h, touched files | read, ask, write, synchronise | killed between two files; questions that raise questions | what is saved reads back; make never takes an old file for new |
| **menuconfig** (`mconf.c`, `lxdialog/`) | the stack of dialogs, cursor and scroll of each | keys, resize, ^C | cursor, scroll and drawing kept apart; a signal handler that writes files | keys act on what is shown; the end tells the truth |
| **other front ends** (`nconf.c`, `gconf.c`, `qconf.cc`), **parser** (`zconf.l`, `zconf.y`) | – | – | windows of other toolkits; a grammar | – |
| **toolchain wrapper** (`src/toolchain/toolchain-wrapper.c`) | the argument list | add arguments, check paths, execute | a fixed buffer counted by hand; two loops over argv | the list fits, what is decided from the command line agrees with it, and unsafe paths are told |

How they interact: `rcS` starts the `S*` scripts in order and then `bootdone`.  Watchers run
`panic action`, which runs `/sbin/reboot`; `fwupdate` and `S44hostapd` run `panic inhibit`.
`crond` (S51) runs `fwupdate-auto`; `fwupdate` stops services, replaces `/sbin/reboot` by a
link to `/bin/true` while it rewrites the boot partition, makes the boot configuration select
the initramfs and reboots; the initramfs writes the root partition, removes
`/data/.fwupdate`, deselects itself and reboots; the new system's S14postupgrade finds a
version it has not recorded and runs or schedules the upgrade scripts.  The shared state is
files: on the data partition, on the boot and root partitions, and in `/var/run`.

The hazards this exposes are listed in `PROJECT.json`, each at its line.

## 2. Plan

1. `FwUpdate`, update and initramfs, with its proofs `FwUpdateProofs`.  *Done.*
2. `AtomicUpdate`, the abstract promise of an update, refined by `FwUpdate`.
   *Done, checked and proved (`FwUpdateProofs`).*
3. `Panic`: panic, bootdone and the watchers' loops, with `PanicProofs`.  *Done.*
4. `PostUpgrade` with `PostUpgradeProofs`.  *Done.*
5. `FirstBoot`: from the creation of the data partition to the factory reset, with
   `FirstBootProofs`.  *Done.*
6. Kconfig from the bottom: `KNode` and `KExpr` (driven by `ExprRewrite`), `KMenu` (`MenuBuild`),
   `KSymbol` and `KConfData` (`Config`), `LxDialog` (`MConf`), each on top of the ones before.
   *Done;* proved are what the rewriting of expressions keeps (`KNodeProofs`), the layout and
   the scrolling of the dialogs (`LxDialogProofs`) and menuconfig over them (`MConfProofs`).
7. `ToolchainWrapper` with `ToolchainWrapperProofs`.  *Done.*

Left: network bring-up and the captive portal, toemmc and S72postgresql, os.conf's edits.

## 3. The models

### FwUpdate, AtomicUpdate (and MCFwUpdate, FwUpdateProofs)

State: the markers and files of `/data/.fwupdate` (`flags`, `archive`, `image`, `bootInfo`,
`rootInfo`, `oldBoot`), the card (`bootC`, `rootC`: a version or `Torn`; `part`: where the
partitions are; `fdBoot`: the factory defaults on /boot; `initrd`: whether the boot
configuration selects the initramfs; `rootAt`: the sector the root was written to; `reboot`,
`rebootBak`), the machine (`mode`, `bootMounted`, `rebooting`) and one program counter and job
record per fwupdate process.  `discarded` is history and disables no action: the image was
removed or overwritten while the initramfs was selected.

Each action is a command or a run of commands between which nothing observable can happen;
its name has the stage as a prefix (`Dl` do_download, `Ex` do_extract, `Fb` do_flash_boot, `Fr`
do_flash_reboot, `Cl` cleanup_on_exit, `Im` the initramfs).  A command that writes much is two
actions with a `Torn` content in between.  Where a command can fail there is a second action
for the failure, enabled by the constant `Faults`; `set -e` sends it to `Leave`, which runs the
trap if it is set.  fdisk and fw-prepare-boot may fail before or after they have changed
something, and the umount and losetup behind fw-prepare-boot (`FrReleaseFailed`, `fwupdate:614-615`)
when the initramfs is already selected: the machine stays up with an update pending.  `Start` takes any subcommand at any time, so that the stages are also run
out of order, repeated and by hand.  `RequestReboot`, `Poweroff` and `PowerCut` may happen at
every step; `PowerDown` forgets processes and mounts and keeps the card.

Abstractions: boot_info and root_info stand for the version they describe; a command's effect
is on the card when the command returns (no write-back cache); the trap is installed together
with the first marker; the removal of /data/.fwupdate by the initramfs goes file by file in any
order, except that flags only `status` reads go together; remove_initramfs is atomic;
`install latest` on the latest version does nothing; `RequestReboot` stands for every caller of
/sbin/reboot, so panic's inhibition during an update is not tracked here; OS_DEBUG is off; the
exec_initramfs hook, which no board has, and versions, current, status and set_auto are
left out.  Not among the failures are those of the trap's own commands (`fwupdate:118-143`) and of
writing the small files (markers, boot_info, root_info), which fail on a full or read-only data
partition; fw-prepare-boot is there.

`AtomicUpdate` has the versions of the boot and the root partition and the pending one.  The boot
partition is flashed, the update committed, installed and completed; flashing again withdraws a
pending update, and throwing its image away makes it void, after which nothing is promised.  The
mapping (`Update`) counts a torn root as the version being copied and an update as pending while
the initramfs is selected: everything else stutters, and so does every repetition after a cut.

### Panic (and MCPanic, PanicProofs)

State: the counter and the inhibition stamp (with `Empty` while a redirection has truncated
the file), the services that fail, and for every caller its position in `panic action`, the
counter it read and the rest of its sleep; bootdone's sleep and reset.  The observers
`overdue`, `floor` and `intact` do not influence any action.

Read, truncation, write, check, wake-up and reboot are separate actions, so that callers
interleave at the grain of the file accesses.  Time passes (`Tick`) only when everything
sleeps: a command takes no time compared to a sleep.  Ages replace uptimes.  `Services` are
classified by what the code does around the call: `Blocking` (S40network, in the foreground of
rcS), `OneShot` (S55openvpn, which leaves its loop), `Late` (started after S40network); the
others poll again.  The retries of a watcher are part of the environment's `Fails`.  After its
sleep an action does not look again whether the service recovered, as in the code.  The
conditions that start a watcher at all (LINK_WATCH, the captive portal) and the details files
are left out.

### PostUpgrade (and MCPostUpgrade, PostUpgradeProofs)

State: the system's version and the recorded one, the two lists (`files`: which exist,
`scheduled`: what they hold), the position of the boot, and observers of what was run.  One
action per command that changes the data partition; `cp` to /data/etc/version truncates first.
S52postupgradenet and S79postupgradeapp are the same code and the same actions, for `k = "net"`
and `k = "app"`.  `Cut` ends a boot at any step, `Upgrade` installs any other version, newer or
older, when the boot is over (or during S52 and S79 if `EarlyUpgrades`).

Abstractions: versions are numbers in the order of semver-sort; `version_gt` is that order, for
versions with the same number of components; the loop's order (ls) is arbitrary; a script that
fails counts as run, as in the code, and one that was cut is run again; /usr/share/post-upgrade
always exists (the common overlay ships it).

### FirstBoot (and FirstBootProofs)

The scripts in the order of rcS with one action per command that changes the partition table,
the data partition or /boot; the user's writes; the reset button, which S39factoryreset polls;
shutdown and power cuts.  Every file system has two states: what programs see (`data`, `backups`)
and what is on the card (`card`, `backupsCard`).  sync, unmounting, remounting and, at any
moment, the kernel bring the card up to date; a cut goes back to it.  The history `cuts.in`
remembers in which windows the power was cut, which is what `LostOnlyInWindows` allows.
A journal that commits in order is assumed.

### KNode, KExpr, ExprRewrite (and KNodeProofs)

The functions of `expr.c` that walk through an expression are in two parts: `KNode` has what
one of them makes of a node, with the recursive call as a parameter, and `KExpr` closes the
recursion (there `PROJECT.json` names the lines of both parts), so that there can be proofs
about the first part.  Nodes are immutable, so copies and frees disappear and a function
that changes a tree returns the new one; what the code marks in place (operands eliminated
from both sides) is returned as a pair.  `ExprRewrite` is the life of a condition in
menu_finalize: conditions are joined, negated and simplified in any order, next to the expression as written,
which nothing simplifies.  `Possible` says what values the symbols can have together; the runs'
values are such (`EnvAssumption`).  Its `Read` is an independent reader with the precedences of `zconf.y`.

### KMenu, MenuBuild

`KMenu` translates the tree: the calls of the parser (`AddEntry`, `AddDep`, `AddProp`, `AddMenu`,
`EndMenu`), `Finalize` in the three passes of menu_finalize (conditions go down, submenus are made,
choices and blocks are flattened) and `CheckDeps`.  `MenuBuild` parses any file of up to
`MaxEntries` entries out of `Entries` and `Blocks`.  Its properties read conditions off the raw tree.

### KNames, KTree, KSymbol, KConfData, Config

`KTree` has the finished menu tree, a constant: the programs never change it (`MCProps` makes it of
the parsed files with `Finalize` and `WithProps`).  `KNames` has what the tree and the expressions
share.  A record `w` is everything the program remembers of the symbols, flags and caches
included.  `KSymbol` has what calculates and changes it, `KConfData` what reads and
writes the files (a file is a sequence of lines).  `Config` runs programs one after the
other on the same disk: `todo` is the stack of calls of conf and check_conf, every file operation
is an action, `Crash` ends a program between any two, and `StartMenu`, `Toggle`, `Type` stand for
the menu programs.  int stands for hex.

### LxDialog, KCore, MConf, MConfLists

`MConf` calls the functions of symbol.c and confdata.c, and those that walk through the menu tree
to list entries, as parameters (`KCore` and its own constants), so that there can be proofs about
it: the definitions are recursive.  `Dialogs` and `ChangesLost` give it those of `KSymbol`,
`KConfData` and `MConfLists`; nothing else is ever checked.  What the proofs need of them is
`SymbolsAssumption`, which TLC evaluates.  A dialog is a record and a key an operator that gives the next record.  `MConf` has the stack
of functions that show dialogs (`calls`), what is on the screen (`box`), and one action per way
a dialog ends.  Texts are numbers of lines, strings have a width, and file names are
members of `Names`.  `Resize` may come at every dialog; `Interrupt` is ^C while one waits for a key.
A dialog with buttons has two fields for them: `button`, which Enter presses, and `drawn`, which is
highlighted (-1: the cursor is in the field).  A key sets both; a change of size draws the first
button, or the cursor in the field, and leaves `button` as it is.  `resized` remembers that this
happened to the dialog on the screen.

### ToolchainWrapper

The arguments in the order main adds them, one action per block of the code, for any set
of macros in `Builds`; then the loop over the command line, option by option of
`unsafe_opts`.  Options that the code treats alike have one name, and one word stands for the list
`BR_ADDITIONAL_CFLAGS`.  What `predef_args` holds goes in front of every command; `CommandAgrees`
is about what main decides behind it.

## 4. Runs

| run | expects | what it shows |
|---|---|---|
| `UpdateCuts` | pass | one process, all subcommands and faults of the stages, power cuts, reboot and poweroff requests at every step; and that the update is atomic |
| `UpdateLive` | pass | under fairness, an update that selected the initramfs completes |
| `UpdateFails` | pass | no power cuts, every fault, four versions of which two do not fit: stub and flags are as they should be whenever nothing runs; a flash boot that ends has put back the factory defaults that were kept |
| `Panics` | pass | two watchers and the blocking network script: failures answered, delays growing, inhibitions respected |
| `PostUpgrades` | pass | cuts at every step, upgrades and downgrades among four versions |
| `FirstBoot` | pass | two cuts and a reset: data are lost in three known windows only, a reset erases what the user had |
| `Exprs` | pass | conditions of up to three leaves keep their value; equality, submenu tests and printing are sound |
| `Menus` | pass | files of up to three entries: conditions, order, submenus and recursion |
| `Config` | pass | eleven sequences of programs with one edit and one crash: files, cache, choices and questions |
| `Dialogs` | pass | menuconfig, any keys, three sizes of the terminal, ^C |
| `Wrapper` | pass | command lines of up to three arguments on wrappers for ARM, MIPS (hard and soft float) and x86 |
| `ChangesLost` | violation | menuconfig ends without saying that changes are not in the file |

`ChangesLost` is a finding in `PROJECT.json`: conf_write shows its message before it
clears the change count (`confdata.c:836-838`), and ^C at that message writes `.config` again
without its symbols; and loading a file that is not there forgets the changes
(`confdata.c:413-418`).  `EndsSaved` is the same promise for every other way through the program.

Bounds.  *FwUpdate*: two versions suffice for every mixture of old and new; v2's layout needs a
longer boot partition and a root partition that starts later, so that a moved partition makes
its content unreadable; v3's boot partition overlaps the root partition and v4's root
partition the data.  `UpdateCuts` and `UpdateLive` take a card without factory defaults, which
their properties do not mention.  One process: the stages are not meant to run twice at a time and the
code has no lock.  The number of updates, cuts and requests is not bounded.  *Panic*: the
longest delay, the inhibition and bootdone's wait (all 3600 s) are three ticks, enough for each
to begin and end inside another; the counter reaches the longest delay at its bound
`MaxCounter`, after which it makes no difference; `MaxOverdue` bounds an observer above the value
the property forbids.  *PostUpgrade*: four versions with the factory's second, scripts of each
kind for one version and of two kinds for the next, and one script older than the device.
*FirstBoot*: two cuts, so that the second falls into the recovery from the first; one reset; a
button held for two seconds.  *Exprs*: a bool, a tristate and an int with comparisons of
each, so that the joining rules meet equal and unequal operands within three leaves.  *Menus*: with
three entries, submenus are made inside blocks, next to each other and among a choice's values.  *Config*: a select, an imply, a
range that depends on a symbol, a choice, a menu that becomes invisible.  *Dialogs*: menus longer and shorter than the screen,
two calls deep; of at most `MaxChanges` changes only the first `MaxEdits` may be other than to files;
the terminal becomes smaller and larger, and too small.  *Wrapper*: three arguments let an option,
its path and one more interact.

Fairness.  `UpdateLive`: weak fairness of each process' steps, of the shutdown and of
booting: Linux schedules every process, busybox init ends a shutdown, and somebody switches the
device on again.  Strong fairness of the initramfs' steps: the power may be cut any number of
times, but not each time the same step is about to finish, which is the least that any
recovery needs.  It has no failing commands and no foreign requests: a dd that fails
in the initramfs ends the update (`init:121`, `|| exit 1`).  `FirstBoot`: weak fairness of the
scripts' next step and of the reboot S39factoryreset asks for; cuts are bounded.  `Panics` has its
bound on time in an observer and needs none.  The other runs check no liveness: a user may
stop typing.

Where deadlock is not checked the system does stop: a program that ends (`Config`, `Dialogs`,
`ChangesLost`, `Wrapper`), a finished tree (`Menus`), an expression at its bound (`Exprs`).

### Known limits of the properties

Some properties hold only as far as the code goes, and say so in their definition or in
their run's constants:

- A power cut while /sbin/reboot is the stub (`fwupdate:544-545`) leaves it so for the
  boots that follow, and panic reboots nothing; `RebootRestored` is checked without cuts.  Likewise
  the factory defaults: a cut or a failure in `cp -r /boot old_boot` (`fwupdate:538`) and another
  attempt, whose cp nests, lose what `fwupdate:561` promises to preserve.  `DefaultsBroughtBack`
  speaks of a backup that is whole, and `FactoryDefaultsInPlace` is proved without such failures.
- No stage deselects the initramfs, and none refuses to start while it is selected.  If a command
  fails after fw-prepare-boot has selected it (`fwupdate:608-615`), the machine stays up; a
  `download` or `extract` then destroys the image the initramfs will need, and the next boot
  copies a torn image or deselects the initramfs over the old root.  `TornRootRecoverable`,
  `ArmedUpdateConsistent`, `DeadOnlyIfBootTornOrMoved`, `UpdateEndsWithMatchingRoot` and
  `UpdateIsAtomic` follow the machine there and except what happens once the image is `discarded`.
- Two fwupdate processes remove each other's flags (`fwupdate:138`).  A reboot already in flight
  shuts the system down while the boot partition is rewritten (`fwupdate:541`).
- Two panic actions that read and write the counter at once restart the back-off (`panic:40-43`).
  The openvpn watcher gives up after an inhibited panic (`S55openvpn:45-46`).
- Another version installed before S52 and S79 have run drops the scheduled scripts
  (`S14postupgrade:56-57`).
- A recursive dependency is reported but not counted as an error: sym_check_deps returns NULL at
  the symbol that closes the cycle (`symbol.c:1340`), so that `zconf.y:554-559` goes on.
- `FOO="y" && FOO!="2"` is joined to `FOO="y"` (`expr.c:531-545`), although for a tristate FOO of
  y the number 2 compares equal (`expr.c:1056-1081`); `JoinedAndKeepsValue` excludes numbers.
- `SubmenusHideTogether` and `SubmenuTestsAreSound` leave out negated tristates: expr_trans_compare
  writes !A as A=n, which is not m where A is m.
- `SavedReadsBack` and `CacheIsCurrent` name the lines and the choices they leave out (`Odd`, `Forgotten`).
- After the terminal was enlarged menubox.c may draw a menu from another row on, even past its end
  (first_item is not reset, `menubox.c:190-192`); texts that do not end with a line scroll wrongly.
- After any change of size the first button is highlighted whichever Enter presses (`menubox.c:278`,
  `checklist.c:202`, `yesno.c:76`, `inputbox.c:95`), and the cursor is in the field though a button may
  have the keys (`inputbox.c:115`): Enter on a highlighted Yes may answer No, against the help of
  menuconfig (`mconf.c:60-61`, highlight a button and press Enter).  `ScreenIsTrue` excepts both
  until the dialog is shown anew.
- The wrapper takes an option right behind one that wants a path for both (`-I -L /usr/lib`).
  The comment at `toolchain-wrapper.c:39-43` says that a predefined option is passed only if its
  inverse is not in the argument list, and names the byte order as an example; -EL, -EB and
  -msoft-float are in `predef_args`, which is copied whole (74-76, 95-100).  `CommandAgrees` exempts
  the predefined options.  The builds with `NEED_SOURCE_DATE_EPOCH` follow the C code:
  `toolchain-wrapper.mk:32` hands the macro to the target compiler, not to the wrapper's.

## 5. Proofs

`FwUpdateProofs` proves ten properties of the update for all versions, layouts, card
sizes and subsets of subcommands, requests and faults, with one hypothesis on each of two
constants: `OneAtATime` (at most one process; two share `/data/.fwupdate` without a lock) and, for seven of them,
`ReliableCopy` (the dd of the initramfs does not fail; if it does, the code boots a torn root).
`BootIsReadOnlyAtRest` needs at least one process.

The properties are not inductive: that a torn root can be flashed again depends on what was
checked two stages and a reboot earlier.  The inductive invariant `IInv` adds the facts that
travel along: a process runs only while the machine is up (`ProcessesFollowMode`); the markers
a stage relies on hold while it runs (`StagesBeforeFlash`, `FlashingBoot`, `FlashingReboot`);
once the initramfs is selected and as long as nobody discards the image, image, root_info, boot
partition and extents agree until the copy is done, in whatever order later stages of a machine
that stayed up touch them (`Armed`, `InInitramfs`, `TornOnlyInCopy`); whatever makes /boot writable will be
undone by a trap that is set (`RwWillBeUndone`, `TrapsSet`).  There is a lemma per stage that
each of its actions keeps `IInv`; the action properties follow from `IInv` and two lemmas that
say which action can start a reboot (`OnlyRebootReboots`) and which one deselects the
initramfs (`OnlyExitDisarms`).

That /sbin/reboot, the factory defaults and the status flags are as they should be between
updates is proved for updates that no power cut and no foreign reboot disturbs (`Undisturbed`), as
in the run `UpdateFails`; the known limits say what a cut does.  The copy in the
initramfs may fail here: the card is then lost for good (`Lost`, a set of states that is never
left) with all three in place.  The invariant says, for every step of a stage, which of
the two names /sbin/reboot has, which `*started` flag is set and whether a trap will undo it
(`RebootFollowsSteps`, `MarkersFollowSteps`); a reboot in between can only be the update's own
(`OwnRebootOnly`).  `FactoryDefaultsStayInPlace` moreover needs that the card was shipped with them
and that the copy to old_boot and back, the write and the mount of the boot partition do not fail
(`DefaultsCanBeKept`): each of these failures loses them or leaves them in old_boot
(`DefaultsFollowSteps` says where they are meanwhile).

`UpdateRefinesAtomic`, in the same module, says that `FwUpdate` implements `AtomicUpdate` under
these two hypotheses: a lemma per stage, one for the initramfs and one for the removal of an image
(`DiscardRefines`) say which abstract step each of its steps is, if it is one; `IInv` supplies that
the version copied is the one of the boot partition.

`PostUpgradeProofs` proves the properties of `PostUpgrades` for all versions and scripts
when `EarlyUpgrades` is false.  The record alone is not inductive, since the lists it counts on
are emptied by the next S14postupgrade; the strengthening says when a record may count on them:
one that is up to date (or empty, and up to date at the next boot) may (`CurrentIsCovered`), an
outdated one may not (`OutdatedNeedsNoList`), and the lists are gone when a boot is over
(`ListsAreRemoved`).  In between, the loop has dealt with what it has left behind (`LoopCovers`).

`ToolchainWrapperProofs` proves that the list of arguments fits for any macros that can be set
together (`BuildAssumption`) and any command line.  The invariant bounds the length before each
block by what the blocks so far can have added; the arithmetic works out only because the ABI of
the floating-point unit and the mode of its registers belong to different architectures.
It also proves the other two properties of `Wrapper` for any table of unsafe options and command
lines of any length.  `UnsafeReported`: the two loops have judged every argument before the one they
are at, and of that one the options before the current one (`Judged`).  `CommandAgrees`: at
every block what was added so far is a prefix made of predefined words and of words the command
line allows (`Fit`), and the mode of the registers is in it where the last of two options asks for it.
`ArgumentAssumption` says what an argument is.

`LxDialogProofs` proves the cases of `ScreenIsTrue` (`MenuTrue`, `TextTrue`, `InputTrue`, `ButtonTrue`) for menus, lists, texts and fields of any
length on terminals of any height: each is true when the dialog is laid out, and every key
keeps it.  For menus and lists that is the cursor on an entry and the rows within the list, for a
menu just drawn moreover the cursor on the entry asked for (`OnIt`) and the rows drawn from the first
one that the keys count from; for fields the cursor where the text says.  Each key that goes from button
to button highlights the one that Enter presses, the others leave both alone, and laying a dialog
out draws the first button or the cursor in the field, so that the two agree when it opens.  For texts the invariant is `TextSound`, which adds to `TextTrue`
that `page` stays within the text where no line has room (a terminal of eight rows) and that search results are
not shown from beyond their last page (`print_page` looks up the end first); without the second,
that a line back goes one line back does not follow.  `BackFromShown` is the fact the keys rest
on: `back_lines` counts from the last line shown, whether or not the end was seen, in which case
the end counts as a line.  From it, scrolling skips no line and `*_vscroll` is the line shown
first (`TextGoesByLines`).  As in the run, the theorems are about texts that end in a newline.

`MConfProofs` proves the three properties of `Dialogs`, `ScreenIsTrue`, `EndsSaved` and `CursorKept`,
for any menu tree, files, texts, sizes of the terminal and bounds.  None is inductive: what the box
shows was laid out from the innermost call, a menu is left under whatever it calls and comes back
when that returns, and the end vouches for a file that was written many dialogs earlier.  `IInv`
has a part for each:

- `CallsInv`: what the stack can be (`Stacked`).  Only texts are shown over a choice, the message that a
  file was written is always innermost, and every call is about entries of the tree of the right kind
  (a choice is called only while it is y, so that its list is not empty).
- `BoxInv`: the box is of the kind the innermost call shows (`Shows`), its entries are a listing of the
  tree, and it is true in the sense of `LxDialogProofs`, with `TextSound` for texts.  Until the terminal
  changes its size under it, it is `Fresh`: a menu is drawn from the row the keys count from, and the
  highlighted button is the one Enter presses.
- `SymbolsInv`: the symbols are among those they can be after so many changes (`InMemory`), at the
  message that a file was written with the change count as it still is.
- `FilesInv`: every file has contents that can be read back (`Written`), and if no change is counted the
  file named has what would be written, or the program has slipped (`Told`).  At the message the file
  has it whatever is counted.

A lemma per action says that it keeps `IInv`.  `CursorKept` follows from `ShowMenu` alone, and from the
facts that no other action opens a menu and that a listing has an entry once.

The hypotheses are the constants' assumptions.  `SymbolsAssumption` says of symbol.c, confdata.c and
menu.c, for the records that `Symbols(n)` allows after n changes: reading, setting, calculating and
writing stay within them; whatever is calculated or set, what would be written stays as it was or the
change is counted (`Kept`); what conf_write returns is what it would write again; a listing has an
entry once, with the tag of its kind, and that of a choice that is y is not empty (`Lists`).  TLC
evaluates it in `Dialogs` for the smallest family closed under these operations up to one change that
contains the symbols of its configuration as they are read (`SymbolsAfter`), with the recursive
definitions.  The proof does not bound the changes.  `RootAssumption` is about the numbers of the
entries.  The two slips of `EndsSaved` are the finding of `ChangesLost`; the proof shows that there is
no third.

`KNodeProofs` proves what `ExprRewrite` is about, for expressions of any size over any symbols:
transforming, eliminating y and n and joining keep the value, the boolean form keeps n, what is
transformed is a normal form, and the two tests of menu_finalize are sound.  `V` is a set of
expressions that `depth` shows to be finite (`Expressions`), and a function of the code is a
function on V that satisfies `KNode`'s equation at every node; induction is then the lemma `ByRank`: of the
expressions that lack a property, one has the least depth.  expr_transform calls itself for
expressions that it has built, so there the induction is over the height of the tree of calls, and
the theorems are about the expressions for which it returns (`Transforms`).  Of the walks through
the operands of a level, one step each is proved: joining two operands keeps the value of the level
(`JoiningKeepsLevel`), and taking equal operands out of two levels keeps their order
(`TakingOutKeepsOrder`), which is why expr_eq and the submenu test may conclude from what is
left.  Hypotheses: the symbols' values are `Possible`; constants in a comparison are no numbers
(`NoNumbers`, for && only); nothing that is negated is m (`Crisp`, for comparisons written out).

`PanicProofs` proves the three properties of `Panics` for any services, delays and bounds,
without hypotheses beyond the constants' assumptions.  That the delays grow (`DelaysGrow`) needs
that the counter left by whoever has counted is ahead of the one read (`CounterAhead`), which
holds as long as updates do not overlap (`OneUpdate`), and that the largest counter reaches the
longest delay (`DelayGrows`).  That a failure is answered (`FailuresAreAnswered`) needs a bound on
how long it can have lasted by what its watcher is at (`Timely`): before the sleep next to
nothing, in it the time slept; a watcher stopped by an inhibition finds it still in force
when time passes.

`FirstBootProofs` proves the three safety properties of `FirstBoot` for any backups, images and
hold times and any number of power cuts and resets.  The invariant relates what the programs see
to what the card has: a marker, on either side, vouches for a file system nobody has written to
(`MarkerMeansUnused`), the defaults are there or the marker will have them installed
(`DefaultsAreComing`), a file system in the table was formatted since the last reset
(`OwnersAreCurrent`), and archives leave /boot later than they leave the programs' view
(`BackupsAreKept`), each unless the power was cut in the window concerned.

Only model-checked: the liveness properties (out of the prover's reach); that expr_transform
returns, the order of the steps in the walks through operands, equality (expr_eq) and printing
(`ExprRewrite`'s four properties); what is said of Kconfig's menu trees (`MenuBuild`'s four) and of
symbols, files and conf (`Config`'s five: `SavedReadsBack`, `CacheIsCurrent`, `ChoiceHasOne`,
`AskedEverything`, `FilesInOrder`).  These say what recursive operators compute from a tree or
from one another: of recursive operators the prover knows nothing, and it has no induction over
data.  That the symbols fulfil `SymbolsAssumption` is of this kind, too.

## 6. Not modelled

- Network bring-up, the captive portal, toemmc, the database migration and os.conf: their
  states are mostly those of external programs.  The services' wrappers, the certificate and
  dynamic DNS helpers, the build scripts, the make files and the small host tools are sequential.
- Kconfig: the parser; nconf, gconf and qconf, other windows over the modules above;
  inferred types, environment and SYMBOL_AUTO symbols, hexadecimal numbers,
  allnoconfig_y, KCONFIG_OVERWRITECONFIG and the other variables, symbols removed from the files,
  the end of the input at a question, write errors other than a file that cannot be created, colours and
  layout of the dialogs.  That conf ends is not claimed: at the end of the input
  an int without a valid default is asked for ever (`conf.c:135`).
- The wrapper: failures of readlink and malloc, the debug output.
