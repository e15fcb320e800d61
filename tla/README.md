# Models and proofs for build-linux

The repository builds Linux images for several boards. The build itself is make
rules, configurations and patches for other projects; its logic is in the drivers
(`driver/`), the scripts that go into the root file system (`fs-overlay/`), a few
applications (`package/`), and the configuration tools with which an image is
configured (`build-embedded-system/host/kconfig`, by far the largest program). This
directory models that logic in TLA+, checks it with TLC and proves the main
invariants with TLAPS.

Run from this directory: `tlc -config MCDevLock.cfg MCDevLock` checks a model,
`tlapm DevLockProofs.tla` checks a proof. `PROJECT.json` lists the runs, the code
each definition models (`map`), a mutation of the code that each property
notices (`mutants`), the theorems, and the hazards the properties are for.

## 1. Inventory

| Component | State | Operations and interactions | What is hard | What makes it correct | Module |
|---|---|---|---|---|---|
| gpioled exclusive open, `driver/lock/lock.c` | the lock (atomic counter, flag under a spin lock, semaphore or mutex), the pin | `led_open`, `led_write`, `led_release` by many processes | refused opens take and give back the count while others open; sleepers, signals | one holder, count exact, LED moved by the holder only, sleepers served | `DevLock` |
| key interrupt, `driver/atk_irq/imx6_irq.c` | timer, two atomics `keyvalue` and `releasekey` | interrupt handler, timer function, `read`, module load and unload | handler, timer and readers interleave at each access | value follows the pin, no invented release, no timer after unload | `KeyIrq` |
| LED timer, `driver/timer/timer.c` | timer, period under a spin lock, pin | three ioctls, timer function that arms itself, unload | the period is read and used in two steps, on both sides | off means off, on means armed, last period wins | `LedTimer` |
| USB gadget scripts, `fs-overlay/sbin/ums.sh`, `acm.sh`, `usb_mode.sh`, `ums_hotplug.sh`, `S02ums`, `rcK` | configfs, the lun file, mounts, `/tmp/.usb_config`, the hotplug path | commands, and one process for each USB event | test and action are separate steps of processes nobody orders; steps fail | image not exported and mounted at once, image follows USB, `.usb_config` true | `UmsGadget` |
| camera viewer, `driver/v4l2/video2lcd` | V4L2 buffer queue, converted and zoomed pictures, screen | the loop of `main.c`, two kinds of `GetFrame` and `PutFrame` | the driver fills buffers while the program works on one | no buffer lost or queued twice, frames whole and in order | `V4l2Stream` |
| file browser and player, `package/lvgl/m_file.c`, `package/ffmpeg/video_save.c` | current path, thumbnail screen, viewer, player contexts with timers | callbacks of clicks, drags and timers in one loop | objects are deleted by one callback and used by another | no use of freed memory, something can always be clicked | `MediaBrowser` |
| upgrade, `fs-overlay/sbin/upgrade.sh` | package, unpacked files, root file system, kernel partition, page cache | a sequence of commands, most of them unchecked | failing commands, power failures, files of earlier runs | what was installed is whole and stays, nothing unchecked is installed | `Upgrade` |
| camera test, `driver/drm/testcamera` | framebuffer pages in display memory and heap, the page shown | clear, capture, pan or copy | pans fail, ring of pages, number of pages from the command line | newest picture shown, drawn behind the screen | `PageFlip` |
| configuration tools, `build-embedded-system/host/kconfig` (conf and menuconfig) | the menu tree with its conditions; cached values and flags of the symbols; the dialogs; `.config`, `auto.conf`, `autoconf.h` and a file per symbol | parse, `menu_finalize`, `conf_read`, `sym_calc_value`, `sym_set_tristate_value`, the walks of conf, the keys of menuconfig, `conf_write`, `conf_write_autoconf` | conditions are rewritten as the tree is; values are cached and depend on each other; files are replaced in several steps that a crash or a full disk cuts into | the tree means what was written; what is saved is legal, is read back and survives one fault; caches are fresh; dialogs act on what they show; conf ends | `Kconfig` and eleven more, section 3 |
| USB disk automount, `fs-overlay/sbin/udisk_action.sh` | mounts below `/mnt/usbdisk` | add and remove events of several partitions | events of different disks overlap; removal works on prefixes | a disk's removal leaves the others alone | planned |
| UDP heartbeat, `package/udp` | sequence number, datagrams in flight | heartbeat, command, acknowledgement | loss, duplication, delay | one round's answer is taken for another's | planned |
| MP4 writer, `package/ffmpeg/video_save.c` | encoder and muxer contexts | open, write, close | one of many calls fails | what was allocated is freed once | planned |
| key polling, `driver/key/key.c` | shared `keyvalue` | `read` spins on the pin | two readers share the value | a press is reported to its reader | planned |
| platform bus example, `driver/platform_led_demo` | registered device and driver | match and probe | order of registration | one probe for each pair | planned |
| character device examples, LCD drivers, V4L2 examples | registers | load-time programming | little | | not modelled |
| rootfs resize, `rcS`, `rcK` | a marker file | one command at boot | little: the command may be repeated | | boot order used by `UmsGadget` |
| image build, patches, device trees, configurations, coffee demo | | make's and Qt's | | | not modelled |

The components meet in few places: `S02ums` and `rcK` call `ums.sh` at boot and at
shutdown, the kernel calls the hotplug helper, the browser starts from the USB
directory that `ums.sh` mounts, and `m_file.c` calls the player of
`video_save.c`. The models compose what interacts through state: all the gadget
scripts are one module, and the browser and the player are one module.

The hazards are in `PROJECT.json`, each at its line.

## 2. Plan

Order: shared-memory drivers first (their interleavings are out of a test's
reach), then the scripts that several processes or power failures can cut into,
then the user interface and the picture pipelines, then the configuration tools,
then the small protocols.

| Step | Module | Composes / abstract specification | Theorems | Status |
|---|---|---|---|---|
| 1 | `DevLock` | implements `ExclusiveOpen` | exclusion, count, LED, refinement | done |
| 2 | `KeyIrq`, `LedTimer` | driver with its timer, readers and unload | safety invariants | done |
| 3 | `UmsGadget` | all gadget scripts and the kernel's events | all its safety invariants | done |
| 4 | `V4l2Stream` | implements `FrameViewer` | all its invariants, refinement | done |
| 5 | `MediaBrowser` | browser and player | safety invariants | done |
| 6 | `Upgrade` | script, operator, power | installation, kernel | done |
| 7 | `PageFlip` | framebuffer and main loop | all its invariants | done |
| 8 | `KconfigText`, `KconfigTristate`, `KconfigExpr`, `KconfigMenu` | from the parsed files to the finalized tree, against the meaning stated in `KconfigLaws` | the two rules that join terms | done; characters and tables of the parser left out |
| 9 | `KconfigSymbol`, `KconfigData`, `KconfigConf` | values, files, the line front end | | done |
| 10 | `Lxdialog`, `Dialog`, `KconfigMconf` | the dialogs, what their callers may ask of them, and the menu front end, which implements `Dialog` | the dialogs act on what they show | done |
| 11 | `Kconfig`, `KconfigLaws` | both tools, the disk, crashes; `KconfigLaws` states what they promise | the last saved configuration survives one fault; auto.conf is replaced last | done |
| 12 | `UDisk` | events of two disks and their partitions | a mounted disk keeps its mount | planned |
| 13 | `UdpHeartbeat` | client, server, lossy network; bag of datagrams | acknowledgements answer commands | planned |
| 14 | `Mp4Writer` | sequence of fallible calls | each context freed once | planned |
| 15 | `KeyPoll`, `PlatformBus`, multi-buffer test | small | | planned |

The project keeps few properties, each about something that takes several steps
to go wrong; a new one replaces a weaker one before the list grows.

## 3. What is modelled, and how it corresponds to the code

**DevLock** (`lock.c`). `variant` is the macro the driver was compiled with and
never changes; the semaphore and the mutex behave alike and are one variant. An
opener is an open file. `OpenDec` and `OpenInc` are `atomic_dec_and_test` and the
`atomic_inc` of the refused; `SpinLock`, `SpinTest`, `SpinClaim` are the critical
section; `Sleep`, `Wake`, `Interrupt` are the interruptible locks. `Release` does
all that `led_release` does under the variant. `ExclusiveOpen` is the abstract
device: the holder is whoever is "open".

**KeyIrq** (`imx6_irq.c`). An action is one access to shared memory. `key0_handler`
arms the timer; `Sample`, `StoreValue`, `StoreRelease` are `timer_function`;
`LoadValue`, `LoadRelease`, `ClearRelease` are `imx6uirq_read`. `Init` is
`keyio_init` up to `request_irq`, `InitTimer` its end, `DelTimerSync` and `FreeIrq`
are unloading. An edge between `request_irq` and `init_timer` ends in `life =
"oops"`. The 10 ms of the debounce are abstracted: an armed timer fires at any
moment.

**LedTimer** (`timer.c`). The ioctls read or write the period under the lock and
arm the timer in a second step; `Expire`, `LoadPeriod`, `Rearm` are the timer
function. There is no `release` operation, so `CloseFile` changes nothing but the
file. The source names the field once `timeperiod` and elsewhere `timerperiod`, and
types a variable `insigned`; these are read as what they were meant to be. The names of its
specification (`timer_init`, `TimerNext`, `TimerSpec`) differ from those of `KeyIrq`, so that one module of proofs
can be about both.

**UmsGadget**. `Op` is the operator's or init's process, which runs one command at
a time; `Helper` are the processes the kernel starts for USB events. `Mount`,
`Build`, `Bind`, `Register`, `Read` are `start`, `bind` and `update`; `Find`,
`Unlink`, `Remove`, `Unmount` are `stop`; `EnableTest` ... `DisableMount` are the
steps of `enable` and `disable`. Each command may fail, which ends the script part way: a
failing `stop` leaves what it did not take apart (`gadgets`, `functions`, `linked`) and ends
`usb_mode.sh` before `.usb_config` is cleared, which `broken` remembers until that file is
written again. External: configfs, UDC, mounts.
`hotplug_dispatch.sh` is registered by no script and only forwards.

**V4l2Stream** and **FrameViewer**. The program's steps from opening the device to
`PutFrame`; `Capture` is the external driver, which fills buffers in queue order.
Any call can fail, and then `main` returns (`Fail`). A picture is its number.
Without a supported format the code tests an uninitialised variable: the model
starts it as "none" or "garbage". The registration lists of the video, convert
and display managers and the pool of `disp_manager.c`, which no program calls,
are left out, as are the pixels.

**MediaBrowser** (`m_file.c`, `video_save.c`). A callback is one action. An object
LVGL deleted while a pointer to it remains is "gone"; using one sets `undefined`,
after which the model stops. The screen of thumbnails has the size of the
display, so the list is not clicked through it. `OpenFails` and `OpenWorks` are
the exits of `lv_example_open_video`; `Tick` is `video_timer_cb`, `Press`, `Drag`,
`Release` are `slider_event_cb`. `video_click_cb`, registered at m_file.c:401 and
defined nowhere, is read as `video_close_cb`.

**Upgrade** (`upgrade.sh`). One action is one command; an unchecked command that fails
leaves part of its work (`Partly`) and the script goes on. `PowerFails` loses what
was not synced. A checksum identifies the image it was made of. External: the
operator who copies packages, the page cache, the power.

**PageFlip** (`main.cxx`, `Framebuffer.cxx`, `video.cxx`). `Init` is what
`CFramebuffer::Open` and `ExtendVirtualMem` leave, with any number of pages in the display's
memory and `have` pages in all: there may be no memory for the further ones, which nobody is told.
`AlreadyShown`, `Pan`, `Copy` and `Copied` are `InvalidateScreen`; drawing and copying
take two steps, in between the page is `Torn`. `UndefinedOnlyOutsideLimits` is
about the places where C++ gives no meaning to what `main` does: a fifth entry of
`pScreen`, or a NULL page, to which `main` adds the offset of the picture on the screen. The
screen is taken as larger than the 320x240 of a picture, so that this offset is not zero.

### The configuration tools

Twelve modules, from the bottom up; up to `KconfigMconf` each extends the one before it but where noted.

**KconfigText** declares the texts that values and file names are, with what the
conversions of the C library make of each.

**KconfigTristate** (`expr.h`, `expr.c`): the three values, the constructors of
expressions, and the two rules by which `expr_join_or` and `expr_join_and` replace two
terms about one symbol by one. `OrRule` and `AndRule` say what a pair that `Joinable`
admits becomes.

**KconfigExpr** (`expr.c`): how conditions are rewritten, `expr_eliminate_eq`,
`expr_eliminate_dups`, `expr_trans_bool`, `expr_trans_compare`, `expr_transform`. The C
functions walk two trees pairwise through pointers to pointers; here they work on the
sequence of the operands of a chain, which is put back into the tree's shape.

**KconfigMenu** (`zconf.tab.c`, `zconf.lex.c`, `menu.c`, `symbol.c`): a Kconfig file is
the sequence of the reductions the parser makes, and `source` suspends one file for
another. `Parse` builds nodes and properties as the semantic actions and `menu_add_*` do;
`Finalize` is `menu_finalize` with its passing down of conditions, its adoption of
what depends on an entry and its reverse dependencies; `CheckDeps` is `sym_check_deps`
with its marks.

**KconfigSymbol** (`symbol.c`): values on demand. Each function is an operator on `st`,
the memory of the program (values, visibilities, flags `SYMBOL_VALID`, `SYMBOL_WRITE`,
`SYMBOL_DEF_USER`, `SYMBOL_NEED_SET_CHOICE_VALUES`, and the change counter), and gives the
memory after the call with the result in `st.ret`: a call that only asks for a value
may calculate others. Numbers keep the texts they are read from, so that a
hexadecimal number is compared and written as the code does it.

**KconfigData** (`confdata.c`): what `conf_read` makes of a file, what `conf_write`,
`conf_write_defconfig` and `conf_write_autoconf` put into theirs, and which symbols
`conf_split_config` touches. `TakesAuto` says whether it takes the value of a line of
`auto.conf`, which depends on the type the symbol has now. A file is the sequence of its lines.

**KconfigConf** (`conf.c`): all modes of conf. A question suspends the walk over the
tree; `todo` holds the calls that are still to be made, which the C program has on its
stack. `Main` goes up to the first question and `Answered` up to the next.

**Lxdialog** (`lxdialog/*.c`, extends no kconfig module): each dialog is a box that waits
for a key, with the local variables of its C function; `rows` is what is drawn on each
line. The loops of the code are `Repeat` with the `Round` they make: the lines of a page up or
down, those `get_line`, `back_lines` and `print_page` go through. **Dialog** says
what the boxes of these dialogs may do one after another: `Called` is what their callers give to them,
`Follows` that one is opened, takes a key or is closed, and `Shown` what a box has to show.
**KconfigMconf** (`mconf.c`): the functions that loop over a dialog are frames of
a stack; `Mconf`, `Press`, `Interrupt` and `AfterWrite` go up to the next box. `quiet` is `save_and_exit`, which the exit dialog sets for
good: after Esc in it, later savings show no message. A help text fills the
terminal, a message has six lines.

**Kconfig** is the state machine: the source tree, the disk, the tool that runs, and
what the bounds leave. Steps of a program that a crash may separate are actions of
their own: `WriteTmp`, `KeepOld`, `Install` for `conf_write`; `Split`, `Touch`, `WriteNew`,
`InstallHeader`, `InstallTristate`, `InstallAuto` for `conf_write_autoconf`. What the program
does between two questions, keys or writes is one action, since nothing else sees
its memory. A full disk leaves nothing or all but the last line, as no
result of `fprintf` or `fclose` is looked at. `CannotOpen` and `CannotRename` are the calls
`conf_write` does look at: it returns 1, conf ends and menuconfig goes on. The rename in `KeepOld` is not looked
at and may fail, too. Where a call fails that ends conf (`conf_write_autoconf`, `conf_split_config`), what
is left is what `Crash` leaves. All of these and a crash count as faults. `Sigint` is handled where the program waits,
`Crash` anywhere, and `Update` replaces the source between two runs. `prog.signal` tells that
`sig_handler` runs, which exits when the last dialog is over.

The functions a program calls between two steps are CONSTANTS of `Kconfig` under the
names of the C functions (`conf_main`, `mconf_key`, `conf_write`, `sym_calc_value`, ...), and
`MCKconfig.cfg` gives each the operator of the module above that models it. The state
machine can be read without the walks, TLC does not gather statistics on each of
the many paths of calls that lead into them, and what is proved of the state machine holds whatever the walks
return, since `Kconfig` extends no module with a recursive walk. `KconfigLaws` puts the two together. The arms of
a CASE in these modules are read in order, as TLC does; those of `Kconfig` and of the two rules, which theorems
speak of, do not overlap.

**KconfigLaws** states what Kconfig files mean, over the tree as it was parsed and
without `menu_finalize`, caches or walks: the condition of a property is the least of
the conditions around it. The properties are in those terms.

## 4. Runs

| Run | Question | Bounds and why they are enough | Answer |
|---|---|---|---|
| `devlock` | does each lock give the device to one opener, exactly counted, and serve sleepers | five openers: a holder, one being refused, a sleeper and two arriving | holds |
| `keyirq` | do handler, timer, readers and unloading agree | two readers, two presses: a newer press can overtake a reader | holds |
| `keyirq_invalid` | is INVAKEY never delivered | one reader, one press | violated |
| `ledtimer` | does the last command decide | two processes, two periods, six commands: opens, a command overtaken between period and timer, and a stop | holds |
| `ums` | is the image in one place, and the right one, and `.usb_config` true | two helpers, three commands, four events; helpers are symmetric | holds |
| `v4l2` | are buffers and frames kept in order | three buffers, seven frames: each buffer is used again; the driver may grant fewer | holds |
| `media` | is memory safe in any order of callbacks | two videos of three frames, two late back timers, depth four | holds |
| `media_close` | does closing a video stop its timer | as above | violated |
| `upgrade` | does an installation last | two packages, two files of which the later ships one, two runs with any failures between | holds |
| `upgrade_unverified` | is every installed file from a verified archive | as above | violated |
| `kconfig` | does the finalized tree mean what was written, is what is saved legal, read back and safe against one fault, is auto.conf replaced last and after which touched files, is `Dialog` what mconf does with its dialogs, do they act on what they show, does conf end | see below | holds |
| `pageflip` | is the newest picture shown, drawn behind the screen, and always into a page | arguments 0 to 5 and 11, one to five pages on the display, any number in the heap, twelve pictures: the ring wraps twice and more | holds |

The run `kconfig` starts from fifteen trees, each about one kind of entry: modules with
`select`, a choice with a dependent value, a tristate choice, numbers whose range is another
number, the environment with a comparison, values without a prompt that an update drops or gives
another type (twice: before and after it), a presetting, menus in two files (twice: for
menuconfig as it is and for its search), a text field, saving under another name, a list longer
than the window, and a file that includes itself. Two families of trees go with them: `algebra` puts each pair of 17 terms (a symbol, its
negation and its comparisons, for a tristate, a boolean and the constant m) under and, or,
not and an if; `link` gives three symbols every combination of a dependency,
a default or a select on one another. Two runs of a tool per behaviour are enough for a
file that one tool has written to be read by the other, with a crash, a full disk or an
update of the source between; three menus deep reaches a choice or a field inside a
menu. Files that were edited by hand are there at the beginning for two trees. The
terminal has 17 lines, and 10 or 20 after a change of its size, so that the lists scroll; the tests
for 19 lines at the start and 21 for the list of a choice are taken as passed, since the heights are scaled down. `MaxLen`,
2048 in `dialog.h`, is 3: a field can be filled. Values are not longer than a field, which the
instance gives and `CalledInput` asks for.

`SplitTellsAll` holds in each state the run reaches and is what the proof of `AutoConfLast` needs
to know of the walks: what `conf_split_config` finds by comparing values covers what
`conf_write_autoconf` changes in the lines, but for the symbols of `Missed`: those that lose their line, and
whose old line says nothing to the present source. The trees `words` and `words2` contain each kind of them. `ShowsDialogs` says that menuconfig's boxes behave as
`Dialog` allows (`Follows`): the items, the place in them and the scroll that `conf` hands over when it opens
a menu again are ones that `CalledMenu` admits, so that `DialogsShow` is about it.

Deadlock is checked where the system never stops (`devlock`). Elsewhere it may
stop: the bounds end the inputs, the module is unloaded, the program returns,
or undefined behaviour ends the model.

Safety invariants and step properties of these runs, in one line each, are
stated in a comment above their definition. Some are conditional: they
name the only way left to break the promise. `NeverTwiceInUse` holds unless two
processes overlapped; `ImageFollowsUsb` excuses in addition failed steps and commands
given by hand; `ConfigIsBound` excuses the gadgets a `stop` of which failed, and
`UndefinedOnlyOutsideLimits` the first page there was no memory for; `SafeUnlessClosed` excuses a video closed before its end;
`OrphanNeedsLateEdge` a late edge; `DrawsBehindScreen` a failed pan;
`InstalledLasts` speaks of runs without a failed command. `CirclesReported` speaks of trees without
choices, where what is reported does not depend on the order of the hash table;
`CacheIsFresh` leaves out tristate choices, `UnflaggedIsSaved` a load of a file that is not there and
a file cut short or not renamed, `SplitTellsAll` and `AutoConfLast` the symbols of `Missed`,
and `LastSavedSurvives` holds for one fault: after a second
one before the next whole save, the last good configuration can be gone. The
model allows one fault in a behaviour.

### Disagreements the runs show

* `keyirq_invalid`: `read` loads `keyvalue` before `releasekey`. A reader that
  loads the initial INVAKEY and is overtaken by the first release passes both
  tests and returns 0x7F for it (imx6_irq.c:152).
* `media_close`: closing the container of a playing video deletes its canvas and
  slider and leaves its timer running on them (m_file.c:401); the comment at
  m_file.c:338 says that it stops the timer.
* `upgrade_unverified`: the overlay is unpacked before its sum is compared, into a
  directory that is never emptied; the files of a refused package are installed with
  the next good one (upgrade.sh:42, against upgrade.sh:55 and :61).

### What modelling the configuration tools brought to light

No sentence of the repository promises the opposite of these, so they are not runs
that expect a violation; the properties exclude them by name.

* A SIGINT while menuconfig shows the message of `conf_write` finds the change flag
  still set and the symbols already marked written (confdata.c:834 and :836). The
  handler asks whether to save, and yes writes an empty `.config`; the good one is
  `.config.old`. The model has it, and counts it as a fault (`hist.torn`).
* When the second rename of `conf_write` fails (confdata.c:830), `.config` has already become
  `.config.old`, and in menuconfig the symbols have lost `SYMBOL_WRITE`: the next saving
  writes an empty `.config`. The model counts it like the SIGINT above.
* `conf_split_config` does not touch the file of a symbol that the source dropped when its line in
  `auto.conf` is in quotes: such a symbol has no type, no value is valid for it
  (symbol.c:619), and it is passed over as having "neither an old nor a new value"
  (confdata.c:901). The same holds for a symbol whose old line is no value of the type it
  has now, or that the environment sets now, if it is written no more. What was built
  with the old value is not built again. `Missed` in `Kconfig` names these symbols.
* A condition with `m` that is parsed before `option modules` gets a term whose symbol is NULL
  (menu.c:99), which no function that calculates it survives. The instance gives no such tree.
* `sym_calc_value` clears `SYMBOL_WRITE` of all symbols but values of choices
  (symbol.c:374): one that is hidden keeps its line "is not set", which the next
  reading drops and counts as a change (`Current` in `KconfigLaws`).
* Loading a file that is not there clears the change flag of menuconfig
  (`hist.missed`), and a file that a full disk cut short counts as saved.
* `sym_calc_choice` forgets that the user set a tristate choice while its values are new.
* `sym_check_deps` reports circles through choices depending on the hash order.
* Conf asks for an int without value again and again when its input has ended, and a
  text box that does not fit the screen keeps `conf_string` of mconf looping: both are
  outside the instance, where each prompt for a number has a default and the terminal
  is large enough.
* After the terminal changed its size, `dialog_menu` keeps its first item and cursor
  from before, so that its lines may show other items than it acts on. `ShownIsActedOn` leaves
  out menus that saw such a change (`resized`); lists, fields and texts it does not.
* A value out of range in a file edited by hand is reset without recalculating what depends on
  it; such files are not among those of the instance.

## 5. Fairness

* `DevLock`: a `led_open` that has begun finishes (weak). Holders close and woken
  sleepers are served (strong): the kernel's wait lists are first in, first out, and
  no new opener overtakes the first sleeper for ever.
* `KeyIrq`: interrupt and timer are served, readers poll, and a held key is let go.
* `LedTimer`: armed timers expire, and a command that was begun is finished; no
  fairness on giving commands, whose number is bounded.
* `V4l2Stream`: the program takes its steps while it can, the camera goes on while
  it has a buffer. No fairness on failing.
* `Kconfig`: a tool that is writing goes on (`GoesOn`), and the user who is asked gives an
  acceptable answer in the end (`UserAnswers`; a refused answer leaves the state as it
  is). Both are weak fairness with enabledness written out, as TLC would have to
  evaluate the walks to find out. Nobody is obliged to start a tool, to press a key or to spare it a crash.
* `MediaBrowser`: the LVGL loop runs timers that are due. No fairness on the user.

`UmsGadget`, `Upgrade` and `PageFlip` state safety only: a helper may hang and the
power may fail at any time.

## 6. Proofs

Every theorem is for all values of the constants under the named assumptions of
the modules, which say only that the sets are finite or disjoint where the code
has it so and that bounds are natural numbers.

* **DevLockProofs**: `IInv` adds which places an opener can be in under each variant,
  and that whoever is between the test of `dev_stats` and its increment is inside
  the spin lock and `dev_stats` is 0 there. Without it mutual exclusion is not inductive: the claim
  does not test again. The count is the cardinality of the openers that hold or
  are to give back, by `FiniteSetTheorems`. `Exclusion`, `Accounts`,
  `LedFollowsHolder`, and `Refines`: the driver implements
  `ExclusiveOpen`, since one step changes the set of holders by one at most.
* **TimerDriverProofs**, the key: `Credit` says that a reader on its way to report has a
  release it was not told of; `Fresh` relates what the timer sampled to the pin when no later edge is
  latched. `NoPhantom`, `RestShowsPin`, `OrphanByLateEdge`. The LED: a command in progress keeps its
  file open, and open files keep the module up. `StoppedIsOff`, `StartedIsArmed`.
* **UmsGadgetProofs**: `Alone` and `Knows` say what a process that works alone
  knows after each test, `Stages` and `Truth` which command is behind each stage. `TwiceByOverlap`,
  `Exported`, `ConfigTruth`, for any number of helpers and events, failing commands included;
  `Exported` needs that no function outlives its gadget (`Exports`). `Followed` proves `ImageFollowsUsb`
  from two more invariants. `Heard`: the helper is registered before the state of USB is read,
  so that a change after the reading has a helper. `Follows`: as long as nobody overlapped and
  no command of the operator interfered (`Smooth`), the process that works is on the way to what
  USB wants (`Towards`), and when nobody works the image is there.
* **V4l2StreamProofs**: `Places` says that each buffer is in one place,
  the driver's queue, the filled ones or the viewer's hand; `Filled` that the filled buffers hold
  ever later frames, all later than the frame on the screen; `InHand` that the frame in
  hand lies between them. `BuffersOnce`, `WholeFrames`, `Fed`, and `Implements`: a step of the viewer
  is a step of `FrameViewer` or none, since `Filled` makes the frame it shows a later one. Queues are
  sequences, and the lemmas on `Append`, `Tail` and concatenation at the head say what these do to
  the set of the elements and that they repeat none.
* **MediaBrowserProofs**: a timer has a live context, at most one player is on the
  screen, and the held slider is its own and is seeking, so that the video
  cannot end under the finger. `Safe`, `Ownership`, `ThumbsReturn`.
* **UpgradeProofs**: what a run without failure has achieved after each command
  (`Unpacked`, `Copied`, `Written`), and that it syncs before it goes on (`Order`).
  `Installs`, `KernelListed`.
* **PageFlipProofs**: `Follows` computes the page on the screen from the one drawn next;
  `Latest` says which pages hold the newest picture. `ShowsLast`, `Behind`, `Limits`, for any number of pages there was memory for.
* **KconfigProofs**: `JoinOrSound` and `JoinAndSound`, whenever `expr_join_or` or
  `expr_join_and` replaces two terms by one, the one has the value of both together, for every
  symbol, type and value a symbol of that type may have. `algebra` checks the whole rewriting
  on bounded expressions; these are its rules for all symbols. `SavedSurvives` proves `LastSavedSurvives`
  for any trees, disks and answers and whatever the walks return, until a second fault. `FirstFault` says where
  the last configuration is before the first fault (in `.config`, and in `.config.old` while `.config` is
  away), `OneFault` that afterwards a spoiled file only ever replaces a `.config` that was
  just kept as `.config.old` (`Away`: while it is away, the last one is there), and `Spoilt` that after a SIGINT in the
  message of `conf_write`, or a failed rename, only menuconfig goes on, and the last configuration is in
  `.config`, or in `.config.old` with no `.config`, when its next saving begins. Its hypothesis `Apart` is about the user: no configuration is saved under the name `.config.old`,
  no minimal one as `.config`. With two faults the property is false, as TLC shows with
  `MaxFaults = 2` and `MaxRuns = 3`: two savings in a row cut short by a full disk.
  `AutoConfIsLast` proves `AutoConfLast` for any number of crashes: `Telling` says that while files are
  touched, those done and those to come make up for all lines that will be others, `Placing` that
  afterwards each of the three files is in place before the next, and that what was touched stays touched. Its
  hypotheses are `SplitTellsAll`, which the run checks of the walks, and `NotAuto`, that the user saves
  no configuration as auto.conf.
* **KconfigProofs**, the dialogs: `DialogsShow` proves `ShownIsActedOn` for any items, texts, keys and heights
  of the terminal, of every behaviour in which each box is one that `Dialog` lets follow the last, `ShowsDialogs`, which
  the run checks of `mconf.c`. The
  invariant `GoodBox` has a part for each kind of box. A menu or list is `Drawn`: each line
  shows the item at `scroll` and its place, and the window lies within the items. A field
  is in the invariant as it stands. For a text, `Printed` is kept by each line of `print_page`: it ends where it read up to,
  or has passed the end; and `FromStart` by `back_lines`, which sets `begin_reached` at the first line only. `RepeatKeeps` and `RepeatReaches`
  carry such a set of boxes from the rounds to the loop. They rest on induction over the rounds, which is
  available here in the form of a least counterexample (`Least`, `Induct`: natural numbers are well-founded), for a set that is
  written down. That is enough for loops that count, not for walks over data.

In each of these modules but KconfigProofs `TypeCorrect` (`KeyTypeCorrect`, `LedTypeCorrect`) proves the
type invariant; conjuncts that the inductive invariant does without are proved beside it (`Rest`,
`Bounded`, `Switches`, `Names`, `Counters`, `Pictures`, `Switch`). The runs leave the type invariants to these theorems,
and `LedIsHolders` (`LedFollowsHolder`) and `NeverStarved` (`Fed`).
In `DevLock`, mutual exclusion is the theorem `Exclusion`, and the run checks `Exclusive`, the
refinement, which implies it.

Only model-checked: liveness (`SleeperServed`, `ReleaseIsRead`, `PeriodSettles`,
`KeepsBlinking`, `Drains`, `EndsUnlessHeld`, `ConfEnds`), which the prover does not reach, and the
properties of the configuration tools that are about what walks over trees, conditions and lines compute:
`AsWritten`, `CirclesReported`, `SavedIsLegal`, `CacheIsFresh`, `UnflaggedIsSaved`, `SavedIsRead`, `SplitTellsAll` and
`ShowsDialogs`. RECURSIVE operators model the walks, which the prover cannot unfold.

## 7. Not modelled

Of the configuration tools: the characters of the lexer and the tables of the parser (the
model takes the reductions as input), messages and help texts, syntax errors,
`KCONFIG_OVERWRITECONFIG`, a SIGINT inside a walk, and the graphical front ends. USB disk automount, UDP
heartbeat, MP4 writer and key polling, steps 12 to 15 of the plan: each has hazards of its
own that no property covers (a removal by prefix of a device's name in `udisk_action.sh`, acknowledgements
of another round, frames the encoder still holds at the end, readers that share `keyvalue`). Two steps of
modelled drivers have a hazard that no property is about: an edge before `init_timer`
(imx6_irq.c:129), which the model follows into "oops" and no further, and the LED that `timer_exit`
switches off before it deletes the timer (timer.c:162).
Registration of character devices and the lookups in device trees: they run once,
before any concurrency, and keep no state of their own. Pixel
conversions and scaling: arithmetic, not control. The V4L2 and LCD examples:
variations of what is modelled. Make rules, patches, device trees,
configurations and the Qt demo: data, or other projects' code. Time: timers fire at any moment, so
properties that depend on a duration (debouncing, frame rates) are not stated.
Memory is sequentially consistent; on the boards' processors atomics and
the driver's spin locks provide the order the models use, except that plain
`atomic_set` and `atomic_read` do not order with each other, which could only add to
the finding of `keyirq_invalid`.
