# fs-os: models and proofs

TLA+ specifications of fs-os, a 32-bit x86 hobby kernel in C and assembly with a
small C library and a shell that runs a few programs. There is one processor,
one address space, no user mode and no disk: what can go wrong is the order in
which interrupts, tasks and calls meet the shared data of the kernel, and long
sequences of legal calls that leave that data in a state nobody expected.

Contents: [the system](#the-system), [the modules](#the-modules),
[the runs](#the-runs), [bounds](#bounds), [fairness](#fairness),
[proofs](#proofs), [disagreements found](#disagreements-between-code-and-comments),
[what is not modelled](#not-modelled), [what would come next](#what-would-come-next).

To check a run: `tlc -config heap.cfg MCHeap`; the module of each run is in
`PROJECT.json`. To check the proofs: `tlapm HeapProofs.tla`, and so on.

## The system

All paths are below `src/src/`. "Hard" says what a test of the component would
hardly reach; the lines are under `hazards` in `PROJECT.json`.

| Component | State | Operations | Hard | What makes it correct |
|---|---|---|---|---|
| Heap `kernel/heap.c`, `libk/stdlib.c` | list of block headers in one region | `heap_alloc`, `heap_calloc`, `heap_free`, behind `malloc`, `calloc`, `free` | padding, splits and merges over long histories; `prev` links that are not kept | an allocation is aligned, big enough and disjoint from all others; nothing leaks |
| Tasks `kernel/multitask.asm`, `multitask.c` | ring of contexts; a stack and an fxsave area each | `mt_init`, `mt_newtask`, `mt_switch`, `mt_endtask` | links, and registers that stay behind, show only at a later switch | a task finds its registers as it left them; the living tasks are one ring |
| Keyboard `kernel/keyboard.c`, `layouts/*.h` | flags of the keys, line buffer, character buffer, modes, layout | IRQ 1's `kb_handler`; `kb_getchar`; `kb_raw`, `kb_echo`, ... | the interrupt between any two accesses of `kb_getchar`; the last cell of a buffer; shift between press and release | what a program reads is what was typed, in order, once, edited |
| Framebuffer console `kernel/framebuffer_console.c` | array of characters, cursor, `should_shift`, pixels | `fbc_putchar`, `fbc_clear`, `fbc_refresh`, `fbc_shift_rows`, ... | a delayed scroll; characters that stay behind a row's end; unsigned columns | the last rows of the text are there and drawn |
| curses `libk/curses.c` | the two contexts | `initscr`, `endwin`, `move`, `addch`, ... | a context with an uninitialised flag; putting the shell's screen back | a program leaves no trace on the shell's screen |
| Time `kernel/pit.c`, `libk/time.c` | 64-bit tick counter | IRQ 0's `pit_inc`; `sleep`, `sleep_ms`, `timer_start`, `timer_stop` | the tick between a comparison and `hlt`; two loads of a 64-bit number | a sleep is long enough, and hardly longer |
| Real-time clock `kernel/rtc.c`, `libk/time.c` | CMOS registers (external) | `rtc_get_data`, `rtc_get_datetime`, `time` | the clock goes on between two reads, and in the middle of one | the time is not ahead of the clock, nor the epoch |
| PC speaker, piano, songs `kernel/pcspkr.c`, `apps/piano`, `media/*.h` | timer channel 2; held notes | `pcspkr_play`, `pcspkr_beep_custom`; the loops of `piano`, `piano_random`, `metronome`, `play` | 16-bit counts; keys that move during the scan; an exit key seen once a round | a held note sounds, silence otherwise; a held exit key ends the program |
| Shell `apps/sh` | the line, `argv`, the last exit code | read, split, find the command, run it to its end | no words, too many, a line longer than the buffer; what one program leaves to the next | `argv` has the words; keyboard, console and speaker are given back |
| Minesweeper `apps/minesweeper` | bombs, open and flagged tiles, the queue of the flood | a key; a flood | a flood over open and flagged tiles, in a queue of fixed size; wins with flags that stay | what opens is what the rules open; a won game ends |
| 5x5 `apps/5x5` | the grid, the cursor | a key; a press with its neighbours | edges and corners of an array that goes on | a press switches what the rules switch |
| Mandelbrot `apps/mandelbrot` | the keyboard modes it sets, its view | keys that zoom and move | modes on the way out | modes put back |
| stdio `libk/stdio.c` | the padding character of `vprintf` | `printf` and its like, `getchar` | padding that stays from one directive to the next | the text C says |
| stdlib, string, ctype, math, util, rand | none but the seed | pure functions | limits of 32 bits, ends of strings | the functions C defines |
| Boot, descriptors, exceptions `kernel/boot.asm`, `gdt.asm`, `idt.*`, `exceptions.c`, `kernel.c` | the descriptor tables, what is initialised | initialisation in order, panics | interrupts that are allowed before everything is set up | nothing is used before it is there |
| Paging `kernel/paging.*`, `cfg/linker.ld` | a page directory and tables, filled once | `paging_init`, `paging_show_map` | the last frame of a section | `.rodata`, and nothing else, is write-protected |
| Framebuffer, VGA, fonts, media | video memory | loops that store pixels | none | |
| Port I/O, linker script, limine | none | single instructions; the boot loader | none | |

How they interact:

- Two interrupts matter: IRQ 0 (timer) advances `ticks`; IRQ 1 (keyboard) runs
  `kb_handler`, which writes the buffers `kb_getchar` reads and echoes through
  the console. Both sit behind interrupt gates and run to their end. No handler
  allocates or switches tasks.
- Everything else runs in the shell's call chain. Tasks are cooperative:
  only `mt_switch` changes who runs.
- `mt_newtask`, `mt_endtask`, `initscr`, `endwin` and the programs use the heap;
  the programs use the keyboard through `getchar` and `kb_held`,
  and the console through `printf` and curses.
- The programs never run at the same time, but share the modes of the keyboard,
  the console's context, the speaker, the characters nobody has read yet and the
  padding of `printf`: each finds what the one before left. `Shell` composes them.

## The modules

| Module | Models | Uses |
|---|---|---|
| `Allocator` | what `heap.h` promises: sized, aligned, disjoint allocations | |
| `Heap`, `MCHeap`, `HeapProofs` | `heap.c` | implements `Allocator` |
| `Coroutines` | what `multitask.h` promises: computations that hand over to each other | |
| `Multitask`, `MCMultitask`, `MultitaskProofs` | `multitask.asm` | implements `Coroutines` |
| `MultitaskTest` | the shell's `test_multitask` command | composes with `Multitask` |
| `Terminal`, `LossyTerminal` | what `keyboard.h` promises, to a patient typist and to any | |
| `Keyboard`, `MCKeyboard`, `KeyboardProofs` | `keyboard.c` | implements both |
| `Screen` | what a console promises: the last rows of a text | |
| `Console` | the functions of `framebuffer_console.c` on a context and its picture | |
| `Curses`, `MCCurses`, `CursesProofs` | the console in use, with `curses.c` | uses `Console`, implements `Screen` |
| `Time`, `MCTime`, `TimeProofs` | `pit.c` and the sleeps of `time.c` | |
| `Minefield` | the rules of the game: what opens, who wins | |
| `Minesweeper`, `MCMinesweeper`, `MinesweeperProofs` | `minesweeper.c` | implements `Minefield` |
| `Speaker` | `pcspkr.c` and the programs that play one tone after the other | |
| `Piano` | `main_piano` of `piano.c` | extends `Speaker` |
| `FiveByFive` | `5x5.c` | |
| `Rtc` | `rtc.c` and `time()` | |
| `Stdio` | the directives of `vprintf`, with `stdlib.c`'s conversions | |
| `Boot` | `kernel_main` up to the shell, `paging_init` | |
| `Shell`, `MCShell`, `ShellProofs` | `sh.c`, `commands.h`: the machine from boot on | composes the seven above and `MultitaskTest` |
| `ProgramProofs` | theorems about `Piano`, `FiveByFive`, `Rtc`, `Boot` | |

Names are those of the source wherever TLA+ allows it. A definition that stands
just before another one, has the same parameters and is used nowhere (for
example `SkipRestart` before `Skip`) is a mutation of the code: with it in
place of the other, the property that `PROJECT.json` names beside it fails.

### Heap

`heap` maps the address of a header to the header (`next`, `prev`, `sz`,
`free`); `live` are the allocations the callers hold. A caller asks for any of
`Requests` and gives back only what it holds, once. `heap_alloc`'s search is one
step per iteration (`Skip`, `OutOfMemory`, `Place`), so that its end is a
property; `Place` does the padding (`MoveHeader`), the split, and the marking.
`heap_free` is one step, with both merges. Addresses are bytes, and the header
is the 16 bytes it has on this machine.

`pc = "panic"` is `panic_line`, which halts. `pc = "broken"` follows the first
step that would use a wrong `prev` or write a header past its block: from there
on the code works on memory that is not described here, and the model stops.
`Intact` in the properties means "up to there".

### Tasks

A context has `next`, `prev`, a stack and an fxsave area; `stk` and `fx` are what
is saved there, `cpu` what the processor holds. `Compute` is any code a task runs
between calls. Contexts, stacks and areas are blocks of the heap: `held` says
which are allocated, and `NewTask` may get any that is not. The page directory is
the same for all tasks, and a stack pointer always points to the top frame of the
task's own stack; neither is told apart here.

`MultitaskTest` adds the counters and the control of the shell's command:
`kernel_main`'s task and three others take turns. The three entry functions must
never return, because there is nothing on their stacks to return to.

### Keyboard

`Press` and `Release` are `kb_handler`, whole: the special keys, the flags, the
layout, the mode, the echo. `kb_getchar` takes one step per memory access
(`Point`, `Take`, `Erase`, `Advance`, `Peek`, `Reset`, `Return`), in source
order; the compiler loads `getchar_buf_pos`, which is not volatile, once, and so
does `Point`. The handler may run between any two.

`typist` is about the world: who types is chosen at the start and stays. For a patient one keys
come only when the program has read all there was (it waits on an empty cell or is elsewhere).
A person types slower than `kb_getchar` loops, and what the code promises differs: a patient
typist has an ordinary terminal (`IsTerminal`), anyone has one that may lose
keys and mix their order but invents nothing, repeats nothing, and delivers
nothing that was erased (`IsLossyTerminal`). Both are asked in one run.

`screen` is the row of the console the user types in, filled by `Printed`, which is
`fbc_putchar` on one wide row: a tab is spaces up to the next stop, a `'\b'` takes back one
place. `tab_erased` is not in the code: it tells the rows in which a tab was erased.

`pc = "panic"` is the full line buffer. `"broken"` is an index past the end of
`getchar_buf`, behind which the model knows nothing.

### Console and curses

`Console` has no state: its operators are the C functions on a record of the
context and the picture, with the array row by row, `'\0'` included. `fbc_putchar`
defers the scroll by `should_shift`; `fbc_shift_rows` copies a row up to its
`'\0'` and leaves what was behind it, which is why there are two refreshes, one
that stops at the `'\0'` and one that does not.

`Curses` is the program's view: `PrintChar`, `Clear` and `Refresh` in the shell,
`initscr`, `move`, `addch`, `clrtoeol`, `refresh` and `endwin` in a curses
program. One program runs at a time and the echo prints only while it waits
(proved: `PrintsAlone`), so every call is one step. `Rows`, the
refinement mapping, reads the text out of the array of the shell's context,
also while a curses program has the screen.

A `'\b'` is printed only by the echo, for a character of the line being typed;
`PrintChar` has this as its guard. `initscr` leaves `should_shift` as `malloc`
gave it: either value. What `IsScreen` promises the shell holds for both.

### Time

The program may be interrupted at each instruction that matters: two loads of
`ticks`, the comparison, the `hlt`. `Pace` says that it makes a few steps between two
ticks, `slept` counts the ticks since the call and `asked` is what the caller
wanted. `ShortRun` keeps the machine's life below 2^32 ticks (49.7 days), so that the high half stays 0.
What happens at the carry is left out: when it falls between the two loads, the count is 2^32 off,
and a sleep that starts with a count too small ends at once. The theorems about sleeps
are theorems about the time before it.

### Minesweeper

A key is one step, with the emptying of the grid that the first key after a
game does (`Kept`). `reveal_tiles` is a step up to its loops; then `Flood` is
one turn of the loop over the queue and `Surrounding` one call for a neighbour of a
number. Nothing else runs meanwhile: keys wait for `Getch`. `generate_grid` draws
`total_bombs` times and may draw a tile again, so any non-empty set of at most
so many tiles outside `Zone` may result.

`Minefield` has no queue and no loops: between two keys, anything that touches
an open blank tile, or was asked for, may open, and the next key comes when nothing
is left to. That a flood stops at open tiles, that it starts anew for each
neighbour of a number, and that flags do not stop it, all must come out as that.

`quit` and a later start are one step, `Quit`. Memory for the queue and the grid is the
heap's matter.

### Speaker and piano

`down` is what `kb_held` finds; keys go down and up between any two steps. The
piano asks for one note per step (`Scan`), as its loop does, then `Choose` gives the
speaker the note pressed last, the one still held, or the last of the array that
is. The notes seen as held are `held`, not `down`: that a note still sounds which went
up after the program asked is no mistake, that one sounds which the program
knows to be up would be. `piano_random`, `metronome`, `play` and
`beep` are one loop, `beeper`, that differs in how many rounds are left and whether the exit key
counts. `Reload` is what 16 bits leave of the count for a frequency.

### Clock

`rtc_get_data` is one step per read of a register. `Update` is the chip: it may
come between two reads, or in one, and then the byte read is any of `Garbage`. The
whole takes much less than a second, so there is one update at most. Times are
`before` and `clock`, what the chip showed when the read began and shows now. `date` reads twice, for the
fields and for `time(NULL)`: `RtcAgain` begins the second read at the moment of the first or at the next.

### printf

One step is one directive with its argument. `Length` is what the padding takes the text to
be (for `f` it forgets the sign), `Text` what is printed. A double is a number of millionths, of which
`%f` cuts the decimals off; the rounding of binary fractions is left out. `PrintedInFull` does not follow the
code: it finds the number in the text, reads its digits and compares their value with the argument.

Modelled are the directives with a width, which share the padding, and the `%f` of `test_libk`: the
seconds of the time at boot and of `date`, and its epoch; the tones of `play`; the tables of `page_map`
and `heap_headers`. Those without a width leave the padding alone; the `"%.2f"` of `test_multitask` and
the plain `"%d"` elsewhere are left out.

### 5x5, boot, shell

`FiveByFive` keeps the grid as the set of lit cells. Its property is the invariant of
the puzzle: a pattern that every press meets in an even number of cells keeps the parity
of its lit cells, if presses switch what the rules say, at the edges too. Cells are pairs and not
indices of an array, and the grid's block of the heap (`5x5.c:374`), which nobody frees, is left out.

`Boot` has one step per part, with what the call and the lines after it use, and an
interrupt between any two once `idt_init` has run. What an interrupt uses is what its handler does:
the timer's counts, the keyboard's looks at the buffers and echoes when a program waits for a
character, which nobody does before the shell. The write protection is
computed from the linker's sections, which start on page boundaries.

`Shell` reads a line, or what is left of the last one, cuts it as `sh_main`'s loop does and
splits it with the same loop (`SplitStep`, over the characters). A letter stands for
a whole word; `SP` and `NL` are themselves. Each program starts with `StartsAs` and ends
with `Ends`, and is idle otherwise. What a program does to the modes is in its start and its
end, where the code has it: `initscr` and `endwin` for the curses programs, a saved mode and
`Restore` for the others. `minesweeper` and `mandelbrot` are nothing else here, the first having
modules of its own. Programs that read characters get first what the shell left unread.

## The runs

All passing runs finish within four minutes on two workers.

| Run | Question | Properties |
|---|---|---|
| `heap` | Is `heap.c` an allocator, whatever the order of requests and releases, and is its list sound? | `BlocksTile`, `FreeBlocksMerged`, `PaddingFollowsRightPrev`, `AllocationsHeld`, `FirstFit`, `RequestsAnswered`, `IsAllocator` |
| `multitask` | Do tasks keep their registers, their blocks and their ring, in any order of creation, switch and end? | `BlocksOwned`, `LinksInverse`, `RegistersKept`, `AreCoroutines` |
| `keyboard` | With a patient typist: a terminal? Does the echo show the line? Is all read in the end? With keys at any moment: what is left of it? | `DownMeansHeld`, `ScreenShowsLine`, `IsTerminal`, `AllRead`; `IsLossyTerminal`, `PrintsAlone` |
| `console` | Does the console hold and show the text, with curses programs in between? | `RowsHaveText`, `PictureOfRows`, `IsScreen` |
| `time` | Are sleeps long enough, not too long, and do they end? | `LongEnough`, `NotLate`, `Wakes` |
| `minesweeper` | Do the loops, the queue and the flags play the game? | `WinSeen`, `QueueFits`, `IsMinefield`, `Settles` |
| `shell` | Does the machine boot in order, and do the programs, one after the other in any order, keep their promises and give back what they took? | see below |

The properties of `shell`, part by part: boot: `BootsSafely`; the line: `ArgvIsWords`; between programs:
`ModesRestored`; tones: `SoundsHeldNote`, `HoldQuits`; the clock: `TimeNeverAhead`,
`EpochNeverAhead`; `printf`: `PrintedInFull`; 5x5: `ParityKept`; the test of the tasks: `NoTaskReturns`,
`InTurns`, `EndsClean`. They are in one run because what they could lose is what the programs share.

The `TypeOK`s of the modules with proofs, and `EmptyHeapIsWhole`, `HeldBlocksKept` and `NoBombCleared`, are
proved for all values of the constants and are in no run. Five more runs end in a counterexample; see
[below](#disagreements-between-code-and-comments).

What they show beyond "no error":

- The stale `prev` that a split leaves does harm only when that block is
  released: the `prev` of a *free* block, which padding writes through, is always right
  (`PaddingFollowsRightPrev`), since merging repairs it.
- `heap_free` merges completely, so an emptied heap is again the one block it began
  as (`EmptyHeapIsWhole`, proved), with the padding that moved between blocks recovered.
- The second size check of `heap_alloc` can never fail: when it is reached, the
  first one has left 16 bytes and padding takes at most 15 (lemma
  `FitsMeansSuitable`).
- The echo and the line agree although the console and the keyboard keep their own
  state (`ScreenShowsLine`), also across a change of mode - until a tab is erased: then letters
  that the line has lost may stay on the screen. None that the line has is ever missing there, a place for each tab included.
- A key that is down is held under one of its characters, however shift changes
  (`DownMeansHeld`); the converse fails (`keyboard_stuck`).
- `PictureOfRows` needs both refreshes: the one for `endwin` must stop at the `'\0'`.
- A Minesweeper flood never queues a tile twice, so the one queue of `w * h` tiles,
  never checked, suffices; `check_win` only after `'f'` is enough, since nothing else
  can complete a win (`WinSeen`).
- The time of day that `rtc_get_time` makes of three reads may be one that never was, but is
  never ahead of the clock, because the hours are read first; with the seconds first it would be.
  The same holds for the epoch, because the date is read before the time - but for the second in which a month begins.
- A field read may be 0 though the clock never showed 0: the first read is compared with 0 (`rtc_twice`).
- What the programs print is whole, in its column, whatever an earlier program left in `cur_pad_char`; but the
  character of the padding may be a zero that nobody asked for (see [below](#disagreements-between-code-and-comments)).
- All notes of all five octaves, from 43 Hz on, have counts that fit the timer.
- The grids of 5x5's `r` need not be solvable: presses keep the parity of the quiet patterns.
- The two ticks of `NotLate` are both reached: one while the starting count
  is read, one between the last comparison and the `hlt`.

## Bounds

| Run | Bound | Why it is enough |
|---|---|---|
| `heap*` | 208 bytes at the real `HEAP_START`, three shapes of request, `MaxLive` = 4 | up to four blocks and the holes between them: splits in the middle, padding before, after and not at all, merges on either side and on both, exhaustion. `heap_alloc` and `heap_free` look at a block and its two neighbours |
| `multitask` | two contexts, stacks and areas beside `kernel_main`'s; two values of a register | a ring of three tells next from prev; freed blocks are used again; blocks are symmetric |
| `keyboard` | a patient typist: one letter, Enter, Backspace, shift, caps lock, two layouts, one with a tab; `BufSz` = 4; two keys down; `MaxRow` = 8 | lines of 0 to 3 characters, a full line; tabs after none, some and all of a stop's letters, and a second tab, which eight columns leave room for; erasing tabs again and again would fill any row; two fingers have a key pressed under another |
| | a hasty typist: one letter, Enter, Backspace, three characters ahead | a line copied over one that is being read, a position set back under a stored key |
| `console` | 3 by 3; one visible character; `MaxCalls` = 2; `Positions` = one beyond the edge | rows of every length, a full last row, tabs that wrap, several scrolls; a visible character can be told from a space and an empty cell, and no code compares two visible ones |
| `minesweeper` | 4 by 3 tiles, margin 2 (at most 3 by 3 tiles without bombs at the start), difficulty 22 (two bombs), `MaxFlags` = 2 | inner, edge and corner tiles; floods of several turns, numbers between blank tiles, all bombs flagged and a flag too many, flags flooded over |
| `time` | 12 ticks, delays 0, 1, 4 ms, "seconds" of 3 ticks; `Pace` = 3, `Half` = 16 | every place of a tick in the loop, several halts per sleep |
| `shell` | `MaxIters` = 3 | the code's `MT_TEST_ITERS` is 3 |
| | three notes, octaves 1 and 5, `MaxRounds` = 2 | one note newly pressed, one held and one released at once; the lowest and the highest count |
| | 5 by 5 cells, `MaxPresses` = 2, two quiet patterns | the code's default and least size; inner, edge and corner cells |
| | five moments, four bytes of garbage (`rtc_twice`: two and three) | a minute, hour, day, month, leap day and year that end; midnight; two reads in a row that agree on garbage, and on 0 |
| | `MAX_CMD_SZ` = 4, `MAX_ARGC` = 3, some fifty lines | lines shorter than, as long as and longer than the buffer and than `argv`; spaces at the start, in the middle and at the end; each command with no, a right, a wrong and the help argument |
| | the programs' own directives; indices 0, 7, 4096, sizes 16 and the heap's, the two doubles of `test_libk` | no room, some and much for the padding, after any other directive; a negative double |
| | pages of 4 bytes, sections of one to three pages | first, last and inner pages of a section |

`Half`, `PerSec`, `HeapSize`, `BufSz`, `ch_h` and `ch_w` stand for 2^32, 1000, the
heap of 50 MiB and the buffer and screen sizes; the theorems hold for all values of them.
States in which nothing can happen are real in `heap` (panic, broken),
`keyboard` (panic, broken), `time` (the last tick) and `shell` (`quit`, and a refused machine),
and there the configurations say `CHECK_DEADLOCK FALSE`.

## Fairness

- `Heap`: `WF(Scan)`. A call of `heap_alloc` runs on: nothing but an interrupt
  stops it, and the handlers return.
- `Shell`: `WF(Execute \/ Start \/ Program)`. One processor that goes on with the command it has, and
  with a program that waits for no key. Nobody has to type a line, to press or to release a key.
- `Keyboard`: `WF(Call)` and `WF(GetChar)`. The program reads again and
  `kb_getchar` runs on; no fairness for keys: nobody has to type.
- `Time`: `WF(Tick)` and `WF(Sleeping)`. The timer is periodic, and a program
  that is not halted goes on. Other interrupts need not come.
- `Minesweeper`: `WF(Flood \/ Surrounding)`. The loops go on; keys need not come.
- `Multitask` and `Curses` have only safety properties and no fairness.

## Proofs

Each `...Proofs` module proves its component for all values of the constants,
from the `ASSUME`s in the component's module.

| Module | Theorem | Statement |
|---|---|---|
| `HeapProofs` | `TypeCorrect`, `TilingHolds`, `MergingComplete`, `PaddingSafe`, `HoldsAllocations`, `FirstFitTaken`, `EmptyHeap` | `TypeOK`, `BlocksTile`, `FreeBlocksMerged`, `PaddingFollowsRightPrev`, `AllocationsHeld`, `FirstFit`, `EmptyHeapIsWhole` always |
| `HeapProofs` | `HeldKept`, `HeapIsAllocator` | `HeldBlocksKept`; the heap implements `Allocator` (`IsAllocator`), initial states and every step |
| `MultitaskProofs` | `TypeCorrect`, `LinksHold`, `Ownership`, `RegistersStay` | `TypeOK`, `LinksInverse`, `BlocksOwned` always; `RegistersKept` |
| `MultitaskProofs` | `TasksAreCoroutines` | the tasks implement `Coroutines` (`AreCoroutines`), initial states and every step |
| `KeyboardProofs` | `TypeCorrect`, `Alone`, `Held` | `TypeOK` always - with it, no index leaves its buffer outside "broken"; `PrintsAlone`; `DownMeansHeld` always |
| `KeyboardProofs` | `KeyboardIsTerminal`, `LineShown` | to a patient typist the keyboard implements `Terminal` (`IsTerminal`), initial states and every step; `ScreenShowsLine` always |
| `KeyboardProofs` | `KeyboardIsLossyTerminal` | whenever keys come it implements `LossyTerminal` (`IsLossyTerminal`), initial states and every step |
| `CursesProofs` | `TypeCorrect`, `FirstColumn`, `PictureShown` | `TypeOK`, `RowsHaveText`, `PictureOfRows` always |
| `CursesProofs` | `ConsoleIsScreen` | the console implements `Screen` (`IsScreen`), initial states and every step, curses programs and the console's return included |
| `TimeProofs` | `NeverEarly`, `TwoTicksLate` | `LongEnough`, `NotLate` always, before the carry |
| `MinesweeperProofs` | `TypeCorrect`, `NoBombOpens`, `WinIsSeen`, `QueueIsLargeEnough` | `TypeOK`, `NoBombCleared`, `WinSeen`, `QueueFits` always |
| `MinesweeperProofs` | `PlaysMinefield` | Minesweeper implements `Minefield` (`IsMinefield`), initial states and every step |
| `ProgramProofs` | `TimeIsNeverAhead`, `EpochIsNeverAhead` | `TimeNeverAhead`, `EpochNeverAhead` always |
| `ProgramProofs` | `HeldNoteSounds`, `ParityStays`, `BootIsSafe` | `SoundsHeldNote` of `PianoSpec`, `ParityKept` of `FiveSpec`, `BootsSafely` of `BootSpec` |
| `ShellProofs` | `ModesAreRestored`, `TasksNeverReturn`, `TasksTakeTurns`, `TestTidiesUp` | in the machine: `ModesRestored`, `NoTaskReturns`, `InTurns` always; after `test_multitask` only `kernel_main`'s task is left |
| `ShellProofs` | `WordsAreSplit`, `NumbersAreSpelled` | in the machine: `ArgvIsWords`, `PrintedInFull` always |
| `ShellProofs` | `MachineSoundsHeld`, `GamesKeepParity`, `DateNeverAhead`, `DateEpochNeverAhead`, `MachineBootsSafely` | the properties of the parts, of the machine that runs them one after the other |

All have the same plan: an inductive invariant, one lemma per action that
preserves it, and a temporal step that combines them. The strengthenings:

- *Heap*: `Shape` (headers, tiling, merged holes, right `prev`s of free blocks) with
  `LiveHeld`, which ties the allocations to the used blocks, and `FirstFit`. Neither
  tiling nor merging is inductive alone: a merge through a wrong `prev` would
  break the tiling, and a hole beside a hole would make a split leave two. Each
  piece of header arithmetic (`MoveHeader`, `Split`, `Absorb`, clearing `free`)
  has a lemma of its own, from list to list; the operations compose them.
- *Tasks*: that `next` and `prev` are inverse over the living tasks is inductive only
  together with the types and with who owns which block: a new context must be
  none that is linked, and a stack freed must be nobody else's. The refinement needs that they are
  *one* ring: `RingInv` says that a sequence lists the living tasks once each, from the
  running one on, in the order of their `next`. The three operations insert a second, turn the sequence and
  take one out of it (`Inserted`, `Turned`, `Removed`), which is what `Coroutines` does with its own.
- *Keyboard*: an index is in its buffer after `Take` because `Take` read there
  (`p < BufSz` at the later program counters); the handler is silent while the
  program runs because `getting_char` is false there. `DownMeansHeld` is
  inductive with the types: a flag is only cleared when a key of that character goes up, so a key that
  shares none keeps one of its own. `QueueInv` is what makes a queue of the buffer: the unread characters fill the cells from
  where `kb_getchar` reads (`From`) up to one place (`till`), there are none elsewhere, and when there are none the position
  is 0 again. A patient typist's key then finds it so (`Drained`), and a line or a key is stored from cell 0 on. Without
  patience cells are just counted: the unread are a bag, and each step adds one to it, adds a line less what it
  overwrites, or takes one (`BagGains`, `BagGainsLine`, `BagLoses`). `EchoInv` is for the screen: a line
  is only begun where a key counts, and there the row shows it. What a line shows is recursive (`Shown`); that it grows
  and shrinks by what one character shows follows by the least-number principle (`Least`) on the rows in between (`AreRows`).
- *Console*: types, and that no row begins with `'\0'`. The search of `'\b'` then
  ends at a column of the row, by the least-element principle for naturals
  (`Least`, from the well-foundedness of `<`). The refinement adds `Lines`: each row above the cursor's has an end,
  its first `'\n'`, or is full (`Full`), the cursor's is open at the cursor, the rows below are empty; and, in the shell,
  `Pictured`: each cell up to a row's end is drawn, the ones behind blank. What a shift
  leaves behind a `'\0'` is therefore never shown, the text and the picture of a row depend on its length only
  (`Covers`), and all of `fbc_shift_rows`, both refreshes and the `'\b'` that goes back to the row above are
  equations between rows. The scroll that is due (`Pending`) counts as an empty row more.
- *Time*: `Behind` (0 or 1) bounds what was lost while the starting count was read; `Late`
  says at each point of the loop how far past the target the count is, and when it
  is past, how recent the last tick is: two ticks cannot follow within three
  steps (`FastEnough`).
- *Minesweeper*: `FloodInv`: an open tile without bombs around it is in the queue or all
  around it is open; with an empty queue that is what the player's turn needs.
  `QueueInv` has the queue's tiles open, blank and different; what a turn pushes was hidden and is
  therefore new. The count `w * h` is that of the tiles (`TilesCount`).
- *Clock*: `RtcInv` says of each field already read that it is 0 or the chip's value before or after
  the update (`NowInv`), and that once a field is of the new second, those read after it are too, or 0
  (`OrderInv`): with the hours read first, a mixture is then never ahead. For the epoch: within a day neither the date nor
  the seconds are ahead; over midnight either the old day was read, which makes up for any seconds, or the new one, and then the
  seconds are the new ones too (`SumsOfReads`). `Later` is proved to be the next
  second by cases on what rolls over.
- *Piano*: during a scan, `playing_note` is one of the newly pressed notes already asked for, or `playing` is
  false and none of those is newly pressed (`ScanInv`). `Tuned` and `CountFits` are the arithmetic
  of the 16-bit count.
- *5x5*: what `toggle_adjacent` switches is the rules' neighbourhood (`Plus` is `Near`), and the symmetric
  difference of two sets has the parity of the sum of their sizes.
- *Shell*: `ModesInv` says for each kind of program how it finds the modes, the console and the speaker and which of
  them it has to put back; every start and every end keeps it. The programs' own invariants hold while they run and are
  true of their idle state (`ShellInv`, `ParityKept`, ...). For `test_multitask`,
  `TestInv` has the ring in the order of creation (`RingFrom`) and the counters: all tasks before the running one
  have taken the turn, those behind have not (`Turns`). Then the loops are left by all
  or by none, the tasks are ended by `kernel_main`'s, and none returns.
- *argv*: `WordsInv` adds that what is left to read ends with its newline (`Ended`), so the copying loop of `sh_main` finds
  one. For the splitting loop, the table of its states is compared with what it should hold after each character
  (`SplitInv`: the beginnings of words so far in the order of their ranks, the ends `'\0'` was put at). The first character at which the two
  differ, by the least-number principle, is none. A word goes on to the least place that no character of it follows
  (`WordEnds`), ranks grow along the line (`RanksGrow`), and with too many words the last goes on to the end of the line.
- *printf*: the powers of ten and sixteen as a table as far as 32 bits go (`Powers`): `digits` is the least power above the
  number (`DigitsIs`), and the first k digits add up to its quotient by the power that is left (`DigitAdded`,
  `DigitsAddUp`), so all of them to the number, and the first of several is not 0. Of a double the
  integer part and the decimals are two such numbers. `PadInv` adds to `PrintedInFull` that the pad is a space or a zero,
  `BeeperInv` that a beeper's rounds, which `play` prints, stay below the limit of an int.
- *Boot*: `BootInv` says which of the parts that others need are up after each step, and which frames paging has protected.

Assumptions beyond types: alignments are at most a header and the heap's start
suits them (`HeapAssumption`; callers use 8 and 16); contexts, stacks and areas are different blocks
(`MultitaskAssumption`); EOF and the prompt are no keys' characters and the prompt is no tab
(`KeyboardAssumption`); `LineShown` takes it that nobody
reads a line without echo (`LinesAreEchoed`; the shell reads with it, curses programs read keys); the control characters, the space and `'\0'` are different from each other and from the visible ones, and there are at least two rows
(`ConsoleAssumption`); `NULL` is no context's address (`CursesAssumption`); `ShortRun` and `FastEnough` for `Time`;
a margin of at least two and at least one bomb (`BoardAssumption`; the arguments allow five and more);
the chip shows dates that exist (`RtcAssumption`); lines are sequences without newlines,
integers that the tables print have 32 bits, doubles an integer part that is an int, and a beeper's rounds are counted in an int (`ShellAssumption`); notes of 76 Hz or more in octave 3 (`SpeakerAssumption`; the code's lowest is 174);
a board of at least 5 by 5 (`FiveByFiveAssumption`); the linker's sections on page boundaries, without overlap (`BootAssumption`).

Model-checked only:

- liveness: `RequestsAnswered`, `EndsClean`, `AllRead`, `Wakes`, `Settles`, `HoldQuits`, which is out of the prover's reach.

## Disagreements between code and comments

| Run | What the code says of itself | What it does |
|---|---|---|
| `heap_prev` | `heap.h:23`: `prev` is the "Pointer to prev header" | `heap.c:79`: a split does not update the `prev` of the block after it. A later `heap_free` of that block looks at the wrong neighbour |
| `heap_split_header` | `heap.c:47`: "Check if the updated size is still enough" | `heap.c:49` leaves out the header of the remainder: with 1 to 15 bytes of padding it can be written over the next header, and the size of the remainder wraps |
| `keyboard_long_line` | `keyboard.h:10`: "Max length of an input line" | a line of that length is accepted and makes `kb_getchar` look past the buffer (`keyboard.c:300`) |
| `keyboard_stuck` | `keyboard.c:66`: the flag is set "if that key is pressed" | released under another shift state, the flag of the other character is cleared and the first stays |
| `rtc_twice` | `rtc.c:73`: "Make sure we get the same values twice in a row" | the first byte is compared with 0 (`rtc.c:76`): a 0 that an interrupted read returns in the middle of an update is taken after one read, and the field is 0 |

Smaller ones, without a run: in raw mode `getchar_buf_pos` is not "always 0" as
`keyboard.c:186` says when two keys come before the reader is done; Minesweeper's
`BOMB_MARGIN` of 3 keeps 5 by 5 tiles free, not the "3x3 grid" of `defines.h:84`;
the surroundings of a number open also when it was hidden until then, not only for
"an already revealed tile" (`defines.h:10`), and not when a flood opened it under a
flag; `free` and `malloc` of 0 bytes give a block where
`stdlib.h` promises NULL; a typed tab echoes as up to four spaces and one `'\b'`
takes back one of them; `initscr` does not set `should_shift`; after a program
that used colours, `endwin` of one that did not frees a NULL array.

In the programs: `piano_random -n <count>`, "Run for n notes" (`piano.c:225`), plays one more (`:288`), and each
`-o` divides or multiplies what the last one left (`:259`), so that four `-o 1` make every frequency 0 and
`pcspkr_play` divide by it; `last`, "the exit code of the last command" (`commands.h:95`), passes over
unknown commands; `primes` uses the timer of `timer start` (`commands.h:512`); the cheat grid of 5x5 fits only a width of 5
(`5x5.c:429`), and the grid's memory is never freed; `metronome` compares five characters
of `--freq`; `max_iter` of Mandelbrot has no upper limit and its text has room for four digits (`mandelbrot.c:216`).
In the libraries: `cur_pad_char` is said to be overwritten "temporarily" (`stdio.c:31`) and stays where there is no room.
`heap_headers` prints the size of a heap of 50 MiB, which has seven digits, with `"%07x"`; the first `"%4d"` of a later `page_map` is then `0007`
where `   7` is meant, and `date` leaves the same after a `"%02u"` of two digits. `"%04d"` of -5 would give `00-5`, and a padded `"%f"` of a negative number
one place too much, since `digits_double` forgets the sign: no program prints either.
Further, `atoi` of a word without a digit reads on behind it (`stdlib.c:69`); `time()` goes back half a day after months of 31 days.
In the kernel: `abort` prints on a console that does not exist yet when the framebuffer is refused (`kernel.c:160`); `paging_show_map` never
prints the end of its last run. In the shell: a line of 255 characters or more loses one and the rest is the next command; an empty line compares
names with what is at address 0 (`sh.c:67`).

## Not modelled

- Sizes near 2^32 in the heap (`sz + 16` and `item_n * item_sz` wrap); no caller
  comes near.
- Colours; the functions of curses that take another window (no caller).
- Layout codes past the end of the tables in `us.h` and `es.h`, and characters
  of 128 and more.
- `pit_read_count`, `pit_dec`, `pit_set_ticks`, which nothing calls; the
  frequency of the timer.
- Pixels, fonts, video modes, the boot loader, single-instruction wrappers: no
  state that a later call reads, or none of this program.
- Minesweeper's drawing and arguments.
- The processor's tables (`gdt.asm`, `idt.c`, `structs.asm`) and the exception stubs: data and straight-line code whose
  effect is outside the program.
- `atoi`, `strcmp`, `memcmp` and the copying functions: their results are inputs of the programs here. `math.c`,
  and Mandelbrot's floating-point arithmetic.
- Formats that no program uses (`"%l?"`, `"%5"` at the end), and the return value of `printf`.
- Two thirds of the lines of the repository are data (the fonts and pictures, the songs' tables) or the boot loader's.

## What would come next

- The keyboard and the console in one model, for lines that wrap.
- Tasks on the heap model instead of a set of free blocks.
- Colours, with the pairs of one curses program after the other.
- Theorems that give the reads of lines and keys to the shell: `KeyboardIsTerminal` and `WordsAreSplit` in one machine.
