# A formal model of GopherOS

GopherOS is a small 32-bit x86 kernel in C: a cooperative scheduler with ring-0
and ring-3 processes, deferred interrupts, a region and pool allocator, paging
with one page directory per ring-3 process, a RAM file system saved to an ATA
disk, an RTL8139 driver with ARP, ICMP and a TCP server, and a shell with a line
editor. This directory holds TLA+ modules translated from that code, TLC
configurations that check them on small instances, and TLAPS proofs for every
size of the tables.

Paths are those of the repository (`process.c` is `src/process.c`). The rules of
`Makefile` name `kernel/` and `userland/`, but the objects it lists (`pci`,
`rtl8139`, `net`, `tcp`, `gopher_server`, ...) have their sources in the root
only. `src/kernel/` holds an older copy of some of the files; this model is of
those in the root. One difference matters here: `kernel/process.c:328`
returns when a process is switched to itself, `process.c` does not (section 6).

## 1. Inventory

| Component | Source | State | Operations | Correct when |
|---|---|---|---|---|
| Process table | `process.c` 17-410 | `processes[8]` (state, esp, region, address space, event), `current`, `next_pid` | `proc_create`, `proc_create_ring3`, `proc_load_elf`, `proc_exit`, `proc_kill` | one process runs and it is `current`; no slot is reused while its stack is in use; region and address space are given back once |
| Scheduler | `process.c` 449-536, `isr.s` 164-179 | `current`, saved `esp`s, CR3, `TSS.esp0`, IF | `proc_yield`, `context_switch`, `scheduler_run`, `proc_sleep_on`, `proc_wakeup` | a switch resumes the right process at the right place, in its own page directory; nobody starves; the idle loop never sleeps over a wake-up |
| Interrupts and traps | `interrupt.c`, `idt.c`, `isr.s`, `gdt.c`, `timer.c` | `irq_table[16]` (top, bottom, pending), `jiffies`, the two controllers | `irq_register`, `irq_dispatch`, `irq_run_bottom_halves`, `isr_handler`, the stubs | a bottom half and its wake-up follow every interrupt; the interrupted code does not notice; a fault of ring 3 ends only its process |
| System calls | `syscall.c` | none of its own | exit, read, write, open, malloc, free, ioctl, yield, getpid, stubs for the rest | arguments and results survive the way in and out; what is granted is what was asked for |
| Physical memory | `memory.c` 13-75 | 2048-page bitmap, `next_free_hint` | `page_alloc`, `page_free` | no page has two owners; allocation fails only when there is no room |
| Regions and pools | `memory.c` 77-245 | regions, eight pools of slots | `region_new/alloc/destroy`, `kmalloc`, `kfree` | objects are disjoint; a destroyed region is unused |
| Paging | `paging.c` | kernel directory, 8 handles with directory, tables and bounds | `paging_new_address_space`, `paging_map_page`, `paging_grant_access`, `paging_free_address_space`, `paging_switch_address_space` | what ring 3 can reach belongs to it; the directory in CR3 is never refilled |
| File system | `filesystem.c` 1-316 | array of nodes, `shell_region` | `fs_create`, `fs_mkdir`, `fs_rmdir`, `fs_append`, `fs_read`, `fs_list`, `fs_delete`, `fs_rename` | the nodes form a tree, names are unique in a directory |
| Persistence | `filesystem.c` 318-468, `disk.c` | disk sectors | `fs_save`, `fs_load`, `disk_init`, `disk_read_sector`, `disk_write_sector` | load after save gives the same tree; a load that fails says so |
| Network card | `rtl8139.c`, `pci.c` | receive ring, `rx_offset`, `CAPR`, ROK, four transmit descriptors | `nic_init`, `nic_send`, `nic_poll_recv`, `pci_find_device` | every frame the card kept is delivered once, whole and in order |
| ARP, IP, ICMP | `net.c` | `arp_wait_*`, `gateway_mac`, `ping_wait_*` | `net_poll`, `net_arp_resolve`, `net_ping` | an answer ends the request it answers, and every request ends |
| TCP and gopher server | `tcp.c`, `gopher_server.c` | one listener, one connection | `tcp_accept`, `tcp_recv`, `tcp_send`, `tcp_close`, `tcp_handle_segment` | the bytes received are a prefix of those sent, connections close |
| Keyboard | `keyboard.c` | 256-byte ring, shift and ctrl, the line being edited, clipboard | `kb_top_half`, `kb_haschar`, `kb_getchar`, `kb_readline` | keys come out once and in order, a sleeper is woken; line, cursor and screen agree |
| Display | `vga.c`, `statusbar.c`, `graphics.c` | screen memory, cursor, mode | `vga_putc`, `vga_scroll`, `vga_status_line`, `gfx_set_mode`, `gfx_putpixel`, ... | text scrolls above the status row; drawing stays inside the frame |
| Clock | `rtc.c` | none | `rtc_read` | the date is the one the chip holds, of one instant |
| Shell and editor | `shell.c` | current directory, edit buffer, script depth | the commands | each command returns to the prompt; what is saved is what was typed |
| Spin locks | `spinlock.c` | the lock word and IF | `spin_lock`, `spin_unlock` | one owner; IF restored |
| Strings, result types | `string.c`, `typesafe.h`, `types.h` | none | copies and conversions | |
| Serial port | `serial.c` | none | output | |
| User programs | `hello.c`, `counter.c`, ..., `*_blob.c`, `longmode_test.s` | their own | system calls | any behaviour is allowed |

### How the parts interact

* **Calls.** The shell is a process and calls everything else directly. The
  other ring-0 processes (`gopherd`, `gopher_srv`) do so too; `gopherpy_demo` runs
  in ring 0 and calls the kernel by `int 0x80`. A call runs to
  its end unless it calls `proc_yield`: the kernel is cooperative, so two
  processes interleave only at `kb_getchar`, in the polling loops of `net.c` and
  `tcp.c`, and at the end of a process.
* **Interrupts.** A top half may come between any two instructions with IF set.
  It only touches the keyboard ring, `jiffies` and `pending`. Bottom halves and
  wake-ups run inside `proc_yield`, in process context.
* **Shared CPU state.** `context_switch` saves the general registers and `esp`.
  EFLAGS, CR3 and the TSS belong to whoever runs; `proc_yield` reloads CR3 and
  the TSS, nothing reloads IF except the return to ring 3, a lock release
  (`spinlock.c:19` sets IF whatever it was) and the idle `sti; hlt`.
* **Ring 3.** `int 0x80` enters through an interrupt gate (IF cleared); faults
  are turned into `proc_exit` by rewriting the return address of the gate.
* **Polling.** Nobody takes interrupts from the network card or the disk. Whoever
  is in a loop of `net.c` or `tcp.c` calls `net_poll`, and handles whatever frame
  it finds, be it for another process.
* **The file system** is used by the shell, its editor and, at boot, by
  `gopherd`. A lock is held where it changes; nothing of it yields.

### What is hard to test here

Interrupts between a test and a sleep; the stack of an exited process still in
use by `proc_yield`; slots, regions and page directories reused after a kill;
the value of `esp` read before `context_switch` writes it; IF handed from one
process to the next; failures half way through a creation; answers that come
late, twice or while somebody else polls; a power failure between two sectors;
sequences of file commands that detach a directory. `PROJECT.json` lists them, and those of the other components, with their lines.

## 2. Modules

| Module | Models | Uses |
|---|---|---|
| `ProcTable` | the table of `process.c` and the `in_use` flags of `paging.c`: one operator per operation, each an action fragment over the table | |
| `Irq` | `interrupt.c`, the interrupt controller as the kernel sees it, the keyboard ring | |
| `Sched` | the running kernel: `proc_yield` step by step, `context_switch`, the idle loop, the programs and shell commands that reach the scheduler | `ProcTable`, `Irq` |
| `SchedProofs` | types, the four inductive invariants that do not depend on the number of page directories, ownership of address spaces and stacks | `Sched`, `TLAPS` |
| `PageStore` | abstract: what a page allocator promises | |
| `PageAlloc` | `page_alloc` and `page_free`: bitmap, hint, two passes | |
| `Memory`, `MCMemory` | everyone who takes pages: regions of processes, `proc_load_elf`, the pools of `kmalloc` | `PageAlloc`, `PageStore` |
| `MemoryProofs` | types, one holder for each page, what can leak, the bits of the heap, `Memory` implements `PageStore` | `Memory`, `TLAPS` |
| `Paging`, `MCPaging` | `paging.c` and `sys_malloc` over the pages of `Memory`: what each page directory opens to ring 3 | `Memory` |
| `PagingProofs` | what ring 3 reaches is what it owns | `Paging`, `MemoryProofs` |
| `Tcp`, `MCTcp` | `tcp.c` and the server that uses it, against clients and a network that loses, doubles and reorders | |
| `TcpProofs` | types, server and state agree, handshakes, the byte stream, the reply | `Tcp`, `TLAPS` |
| `FsStore` | abstract: a map from paths to contents, and the copy of it on disk | |
| `FsTree` | the array of nodes of `filesystem.c`, operations walked one path component at a time | |
| `FsDisk` | `fs_save` and `fs_load`, sector by sector, over a disk that fails | `FsTree` |
| `Shell`, `MCShell` | the commands of `shell.c` on files | `FsDisk`, `FsStore` |
| `ShellProofs` | the array of nodes is sound, what is listed opens | `Shell`, `TLAPS` |
| `Editor`, `MCEditor` | the line editor of `shell.c` | `FsTree` |
| `Terminal` | abstract: a queue of keys and a line with a cursor | |
| `Vga` | the text screen of `vga.c` | |
| `Keyboard`, `MCKeyboard` | `keyboard.c` from the scan code to the line, on that screen | `Vga`, `Terminal` |
| `KeyboardProofs` | the screen shows the line, `Keyboard` implements `Terminal` | `Keyboard`, `TLAPS` |
| `FrameQueue` | abstract: a first-in first-out queue of frames | |
| `Nic` | the receive ring of `rtl8139.c` and the card that writes into it | |
| `Net`, `MCNet` | `net.c`: ARP, ping and the answers to both, polled by two processes | `Nic`, `FrameQueue`; `MCNet` also `Packets` |
| `NetProofs` | the ring of the card, pings, `Net` implements `FrameQueue` | `Net`, `TLAPS` |
| `Rtc` | `rtc.c`: what is read for each date the chip may hold | |
| `Trap` | `idt.c`, `gdt.c`, the stubs of `isr.s`, `syscall_dispatch`, `timer_init`: the way into the kernel and back | |
| `Segments` | the descriptors and gates that `gdt.c` and `idt.c` pack, and what the CPU reads in them | |
| `Ata`, `Pci`, `Graphics`, `Region` | computations of `disk.c`, `pci.c`, `graphics.c` and the regions of `memory.c` | |
| `PageTables` | the entries of the tables of `paging.c`, address by address | |
| `Packets` | byte order, checksums and lengths of `netdefs.h`, as `net.c` and `tcp.c` use them | |
| `Words` | the sizes of bytes and words that `Segments` and `Packets` count in | |
| `DeviceProofs` | theorems about `Rtc` and all below it | `TLAPS` |

### ProcTable

A slot keeps `state`, `region` (`null`, `live`, or `freed`: destroyed but still
pointed to), `space`, `blockedOn` and `saved`, the fields of `Process`. `prog`
stands for name and entry point; `is_ring3` is `prog = "user"`. pids are left
out, since a pid in use names one slot. `saved` abstracts the saved `esp` to the
call site at that depth of the stack: two sites stand for two different depths.
`OutOfMemory` is the failure of `region_new`, possible in any creation.

Static storage matters: `proc_create_ring3` marks its slot READY *before* it asks
for an address space and, when there is none, destroys the region and returns an
error without taking the slot back. The slot then keeps whatever `addr_space`
was there. `ProcCreateRing3` says exactly that.

### Irq

Only the timer and the keyboard register handlers. `irr` is what the controller
holds, `pending` is `irq_table[i].pending`, `kb` the number of characters in the
ring (module `Keyboard` has the characters), `iflag` EFLAGS.IF. A top half runs to its end in one step, because it runs
with IF clear on one CPU.

### Sched

`pc` says what the CPU executes: `run` (a program, at the call site `at[cur]`),
`sleep` (between the ring test and the sleep of `kb_getchar`), `halves` and
`wakeup` (two halves of the loop body of `irq_run_bottom_halves`, since an
interrupt may fall between the clearing of `pending` and the wake-up), `scan`,
`hlt`, `asleep`, `dead`. A step is a stretch of kernel code inside which an
interrupt cannot change anything that the stretch reads.

`at[s]` is a history variable of the process: where it really is. `saved[s]` is
where its `esp` says it is. `ContextSwitch` resumes the new process at the value
of `saved` *read by its caller*, which `proc_yield` reads before the old one is
stored: when a process switches to itself the two differ.

`Handover`, `LoadContext`, `NextReady` are the three parts of the loop of
`proc_yield`. `SchedulerRun` is the same loop in `scheduler_run`.

`gopherpy` creates a process of ring 0 that is written like a program of ring 3: it
yields and exits by `int 0x80` (`GopherpyYield`, `GopherpyReturns`,
`GopherpyExit`). The gate clears IF for as long as the process is in
`proc_yield`, and `iret` brings back the IF that the process had, so its two
sites `py_yield` and `py_yield_if` say which of the two its frame holds.

Shell commands that do not create, kill, sleep or yield are `OtherCommand`; it
may set IF, which every lock release does. The editor is one of them: its lines
are read by the `kb_readline` of `shell_main`, the site `readline`, and handed to
it. The commands of a script (`run`) run one call deeper than those that are typed,
which matters for a command that sleeps; they are not modelled (section 8).

### PageStore, PageAlloc and Memory

`used` is `page_bitmap` as a set, `hint` is `next_free_hint`, and a page is its
index; page 0 is reserved (`memory_init`), so 0 is `NULL` everywhere. `FreeRuns`
is one pass of the loop of `page_alloc`, `Candidates` the two passes, `call` the
latest request and its answer, which `PageStore` needs to say what a refusal
means.

`Memory` starts at the first prompt: `kernel_main`, `gopherd` and the shell have
taken `BOOT_PAGES`, of which only the region of `gopherd` can come back. From
there on pages are taken by `proc_create` and `proc_create_ring3` (`Create`), by
`proc_load_elf` and by the first `kmalloc` of a pool, and given back by
`proc_kill` alone; `proc_exit` keeps the region. `load` is the `proc_load_elf`
under way: one step for each `page_alloc` and one way to fail at each of them,
and nothing else runs meanwhile because it does not yield (`~Loading`). Its
other failure, no page directory, takes no page; that `proc_create_ring3` never
meets it is a consequence of `SpacesOwned` (section 5), so `Create` has no such
branch.

The heap counts in units, `PAGE_UNITS` to a page, so that `pool_free`'s search by
range and division by the size of a slot are the model's arithmetic too.
`objects` is what callers have been given; `Kfree` takes such an object, once. A
program may pass any address to `sys_free`; that is not modelled (section 8). Pools are taken in the order of their sizes, and `Kmalloc(p)`
stands for every size for which `p` is the first that fits.

### Paging

`Paging` runs `Memory` and adds to each of its actions what `paging.c` does
beside it. Addresses count in pages, from the first page of the arena up to the
32 MB that the tables cover (`TABLE_PAGES`); `KERNEL_CODE` stands for the shared
code. `frame[h][v]` is the page that stands at address `v` in directory `h` (the
identity, until `paging_map_page` puts another one there), `user[h]` the
addresses with the bit US, which both `grant_in` and `paging_map_page` set. What a
process reaches is `frame` of its `user` addresses (`Reach`). `space[s]` is `addr_space`,
`in_use` the flags of the handles, `loading` the handle of a `proc_load_elf` under
way, and `elf[s]` (auxiliary) the file that slot `s` was loaded from.

A program is a sequence of segments, each a first address and a number of pages.
`MapPages` is the loop of `proc_load_elf` over `paging_map_page`: an address that no
table covers is refused (`Mappable`) and the loop goes on, and an address that an
earlier segment had gets the new page in place of the old. Programs are assumed to lie above
the arena (`LinkedAboveArena`): `user.ld` links them at 16 MB, and nothing in
`proc_load_elf` looks.

A directory keeps its contents when its handle is given back, and `Opened`
(`fill_identity` and the grants of `paging_new_address_space`) rewrites it when
the handle is taken again. `GrantedPages` is the arithmetic of `grant_in`: whole
pages, rounded outwards. `Exit` comes between any two other actions, but not into
a load, which does not yield. `sys_free` closes nothing, since `kfree` does not
know sizes; this is why the pages of the pools stay reachable by who once had an
object there.

### Tcp

`state`, `active_conn`, `recv_buf` and `got_fin` are the static variables of
`tcp.c`; `conn[s]` is the `tcp_conn_t` on the stack of server `s`; `phase[s]` is
the call of `tcp.c` the server is in. `NetPoll` is `tcp_handle_segment`, one
operator for each of its branches, and an action of its own because whoever
polls runs it: the server in its loops, or the shell in `ping`, before, between
and after servers. The loops of the server are bounded, so each may end at any
iteration that has found nothing: `AcceptTimesOut`, `RecvReturnsNothing`,
`CloseReturns`. `tcp_accept` tests the state after each poll, so it cannot give
up an open connection. Between two polls of the server that do not yield nothing
else runs, so the answer, the FIN and the change to CLOSING are one step.

Sequence numbers count from the initial number of their sender, since the code
only adds to them and compares for equality. Payload bytes are records, who sent
them and at which place, so that `ReceivedIsPrefix` can tell them apart. A reply
is a length: `AnswerAndClose` stands for the choice of the menu, file or error,
and cuts the whole of it at `MAX_SEGMENT`; the program cuts each of its
`tcp_send`s so. Acknowledgement numbers and windows of the segments sent are
left out, because the code never reads those it gets.

Clients and network are external. A client connects once, sends its request in
pieces of any size, may close, and hears SYN and FIN. `Wire(c)` is what may
arrive from it: any part of what it has sent, any number of times, in any order,
or not at all. Frames that are malformed, or for another address or port, change
nothing and count as lost.

### FsStore, FsTree, FsDisk and Shell

`files` is the array of `filesystem.c`; a node is a record with the fields of
`fs_node_t`, `Empty` one that does not exist. A path is the sequence of its
components. The operations that `fs_split_parent` begins are walked one component
at a time: `op` is the operation under way, `Enter`, `MakeParent`, `FileInTheWay`
and `NoRoomForParent` are what one component can do, and `Mkdir`, `Rename`,
`Create` (with `Truncate` for a file that exists) and `Refused` what the last one
does. `MakeParent` is why an operation that fails in its last step may have made
directories. `room` is what `shell_region` has left: `Append1` takes the whole new
size for each append and nobody gives any back.

`FsDisk` makes the image a sequence of items (the header, one record for each
node, one for each byte), `SECTOR_ITEMS` to a sector. `WriteSector` is one flush of
`fs_save`: the sector reaches the disk or does not, and `fs_save` goes on either
way. `Load(bad)` is the whole of `fs_load` when sectors from `bad` on cannot be
read: it empties the tree before it looks at the disk, so `LoadRefused` and a load
that stops half way leave what they have. Records read where contents lie, and
contents where records lie, are `Garbled` and `Junk`, because after a save that
failed the disk may hold any mixture of two images.

`Shell` starts from what `kernel_main` and `gopherd_main` make: a text for each of
the programs in the root (`BootPrograms`, five in `kernel.c:118`), then a
directory and a file in it (`BootFiles`). It has `mkdir`, `rmdir`, `rm`, `mv`, `cp`, `cd`, `save`, `load` and a power
failure at any point (`Crash`: memory is as after the boot, the disk is as it
was). `cwd` is a string in the code and a path here: nothing ties it to the node
it named. `ls` and `cat` are the operators `Ls` and `Cat`, which properties use.

`FsStore` says what all this is for: a map from paths to contents that each
command changes in one place, `saved` what the disk holds, `Blank` before the first
save and `Broken` from the first sector of one that does not complete; only a
load from a broken or blank disk, or one that reports an error, may leave the
tree `Damaged`. `tree` and `saved` of `Shell` are history variables: the map that
`TreeOf` reads from the array, and what the disk is known to hold. `MakeFile` of the
store is also what empties a file, and `Extend` what may write only a part.

### Editor

`rows` is `edit_lines` as the code leaves it: `strncpy` writes no terminator when
a line fills the row, so `Text(i)` reads on into the next row, as `strlen` would.
`CmdEdit` reads the file into rows, `AppendLine`, `InsertLine`, `ReplaceLine`,
`DeleteLine` are the commands, `SaveLines` empties the file and appends row by row
through the operations of `FsTree`, each of which may fail unseen.
`meant` is history: the lines as who typed them sees them; `promised` is what the
save under way must write if it has the memory, counted as `fs_append` uses it.

### Terminal, Vga and Keyboard

`TopHalf(code)` is `kb_top_half` for one byte of the controller: shift, ctrl and
the `0xE0` prefix are the state of `decoder`, keys go into `ring` unless it is
full. It may run between any two steps of the shell. `Take` is one iteration of
`kb_readline`: `TypeChar`, `Backspace`, `MoveLeft`, `MoveRight`, `CopyLine`,
`PasteLine`, `EnterLine`, each with its redrawing. `Vga` is a screen as a record with
`Putc`, `Scroll`, `SetCursor`, `StatusLine` and `Clear` as functions; `disturbed` is
history, set when the text scrolls and cleared by `vga_clear`. `redraw_from`
draws from the row and column at which the line began, which no longer holds
after a scroll: the comment of `keyboard.c` accepts that, and `ScreenShowsLine`
says so.

`Terminal` is what the reader of a line is promised: a queue of keys, the line
before and behind the cursor, a clipboard. It has neither ring nor screen.

### FrameQueue, Nic and Net

`Nic` has the card on one side (`records`, `write_at`: what it has written and may
not overwrite; frames without room are dropped without ROK) and the driver on the
other (`rx_offset`, and `capr` that tells the card what was read). `PollRecv` is
`nic_poll_recv`: it reads one record at `rx_offset`, which is `Junk` unless a
record begins exactly there, moves the offset as the code does, and clears ROK
whether or not more records wait. Its branch for a record with a bad status
(`rtl8139.c:132`) is left out: the receive configuration (`rtl8139.c:86`) makes the card
drop damaged frames, and the proof of `NicIsAQueue` shows that the driver always reads
at the beginning of a record.

`Net` has the loops of `net_arp_resolve` and `net_ping` (`ping.phase`, `ping.polls`
their counters), one step for `net_poll` to read a frame (`Poll`) and one to handle
it (`Handle`), by the shell or by a server that polls while the shell is idle or
has yielded, which happens only at every `YIELD_EVERY`-th iteration. `HandleArpReply`
ends a wait only if it is of the address sought, and always caches the gateway.
`HandleEchoReply` compares only the sequence number, as `net.c` does. `wire` are the
requests sent; from them follows what may arrive (`Coming`): the answer of any
request that reached its host, at any later time, any number of times, or never,
and requests of the gateway at any time. Segments of TCP are the frame `Other`.

### Rtc, Trap, Segments, Ata, Pci, Graphics, Region, PageTables, Packets

These have no variables: they compute. A date is written into the registers of
the chip as the chip does it and read as `rtc_read` does it. A trap is a function
from what the CPU has of a program (`context`) to the stack the stub builds, what
the handler does to it, and the way back. The drive's answers are sequences of
status bits, one for each poll. Graphics functions give the set of bytes they
write. A page table is a function from its entries, which `grant_in` and
`paging_map_page` change; the end of a grant is computed in 32 bits. Data of a
packet is a sequence of bytes. What is said of these modules are theorems, for
every date, vector, sector, coordinate, address and size. The sums over a whole
packet are the exception: they fold a sequence, so the assumptions
`SealedDataVerifies` and `SealedSegmentVerifies` of `MCNet`, which TLC evaluates
with the run `net`, check them on all data of up to five bytes over 0, 1 and 255,
with and without an odd byte, and the theorem `FinishedSumVerifies` takes the sum
as given.

## 3. Runs

| Run | Instance | What it shows |
|---|---|---|
| `sched` | 3 slots, 3 directories, ring of 3, every command | all safety properties of the scheduler |
| `live` | 4 slots, 1 directory, `exec`, `ring3demo`, `gopherpy` and `gopherserve`, fair | progress, with ring-3 programs and polling servers |
| `stale_resume` | 2 slots, `demo` | a process that switches to itself, section 6 |
| `memory` | 10 pages, 3 slots, regions of 2, programs of segments <<2, 1>> and <<0>>, pools of two slots and of one | one holder for each page, the heap's bits, what leaks, and the search against `PageStore` |
| `paging` | 7 pages, tables for 9, 3 slots, 3 directories, regions of 2, four programs, one pool | what ring 3 reaches, and who has which directory |
| `tcp` | 1 server that may be killed and started, 2 clients, requests of 3 bytes, buffer of 2, replies of 3 in segments of 2, fair | safety of `Tcp`; the server listens again, data is answered |
| `files` | 4 nodes, all taken at boot, files of 2 bytes, a region of 2, two names, six commands | the tree, and `Shell` against `FsStore` |
| `disk` | 5 nodes, 4 taken at boot, 4 sectors of 2 items, 2 saves, power failures | `save` and `load` against `FsStore` |
| `editor` | 3 rows of length 2, a file of 5 bytes, a region of 14 | what the editor saves |
| `keyboard` | ring of 3, line and clipboard of 3, a screen of 2 rows of 2 columns and the status row | the screen, and `Keyboard` against `Terminal` |
| `net` | a ring of 24 bytes, hosts up and down on either side of the gateway, 2 pings, fair | ARP and ping, and `Nic` against `FrameQueue` |
| `late_frame` | the same | the disagreement about `nic_poll_recv`, section 6 |

**Bounds.** In `sched` the third slot is the one that is created, killed and created again
while the first two hold the two processes of `kernel_main`; with three all pairs
(running, ready, blocked, zombie) meet in one round of the scan, and `exit` and
`kill` make the slots of `gopherd` and of the shell reusable too. One page
directory per slot is the ratio of the program (8 and 8). A ring of 3 holds two
characters, so empty, partly full and full differ. `GOPHERD_TICKS = 1` replaces
three identical yields. `live` has four slots, so that two created
processes share the round robin with the first two. `live` leaves out `demo` and
`ping`, the commands that give up the CPU at another depth of the shell's stack than
`kb_readline`: with them the shell may switch to itself and go on elsewhere, or
end in a panic, as `stale_resume` shows, and then nothing makes progress. Two slots are
enough for that run, since it takes one process and no other. The proofs remove these bounds from all safety
properties.

In `memory` 5 pages are taken at boot and 5 are left for two regions of 2, an
image of 3 and two pools of 1: no two of the three kinds of blocks fit together
with everything else, so every request is both granted and refused, the killed
`gopherd` leaves a hole below the hint that is smaller or larger than the next
request, and pools end up on either side of a region and next to each other. The
empty segment is the request for no pages, which `page_alloc` refuses. The proofs
remove the bounds, except from the arithmetic of the heap.

In `paging` 4 pages are free after boot: a program takes all of them, two
processes without images too, and what is left after either is a pool. Two addresses
lie above the arena below the last table: one program fills both with two segments,
one begins at the second and goes on beyond the tables, in one both segments are at
the first, and one has an empty segment. Every page
and every directory is therefore used for something else later, which is what
`ReachesOnlyItsOwn` is about. A page holds two units, so an object may begin in its
middle.

In `tcp` the second client is the stranger whose segments must not count; a third
adds nothing, since one connection has one peer. A request one byte longer than
`recv_buf` fills it, overflows it and cuts a segment in two; `RECV_MAX = 1`
leaves bytes behind in `recv_buf`; a reply one byte longer than a segment takes
two. Kills happen in every phase, with `NetPoll` before the next start. The
proofs remove the bounds, except from the numbering of replies.

In `files` the root, a program, the directory and its file fill the table, so that
something is removed before anything new is made. Every creation finds the table
full, with one slot free and with several, `MakeParent` takes the last one under the
operation that needed it, and a slot is reused for a node of the other kind. A directory can move below the other, below itself and into
itself. In `disk` an image takes two to four sectors, so that the power can fail, or
a write, before, between and after those with the records and those with the
contents, and a second image can be shorter or longer than the first.

In `editor` a line of two characters fills its row and runs into the next; three
rows are what an insertion or a deletion in the middle needs to go wrong; a file of
one line can be saved again and again until the region is used up, one of two once,
and one of three fits neither the region nor a file. In `keyboard` the prompt and
one character fill a row of the screen, a second one goes on in the next, and
`enter` at the bottom scrolls; a paste of two characters fits, is cut, or does not fit
at all; the ring of 3 is filled before the shell comes to it.

In `net` a ring of 24 bytes holds two frames, one of them long, before it is full;
both lengths need rounding, records begin at every multiple of four, and one that
begins near the end of the ring runs past it. `CAPR_MOD` is a multiple of the ring, as in
the card. One poll for ARP and two for ping, with a yield before each, let an
answer arrive in the last iteration, after it, and during the second ping; the two
pings may be to the same host, to different ones, and to hosts that are not
there, and the gateway is resolved by the first or still not known in the second.

`CHECK_DEADLOCK FALSE` in the runs where the system may stop by design: in `sched`
the scheduler prints "Sistema detenido" once every process has exited; in `files`
everything can be removed, and with the region used up nothing more can be
written; an `editor` session whose array and file are full, and a `net` that has
used its two pings, may have nothing left to do.

**Fairness.** In `Sched`, `WF` of the kernel's own code: a CPU does not stop. `SF` of each
interrupt: an interrupt is taken at the first instruction boundary with IF set,
so one that is deliverable again and again is delivered. `WF` of the timer's
tick. `ping` polls a bounded number of times, hence `SF` of its end. Two
assumptions are about the world: the shell sometimes finds the ring empty
(people type slower than the shell reads), and a ring-3 program sometimes
yields, exits or faults, without which a cooperative scheduler promises nothing.
In `tcp` only the servers are fair (`WF` of `Server(s)`): their loops are
bounded, and `live` shows that a process that yields runs again. In `net`
a call of `net_poll` returns (`WF` of `Handle` and `ServerReturns`), the loops of the
shell go on (`WF` of what follows a poll), and the shell gets the CPU back from each
`proc_yield` though the server may poll whenever it has (`SF` of `ShellPolls`, which
is `ReadyRuns` of the scheduler). Nothing is assumed of clients, hosts or network.

## 4. Properties

* `CurrentIsRunning`: at most one process is RUNNING and it is `current`, the
  one whose code executes; `proc_kill` relies on it to refuse killing itself.
* `SpaceOwnership`: live ring-3 processes and directories in use correspond one
  to one, through exits, faults, kills and failed creations.
* `LiveStacks`: whoever can run, and the process whose stack the scheduler
  borrows, has a region that was not freed.
* `ProtectedContext`: ring-3 code runs in its own directory, with its own kernel
  stack in the TSS and with interrupts enabled.
* `LoadedSpaceIsNotReused`: the directory in CR3 is not given to a new process,
  though an exited process keeps running in the one it has given back.
* `SavedIsWhereItStopped`: the saved `esp` of every process off the CPU is
  that of the place where it stopped.
* `NoLostWakeup`: a process asleep with characters in the ring has its wake-up
  pending or under way, whatever interrupt fell between test and sleep.
* `KeyTaken`, `ShellGetsKey`, `ReadyRuns`: keyboard interrupts are taken, a key
  reaches the shell, nobody starves. `KeyTaken` has one exception, a polling
  server that was handed the CPU with IF clear (`DeafServer`, section 6).
* `ResumesWhereItStopped`: no switch changes where a process is. The program does not
  have this property: `stale_resume` refutes it.

* `NoPageTwice`: regions, images, pools and the kernel's own pages never overlap
  and are marked as used.
* `HeapMatchesObjects`: the used bits of each pool are its live objects, though
  `kfree` is told only an address.
* `OnlyImagesLeak`: whatever stays marked as used without a holder was part of an
  image or of a load; failed creations, kills and refused pools lose nothing.
* `ImplementsPageStore`: hint and second pass never hide a free run nor grant one
  that is taken or leaves the arena.

* `ReceivedIsPrefix`: what a server has taken and what waits in `recv_buf` is,
  until a FIN, the beginning of what its peer sent: no holes, no repetitions, no
  bytes of others, with a handshake's leftovers and other clients on the wire.
* `PhaseMatchesState`: whatever process polled, each call of the server finds
  the state it relies on, and reads only from an open connection of its own.
* `EstablishedByBoth`: a connection the server accepts has completed the
  handshake at the client.
* `ReplyIsOneStream`: SYN, reply and FIN are numbered without gap or overlap, over
  restarts of the server and second connections to the same client.
* `ListensAgain`, `DataIsAnswered`: lost segments and silent clients cost the
  bounded loops and no more; data that arrived is answered.

* `ReachesOnlyItsOwn`: through loads that fail, kills, exits, and handles and pages
  used before, a ring-3 process reaches its region, its image, pages of the pools
  and the kernel's code, and nothing else. Pages of the pools are excepted because a
  grant covers whole pages and two processes have objects in one, a limitation
  that `syscall.c:95` states.
* `ReachesAllItsOwn`: and it never faults on its own stack, nor on its program if the
  segments of that lie below 32 MB and share no page (`Linked`).
* `HandlesHaveOwners`: the directories in use are those of live programs and of the
  load under way, so a slot that is free finds a directory that is free.

* `ListedEntriesOpen`: what `ls` lists can be opened under that name, and has the
  size that is listed: no entry hides another one of its name.
* `OnlyRenameIntoItselfDetaches`: only `mv` of a directory into itself, or below
  itself, takes nodes out of the tree (section 6); no other sequence of commands does.
* `ImplementsStore`: the array of nodes and the sectors behave as a map from paths to
  contents with a copy on disk, whatever fails: a command changes one place, and
  `load` brings back what the last `save` that completed wrote, or reports that it
  cannot, or finds an image that a save had left broken.
* `FailedLoadLeavesAPart`: what a failed load of a whole image leaves has no path
  that the image did not have and no contents mixed up.
* `SavedIsMeant`: the file has the lines that were typed, inserted, replaced and
  kept, as long as every line is shorter than a row and the memory suffices.

* `ScreenShowsLine`: until the text scrolls under it, the screen shows the line
  from where it began, nothing of an older one behind it, and the cursor in place.
* `StatusRowIsKept`: no output, wrap or scroll touches the row of the status bar.
* `ImplementsTerminal`: scan codes, ring, interrupts, buffers and clipboard together
  are a queue of keys and a line with a cursor.

* `PingTellsTheTruth`: a success is reported only if this ping reached its host,
  whatever answers of other pings and hosts come late or twice.
* `EchoesGoTheRightWay`: a ping goes to its host or to the gateway, never to the
  station whose ARP reply came meanwhile.
* `ImplementsFrameQueue`: card and driver agree where records begin, through
  alignment, wrapping and overflow.
* `PingEnds`: the shell gets its prompt back, whatever comes or does not.
* `WaitingFrameIsReturned`: the statement of `rtl8139.h:12` that `late_frame` refutes.

The properties of `Tcp` need two assumptions: `OneServer`, since a second
`gopherserve` is not refused (section 6), and `DistinctPorts`, since the code
recognizes a peer by its port alone (`tcp.c:103`), so two hosts that happen to
use the same port are one to it.

## 5. Proofs

Proved by TLAPS for every `MAX_PROCESSES >= 2`, `MAX_ADDR_SPACES`, `RING_SIZE >= 2`,
`GOPHERD_TICKS >= 1` and every set of commands (the assumptions `TableSizes`,
`RingHasRoom` and `ProgramConstants`):

| Theorem | Property | Needs |
|---|---|---|
| `TypeCorrect` | `TypeOK` | `HasCurrent`: `cur` is a slot except at boot |
| `OneRuns` | `CurrentIsRunning` | inductive with the types |
| `ContextsKept` | `SavedIsWhereItStopped` | a slot that is not in use is at its entry, so a reused one starts there |
| `WakeupsKept` | `NoLostWakeup` | only the keyboard event puts processes to sleep; the step from `sleep` finds the ring empty or the line pending |
| `LoadedSpaceKept` | `LoadedSpaceIsNotReused` | which site belongs to which program; when ring-0 code creates a process CR3 holds the kernel's directory |
| `SpacesOwned`, `StacksLive`, `Ring3Protected` | `SpaceOwnership`, `LiveStacks`, `ProtectedContext` | `EnoughSpaces`: as many directories as slots |

The argument goes in layers (`Inv1` to `Inv5`), each proved with the ones below
as hypotheses: first types and who is current, then the contexts, the sleepers,
the CPU's address space, and last ownership. The last layer needs a pigeonhole
lemma (`FreeSlotFreeSpace`): every directory in use belongs to a live process, a
free slot leaves fewer than `MAX_PROCESSES` of those, so with at least as many
directories a free one exists and the half-way failure of `proc_create_ring3`
is unreachable. With fewer it is reachable and `SpaceOwnership` fails, which is
why the three theorems carry the assumption (it is true of the program, 8 and 8).

`MemoryProofs` needs only `ArenaSize` and `MemorySizes` (sizes are positive, what
is taken at boot fits and contains the region of `gopherd`):

| Theorem | Property | Needs |
|---|---|---|
| `MemoryTyped` | `TypeOK` (of `Memory`; no run lists it) | a candidate run ends inside the arena (`GrantedRun`) |
| `PagesHaveOneHolder` | `NoPageTwice` | `SlotsOwnTheirRegions`: a slot that is free, or being loaded, has neither region nor image, and one that is taken has its region |
| `OnlyImagesAreLost` | `OnlyImagesLeak` | the same invariant: a region or pool is only ever replaced when it is `NULL` |
| `SearchImplementsPageStore` | `ImplementsPageStore` | page 0 belongs to the kernel, so a kill frees pages in use and never page 0 |
| `HeapIsItsObjects` | `HeapMatchesObjects` | `HeapInv`: a bit is a slot that the pool has, and a pool without pages has no bit |

`NoPageTwice` is not inductive alone: `proc_kill` frees the pages its slot points
to, which is harmless only if the pointer is not stale. `OneGrant` is the common
part of all steps that take pages: a free block goes to one holder, the others
keep or lose what they had. `LoadRegion` and `Kill`, which move or free pages,
have their own cases. The only use of the search in these proofs is
`GrantedRun` and `RefusedRun`, the two facts `PageStore` states.

The heap's proof follows `pool_free` backwards: the object given back lies in one
pool only, because a slot ends inside its pool and pools hold disjoint pages
(`NoPageTwice`), and the division by the size of a slot finds the very index that
`pool_alloc` had multiplied (`FreeFindsSlot`).

`PagingProofs` needs, beside the constants of `Memory`, `EnoughSpaces`,
`TablesCoverArena` (the arena lies below 32 MB) and `LinkedAboveArena` (no program is
linked into the arena):

| Theorem | Property | Needs |
|---|---|---|
| `NothingElseIsReached` | `ReachesOnlyItsOwn` | `SpaceInv`: types, `SpacesOwned` and `Contents` |
| `AllItsOwnIsReached` | `ReachesAllItsOwn` | the same; for a program that is `Linked`, `Contents` says where each page of its image stands (`SegmentShown`) |
| `HandlesAreOwned` | `HandlesHaveOwners` | the same, and a pigeonhole: a program starts only in a slot that is free, so fewer handles than slots are in use |

`Contents` says of the directory of every process what it opens, its region, its image and
beyond these at most pages of the pools and the shared code (`Sees`), that the
addresses of the arena keep the identity map, and, if the program is `Linked`, that every page
of the image stands at an open address above (`Shows`); of the directory of a load, the same for the
pages taken so far and with no region, and that the addresses of the segments still to come are
untouched by those before (`StandsClear`). It is inductive because a directory is rewritten whole when its
handle is taken (`Opened`), rights and frames. `PagingRunsMemory` shows that each step of
`Paging` is one of `Memory`, so that everything proved of `Memory` holds here too.

`TcpProofs` needs `TcpConstants` (sizes are positive, nobody is a client or a
server):

| Theorem | Property | Needs |
|---|---|---|
| `TcpTyped` | `TypeOK` | `HasConn`: unless the state is CLOSED there is a connection; `CopiedFits`: what is copied fits in `recv_buf` |
| `PhasesMatch` | `PhaseMatchesState` | `OneServer`; `OpenIsConnected` |
| `HandshakesComplete` | `EstablishedByBoth` | `DistinctPorts`; `SendersConnected`: only a client that heard the SYN sends data |
| `StreamKept` | `ReceivedIsPrefix` | both, and the invariants above |
| `ReplyKept` | `ReplyIsOneStream` | `OneServer`; `ReplyInv`: until the reply is sent only the SYN has been counted, and the FIN is sent after segments that cover the reply |

`ReceivedIsPrefix` is not inductive: nothing in it says which byte comes next.
`Expecting` adds that `peer_seq` is one more than the bytes in `recv_buf` while
the connection is open, or `recv_buf` is full, when `tcp.c` acknowledges bytes it
drops and never copies again: the stream is cut short and stays a prefix. It
also says that nothing is in `recv_buf` before the handshake ends and nothing is
taken before the reply, which needs `PhasesMatch`. `CopyContinues` is the step of
`HandleData` on sequences, `TakenAndLeft` that of `tcp_recv`. The two
assumptions are hypotheses of the theorems, and both are needed: with two servers
TLC finds `PhaseMatchesState` and `ReceivedIsPrefix` violated, and
the mutant of `ForConnection` shows what equal ports do. In
`ReplyKept` the cuts of a reply are multiples of a constant; `BeginsAt` (which
segment holds a byte) is all the arithmetic they need.

`NetProofs` needs `NicSizes` (the size of the ring is a multiple of four and divides the
range of `CAPR`), `NetConstants`, `FramesAreFrames` (`NoFrame` is not a frame) and
`NumbersDoNotRepeat`: fewer than 2^16 pings. A reply is told from others by the 16
bits of its number alone, and after 65536 pings a late answer would pass for another's:

| Theorem | Property | Needs |
|---|---|---|
| `NicIsAQueue` | `ImplementsFrameQueue` | `RingInv`: the records lie one after the other from where the driver reads to where the card writes, without overlap, though the ring turns round |
| `PingTruth` | `PingTellsTheTruth` | `NetInv`: what is in the ring or being handled is a frame that can have come, each number names one request, and a reply that was taken is to the request of this ping |
| `EchoRoutes` | `EchoesGoTheRightWay` | `NetInv`; `ResolvesTheHop`: the resolution under way is for the next hop of the ping, and takes the address of no other host |

`RingInv` is the heart: driver and card each compute where the next record begins, from
a length and a rounding, modulo the ring, and share nothing but `CAPR`. Distances are measured from the driver's offset (`Ahead`), where
they do not wrap; the lemmas on `%` move them along when it advances.

`KeyboardProofs` needs `KeyboardSizes`, `ScreenSizes`, `KeysAreDistinct` (the tables of
`keyboard.c` give none of the `KB_` codes, and a new line for Enter only) and
`TextsArePrinted` (what the shell prints is made of characters and new lines):

| Theorem | Property | Needs |
|---|---|---|
| `StatusRow` | `StatusRowIsKept` | `ScreenInv` |
| `LineIsOnScreen` | `ScreenShowsLine` | `ScreenInv`: unless the text scrolled under the line, it ends inside the text area, and every cell from its beginning on is that of the line or blank |
| `KeyboardIsTerminal` | `ImplementsTerminal` | `TypeInv`; the ring of 256 bytes is a queue (`QueuePushed`, `QueueTaken`), and each key does to the arrays what `Terminal` does to its two sequences |

An edit of `kb_readline` redraws from the index it changed, blanks the one cell that a
shorter line leaves over and puts the cursor back; the proof shows that this is
enough, row after row, and that a redraw which scrolls is known as `disturbed`.
`vga_putc` is followed one character at a time by `Puts`, a recursive function;
what it does for every text is proved by the least counterexample (`Smallest`: a set of
numbers that is not empty has a smallest one).

`ShellProofs` needs `FsSizes`, `ArgsAreNames` and `BootIsMade`, which is true of `kernel.c`:
any number of programs in the root, with names of their own, then a directory and a
file in it, none of them empty or longer than a file may be, and a node for each:

| Theorem | Property | Needs |
|---|---|---|
| `EntriesOpen` | `ListedEntriesOpen` | no `load` among the commands; `Sound`: no directory has two entries of one name, the size of a node is that of its contents, every node but the root names a directory as its parent; `Current`: what the operation under way holds is still there |

Every operation of `filesystem.c` writes one slot of the array, so `PutSound` says once
when such a write keeps `Sound`: the name must be free where the node goes, and what
has children must stay a directory. `fs_split_parent` looks for the name and adds it in two
steps, and may itself have made the directories between; `FreeName` ties the search
that failed to the names that are there. `Current` is needed because `fs_create` hands
an index to `fs_append`, and `fs_rename` resolves its first path before it walks, and makes
directories on, the second. `ResolveChild` (one component more is one search more) is
proved of the recursive function for paths of every length, by a walk that disagrees
with it first at a least index. After a `load` of a broken image the property may fail,
since `fs_load` takes names and parents as they are on the disk; this is why the theorem
leaves `load` out, and why the run `disk` does not list the property.

The other module of proofs, `DeviceProofs`, is about computations, for all arguments:

| Theorem | Says |
|---|---|
| `ReadsTheDate` | `rtc_read` returns the date of the registers in every mode of the chip, except for the hours of noon and midnight of a 12-hour chip and centuries the chip does not keep |
| `NoonAndMidnightAreSwapped` | those two hours are read as each other |
| `AgreedPassIsOfOneSecond` | two passes over the registers whose seconds agree, less than a minute apart, are of one second: nothing is torn by a carry |
| `InterruptIsInvisible` | an interrupt leaves registers, flags and stack of the code it stopped as they were, from either ring and on every line |
| `SyscallReturns` | a system call finds its number and arguments and changes `eax` only |
| `FaultEndsTheProcess` | a fault of ring 3 goes on at `kernel_reap_current_process` on the kernel stack of its process, on every vector whose stub and CPU agree about the error code |
| `FourStubsMisplaceTheFrame` | on four vectors they do not agree, and the handler reads the selector from the wrong word |
| `OnlyTheSystemCallGate` | `int n` of a ring-3 program reaches gate 0x80 and no other |
| `EveryLineIsItsOwn` | each line reaches its handler, and the controllers it came through, and no others, are told |
| `AnErrorCanBeACount` | what `read` and `write` return for a bad descriptor they also return for one byte |
| `IoctlAnswers` | `ioctl` gives 0 for what it did and an error for an unknown request or a clock without a place |
| `TimerKeepsTheRate` | from 19 Hz on the timer gets the divisor of the rate, below it loses the upper bits; the kernel asks for 100 Hz |
| `DescriptorsKeepBaseAndLimit`, `SelectorsAreInTheTable` | the CPU reads the base and the limit that were packed, the flat segments cover 4 GB, and every selector in use is in the table |
| `NoPortForRing3` | no I/O port is open to ring 3 |
| `GatesLeadToTheirStubs` | a gate leads to its stub, clears IF, and may be used by `int` from the level `Trap` has for it |
| `TheDriveIsToldTheSector` | the registers name the sector asked for, for all of 28 bits |
| `AnEmptyPlaceIsNoDisk` | `disk_init` takes neither zeros nor a floating bus for a drive |
| `WriteSucceedsUnderAnError` | `disk_write_sector` may return true though the drive reports an error |
| `RegistersAreToldApart`, `FindsTheFirst`, `MasteringKeepsTheRest` | PCI: addresses are one to one, the search finds the first card, bus mastering sets its bits only |
| `DrawingStaysInTheFrame`, `RectIsClipped`, `ModeTakesEffect` | drawing writes inside the frame or nowhere, a rectangle where it meets the screen, a change of mode takes effect from any state of the lock |
| `GrantOpensThePagesOfTheRange` | a grant of at least a byte, below 4 GB, opens exactly the pages that hold a byte of the range, and moves none |
| `NewTablesOpenTheSharedCode` | a new directory maps every address to itself and opens the shared code and nothing else |
| `MapMovesOnePage` | `paging_map_page` moves the page of one address, with the rights asked for, and no other |
| `SwapsHalfWords`, `SwapsWords` | `HTONS` and `HTONL` store the high byte first, `NTOHS` and `NTOHL` give the value back |
| `TwoRoundsFold`, `FinishedSumVerifies` | the loop that folds a sum runs at most twice, and a sum completed by its checksum is 0 modulo 65535 |
| `PacketsFitTheWire` | what is sent is refused nowhere and is a legal frame, whatever length is asked for |
| `RegionHoldsWhatWasAsked`, `BlocksAreApart` | a region has the room asked for, its blocks are disjoint and inside it, for every size that does not wrap |

`ReadsTheDate` splits by mode and reduces each field to one lemma on BCD.
`AgreedPassIsOfOneSecond` rests on the length of a minute: in less, an equal value
of the seconds means the same second. The theorems on traps follow the words of
the stack through the stub, the handler and the way back. `SectorsWrapAround`, beside
`TheDriveIsToldTheSector`, says what happens above 28 bits; no caller gets there.

Model-checked only: liveness, whose argument needs fairness and `ENABLED`; and the rest of `Shell` and `Editor`: `OnlyRenameIntoItselfDetaches`,
`FailedLoadLeavesAPart`, `ImplementsStore`, `SavedIsMeant`. The prover has no induction over
data; a recursive definition is followed by least counterexamples, as `Puts` and
`Resolve` are here, and what these properties say of whole trees and images needs more of them.

## 6. Where code and text disagree

* **A frame may wait for the next one** (run `late_frame`). `rtl8139.h:12` says
  of `nic_poll_recv` that it returns a packet if one waits; it clears ROK after one
  packet even when more are in the ring, and the next call returns 0 until yet
  another frame arrives (`rtl8139.c:150`). `PingEnds` and `PingTellsTheTruth` hold
  all the same: the waits are bounded, and the answer counts as not come.
* **A process that switches to itself resumes in the past** (run `stale_resume`).
  `proc_yield` passes `current->esp` to `context_switch` by value (`process.c:473`); if `prev` is
  `current`, the value is older than the one `context_switch` is about to store.
  It takes a process that blocked and is the first READY one again before any
  other ran, at another depth of its stack than the last time. In the run `gopherd` has exited, the shell has
  slept once in `kb_readline`, and `demo` waits for a key in `kb_getchar`
  (`shell.c:416`, "bloquea (via proc_sleep_on) hasta la proxima tecla"): the key resumes the shell in
  the frame of `kb_readline`. At an equal depth, which is what a shell that only reads lines
  has, old and new frame are one and nothing is seen. `kernel/process.c:328-331` returns
  in this case, so the test was there once. `README.md:494-503` met the symptom in a first
  version of the editor, which read lines one call deeper, and calls it "una
  interacción real entre el optimizador de GCC y nuestro `context_switch()`" and "no
  un error de lógica".

The next ones are shown by a small change of an instance. The module states the
property and no run lists it:

* **An interrupt can be slept over** (`SleepsWithNothingPending` of `Sched`,
  `Commands = {}`). The comment at `process.c:494` trusts `sti; hlt` to be atomic;
  interrupts are enabled already for a ring-0 process, so one may be taken after
  `irq_run_bottom_halves` has looked at its line and before `hlt`. The next timer
  tick repairs it.
* **IF leaks from a system call** (`KeyTaken` of `Sched` without its exception `DeafServer`,
  with `live.cfg`). `sys_exit` and `sys_yield` reach
  `proc_yield` inside the gate with IF clear, and `context_switch` does not save
  EFLAGS. A ring-0 server that takes no lock and never goes idle then polls with
  interrupts off for ever, and the keyboard is dead.
* **A page that is refused is not missed** (`SegmentsAreMapped` of `Paging`, with `paging.cfg`). `README.md:558-561`
  says that `proc_load_elf` maps each segment in the space of the process;
  `paging_map_page` returns false beyond 32 MB (`paging.c:171`), the result is not looked at
  (`process.c:286`), and the program starts without the page. Two segments that share a
  page lose the first one's copy of it in the same way. No page of anybody else is
  opened by either (`ReachesOnlyItsOwn`).
* **Every program that ran loses its pages** (`LeaksOnlyOnErrorPath` of `Memory`,
  with `memory.cfg`). The README of the kernel calls the leak of `proc_load_elf` a
  matter of its error path (`README.md:957`); `proc_exit` and `proc_kill` drop the page
  directory and the region, and nobody frees the `PT_LOAD` pages of a program that
  loaded well.
* **Any ACK ends a closing connection** (`ClosedByBoth` of `Tcp`, one client).
  `README.md:355` promises a close with FIN and ACK; an ACK that was sent before the
  FIN is enough, and the FIN of the client then meets LISTEN and is ignored.
  `README.md:374-380` describes later connections that fail and suspects the NAT of
  QEMU; the client that waits for ever for the ACK of its FIN is a candidate in the
  code.
* **A directory can be moved into itself** (`NodesFormATree` of `Shell`, with
  `files.cfg`). `fs_rename` sets the parent without a look at the way up
  (`filesystem.c:293`): the nodes below are then on no path, and their slots are not free before a load or a restart,
  though the comment of the module calls the nodes a tree.
* **With fewer directories than slots** `SpaceOwnership` of `Sched` fails, because
  `proc_create_ring3` marks its slot READY before it asks for a directory. The program
  has as many of both, 8.

Five are theorems:

* `NoonAndMidnightAreSwapped`: `rtc.c:67` adds 12 to the hour of an afternoon and takes
  the remainder by 24, so that 12 PM is read as 0 and 12 AM stays 12.
* `FourStubsMisplaceTheFrame`: the stubs at `isr.s:75,79,87,88` (vectors 17, 21, 29, 30)
  push an error code though the CPU has pushed one.
* `AnErrorCanBeACount`: `gopheros_abi.h:66-67` says that a result is 0, or a negative
  number as `uint` if something failed; the errors of `types.h:14` are positive, and
  `read` and `write` return counts.
* `SecondControllerStaysShut`: `irq_register` opens its own line only (`idt.c:49`), not
  the one through which the second controller reports, so that a handler of the lines
  8 to 15 would never run unless line 2 had one too; none is registered today.
* `WriteSucceedsUnderAnError`: `disk.c:140` does not look at the outcome of the flush.

Four more were met while modelling `tcp.c` and have no run of their own, since the
model says them plainly. `HandleFin` believes a FIN at any sequence number, over
data that never came, though `tcp.h:11` calls `peer_seq` the next byte expected.
`RecvReturns` takes what the first segment brought for the whole selector.
`Listen` does not ask whether another server serves, though `README.md:354`
promises one connection at a time. `Kill` leaves `active_conn` pointing to the
freed stack, where `NetPoll` then writes.

## 7. What could come next

1. More proofs about `Shell`, from `Sound` and `Current`: `ImplementsStore`, which needs
   that `op.dir` is where the components followed so far lead and that a node is on one path
   only, then `OnlyRenameIntoItselfDetaches`; `SavedIsMeant` of `Editor`.
2. `Paging` with a program that frees an object twice or frees what it never had.
3. What `NetPoll` overwrites after a kill: `Tcp` over the pages of `Memory`.
4. An abstract scheduler (a set of ready processes and one running) that `Sched`
   implements.

## 8. Not modelled

* **Shell**: splitting a line into words, `run` and its scripts (the commands of a script
  run one call deeper than typed ones, and a script that runs a
  script uses the stack of the shell without a bound), commands that only print.
* **Paging**: programs linked into the arena, where a segment would take the place of the
  identity map of somebody's page, and segments that wrap around the end of the 4 GB
  (`process.c:269`); writable and read-only pages are told apart in `PageTables` only.
* **File system**: names longer than a node holds, and the termination of
  `join_path`; names are model values.
* **System calls**: pointers passed by programs are not followed; `sys_free` gets an
  address the heap had given, once.
* **Network**: the fields of the headers but for their lengths, the waits and the four descriptors of `nic_send`, the
  registers of the reset, records with a bad status (section 2), pings of one's own address, a machine without a card.
* **TCP**: acknowledgement numbers and windows, which the code does not read.
* **Display**: colours, the text of the status bar, numbers, the copy to the serial
  port; the text of a panic.
* **Strings, result types, serial port**: no state that a property could relate.
  `strncpy` without a terminator is modelled where it matters, in `Editor`.
* **User programs** are external: any system call, and a fault, at any time. The
  blobs are generated, `longmode_test.s` is a stand-alone experiment, and
  `src/kernel/` an older copy (see the beginning).
