# RealNetOS in TLA+

RealNetOS is a bare-metal operating system for AArch64 (QEMU `virt`, Raspberry Pi 4):
a kernel shell, threads with a cooperative priority and deadline scheduler, messages
and signals between them, a VFS with a FAT32 driver over an SD card, and the beginnings
of a TCP/IP stack over the GENET Ethernet controller. This directory holds TLA+ models
of it, what TLC checks about them, and what the TLA+ proof system proves.

All source paths below are relative to the repository. `PROJECT.json` lists the runs,
the line of source behind every definition, the hazards the properties are for, the
mutants that show each property can fail, and the proved theorems.

## 1. Inventory

| Component | State it keeps | Operations | Hard because |
|---|---|---|---|
| FAT32 driver, `fs/fat32.c` | on the card: the FAT, directory and data clusters; in memory: one node per open file or directory | lookup, create, mkdir, write, unlink, read, readdir, mount | each command is many sector writes; power may fail, and a write may fail, between any two; one allocation can follow another inside a command |
| VFS, `fs/vfs.c` | the mounted file system, the root vnode | path walk, open, create, mkdir, unlink, list, read, write | `..` is resolved from a remembered parent |
| Kernel shell, `kernel/ksh.c` | a line buffer; deadline and misses of a demo | ls, cat, write, mkdir, rm, rt demos | reports success or failure of everything above; the demos use ticks read before the work |
| Simulated SD card, `block/sd_qemu.c` | a disk image | read and write a sector | the FAT describes more clusters than the device has |
| SDHCI driver, `block/sd_rpi.c` | the address and the kind of the card; controller registers | init, read and write a sector | the card goes on after the driver has given up: late data, late stores, lines left busy; one retry over what the first attempt left |
| Threads and scheduler, `kernel/threads.c`, `kernel/timer.c` | `threads[]`, `current`, `last_scheduled`, `system_ticks` | schedule, update_deadlines, sleep, yield | priority, deadline, round robin, waking and blocking meet in one scan, which one call may run twice |
| Messages, `send`/`receive` in `kernel/threads.c` | a ring of slots per thread | send, receive | a lost wake-up; a full ring; the wrap-around |
| System calls and signals, `kernel/syscall.c`, `kernel/main.c`, `boot/exception_vector.S` | pending signal, handlers, `user_entry`, `saved_pc`, the saved registers | SVC entry, dispatch to EL0, signal, kill, return from signal | handlers interrupt each other; the scheduler may switch threads inside a call |
| User programs, `user/`, `kernel/user1.S`, `kernel/user2.S` | registers | the calls above | any order of calls |
| TCP/IP, `net/` | connection state, sequence numbers, one receive buffer each for TCP and UDP | connect, listen, send, close, segment input | lost, repeated and late segments |
| GENET, packet queue, DMA pool, `kernel/genet.c`, `net/packet_queue.c`, `net/dma.c` | descriptor rings, a packet ring, a buffer table | send, receive, push, pop, alloc, free | the device runs concurrently; rings at their limit |
| Memory, `kernel/page.c`, `kernel/mem.c` | a page bitmap; a heap pointer | alloc_page, free_page, kmalloc | exhaustion |
| Console, `kernel/uart.c`, `kernel/fb.c` and the loop of `kernel/ksh.c` | the character the UART holds, the screen and its cursor, the line | type, rub out, enter, print | a line may be longer than a row, and the screen scrolls under it; what is typed while a command runs is mostly lost |
| Boot, `lib.c` | device registers | set-up | - |

How they meet. The boot code mounts the card and enters `schedule_from_el0`, which picks
a thread and either calls it (the kernel shell) or returns to EL0 in it. A user program
comes back only through SVC: `el0_sync_handler` saves its registers, calls
`syscall_dispatcher`, stores the result and calls `schedule_from_el0` again. Interrupts
are masked throughout. Calls on messages, sleeping and signals change `threads[]`; the
TCP calls change the one connection. The shell calls the VFS, the VFS the FAT32 driver,
the driver the block device; the file system has one user at a time.

In the table that `init_threads` builds, only the kernel shell is active, and its entry
never returns. The user threads are compiled in, with `active = 0`; the models take the
set of active threads as a parameter (`Tables`), so that they speak of every build that
turns some of them on.

What makes each part correct:

- *FAT32*: the FAT is sound after any prefix of any command; an entry is there or not,
  never in between; a directory shows its entries, each under a name of its own; what a file holds changes only through writes to it; no cluster is
  lost without a fault; a command ends, and what it reports is so.
- *Scheduler*: the most urgent runnable thread runs; sleepers wake; peers take turns.
- *Messages*: bounded first-in first-out queues; nobody waits with a message to read.
- *Signals*: a handler has somewhere to return to.
- *TCP*: nothing is acknowledged that was not sent; a connection ends when its other
  end closes it; data is taken in order.
- *Rings and queues*: nothing lost, doubled or overtaken; driver and controller agree on
  where they are.
- *SDHCI driver*: what it reports is so; a write that failed does not come back later; a
  call ends, and a fault of one call does not spoil the next.
- *IP and UDP*: what one machine sends another one takes.
- *Console*: the user sees the line the shell will take; the cursor stays on the screen.

## 2. Plan

1. `Fat32`, `Fat32Props`, `FileTree` - the driver with its faults, the abstract tree it
   implements. Done.
2. `Mailbox`, `Kernel`, `KernelProps`, `Channels` - threads, messages, signals, the
   abstract queues. Done.
3. Proofs for both: `Fat32Proofs`, `Fat32TreeProofs`, `KernelProofs`. Done:
   every safety property and both refinements are proved.
4. `Tcp`, `TcpProps`, `TcpProofs` - several hosts with `net/tcp.c` over a network that loses, repeats
   and reorders segments. Done; an abstract connection for it to implement is left.
5. `PacketPath`, `PacketProps`, `PacketProofs` - the GENET rings with the controller as an actor of its
   own, the packet queues and their threads, against `Channels`. Done; the table of DMA
   buffers and the page bitmap, which nothing calls, are left.
6. `SdCard`, `SdHost`, `SdProps`, `BlockDevice`, `SdProofs` - the SDHCI driver with a card that
   answers late or not at all, and the block device it implements. Done.
7. `Ip`, `IpProofs` - header, checksum, UDP and the ways of a frame between machines that
   run this code. Done; with it goes a finding, so there is nothing to compose `Tcp` with.
8. `Fat32`: reading and listing. Done.
9. `Console`, `ConsoleProofs` - UART, screen, line editor and the timing demos. Done: every
   invariant and action property of every run is proved now.
10. Modelling left: a sector of the FAT that cannot be read (`fat_read_entry` answers 0, which
   means free); 8.3 names that two different names map to.

## 3. The file system

### Model

`Fat32.tla` models `fs/fat32.c` below the shell and above the device. Variables `fat` and
`disk` are the card: the table and the data clusters. Everything else is a local variable
or a vnode of the running command: `op`, `nm` the command and its name; `dir`, `up` the
directory `vfs_walk` has reached and its `parent_cluster`; `cur` the cluster a loop has
reached; `ent` the place of the entry (`dirent_lba`, `dirent_offset`); `new`, `ret`
the cluster `fat_alloc_cluster` hands out and its caller; `first`, `hops`, `fpos`, `size`,
`len` the state of a write or a read. `pc` says how far the command is.

A step is one sector write with all that follows it up to the next one, or one turn of a
loop over a chain. The actions are, per function:

| Code | Actions |
|---|---|
| `vfs_walk`, `fat32_lookup` | `WalkInto`, `WalkUp`, then the `Find` actions |
| `fat_dir_find` | `FindHit`, `FindText`, `FindNext`, `FindMiss` |
| `fat_dir_find_free` | `FreeSlot`, `FreeNext`, `FreeExtend`, `FreeError`, `DirLink` |
| `fat_alloc_cluster` | `AllocTake`, `AllocZero`, `AllocFull` |
| `fat32_create`, `fat32_mkdir` | `Dirent`, `Dots` |
| `fat32_write`, `fat_get_cluster_by_index` | `LoopHead`, `SeekHop`, `SeekExtend`, `FileLink`, `WriteData`, `Finish` |
| `fat32_read` | `LoopHead`, `SeekHop` as for a write, `ReadData` |
| `fat32_readdir` | `List`, `ListNext`, `ListEnd` |
| `fat32_unlink`, `fat_dir_is_empty`, `fat_free_chain` | `EmptyNext`, `EmptyYes`, `NotEmpty`, `Delete`, `Free`, `DeleteText` |
| a power failure, and the next mount | `Crash` |

Faults: `"crash"` lets the power fail between any two steps; `"write"` lets any sector
write return an error, stored or not (the SDHCI driver cannot know after a time-out).
Clusters outside `Backed` have an entry in the table but no sector: reading or writing
them fails, as on the simulated card, whose FAT has 1024 entries for 1015 data sectors.

Abstractions. A cluster is one sector (`sectors_per_cluster` is 1 on the image the code
formats) of `SlotsPerCluster` units of 32 bytes; a unit is a directory entry or that much
data, so writes are in whole units. Names are valid 8.3 names. The two entries `.` and `..`
are one kind of unit, since the code never follows them. A unit of data remembers the
name it was written for, so that mixing up files is seen.

Text read as entries. Nothing marks a sector as one of a directory, and `fat_alloc_cluster` does
not look at the result of the write that clears a cluster (`fs/fat32.c:108`). If that write fails,
a cluster that holds the text of a deleted file can become the second cluster of a directory
(`DirLink`), or the first of a new one whose `.` and `..` were not written (`Dirent`, then `Dots`
refused, or a power failure). From then on `fat_dir_find`, `fat_dir_find_free` and
`fat_dir_is_empty` read that text as 32-byte entries. The model does the same: `Read` is what a unit
is read as, and for text that is whatever `Look`, a constant, says of the file it was written to and
the unit: an entry that was deleted (0xE5), one every loop passes over (attribute bit 0x08, a long
name, or `.` and `..`), or a file or directory of any name and size. `Named`, `Hits`, `Unused` and
`Occupants` go through `Read`. `FindText` and `DeleteText` say what a command does that hits text.

Two facts bound what text can read as. The shell's text holds no NUL byte (a line is a C string), so
no unit of it ends a scan. And bytes 20, 21, 26 and 27 of the unit give the first cluster: if the text
reaches byte 20, a character there makes it 0x00200000 or more, far past a table of 1024 entries and a
device of 1024 sectors, so nothing it names can be read; if the text ends before, zeros follow and
it is 0. So `TextLooks` has `first = 0`, and what the commands do with such a chain is written out:
a walk into such a directory finds nothing but `..`, `rm` marks the unit and frees nothing
(or refuses, when `fat_dir_is_empty` cannot read the directory), a write to such a file stores nothing and
the shell says "ok". Left out are a text that ends inside the unit over the remains of an older entry,
since units are written whole; the seven first clusters from 0xFFFFFFF9 on, for which
`cluster_to_lba` wraps; and a card with more than 0x00200000 sectors behind the table.

`FileTree.tla` is the promise: a set of entries (parent, name, identity, size) changed by
adding one, removing one, or growing one; and a set of directories that are *spoilt*, in which
more may be seen than was put there. A step spoils at most one directory, and none where no
write fails. In `Fat32Props` the entries are those the driver wrote, and a directory is spoilt
while one of its clusters holds text.

### Runs

| Run | Bounds | Shows |
|---|---|---|
| `fat32_faults` | 3 clusters on the device, 2 units each, two names, writes of 2 and 3 units, both faults; text reads as entries of either name, deleted entries and skipped ones | `ChainsSound`, `UniqueNames`, `EntriesVisible`, `SizeWritten`, `CatShowsFile`, `FilesIsolated`, `ImplementsFileTree` |
| `fat32_quiet` | 5 clusters of which 4 are on the device, no faults | `NoLeak`, `UniqueNames`, `OkMeansDone`, `CommandEnds` |

Three clusters are enough for a directory inside the root, a file of two clusters, a
directory that is extended, and a full volume; a write of three units crosses a cluster
boundary and ends within the second cluster, and one of two units ends at the boundary. Of the text of one
file one unit reads as a directory of the other's name and one as a deleted entry, of the other's one
as a file and one as an entry that is skipped. The quiet run adds a cluster
that is not on the device. State spaces are exhausted: no other bound limits them, as a
command starts afresh when the last is over.

`CatShowsFile` joins the two halves: whatever commands, power failures and failed writes came
before, `cat` shows only pieces that were written to that file, and says it is done only at
the size the entry gives, not where the chain or the device ends.

`UniqueNames` is about what a directory shows, text included. Where writes may fail it lets a name stand
twice if one of the two is text; `fat32_quiet` checks it without that exception, and its mutant
is an allocation that does not clear the cluster. `OkMeansDone` speaks of directories without text:
in a spoilt one `rm` may remove the text that passes for the entry, and say "ok".

Fairness: `WF_vars(Step)`, the processor goes on with the command it runs. No command need
ever start.

### Proofs

`Fat32Proofs.tla` proves `TypeOK` (`TypeCorrect`) and `ChainsSound` (`ChainsAlwaysSound`), for every size of the table and of a cluster, any
device, names and lengths, and any set of faults.

`ChainsSound` speaks of least closed sets of clusters, which a step does not change in an
obvious way and which is not inductive: it says nothing of the chain that is being freed,
of the cluster that is being linked, nor of what the local variables point to. The
inductive invariant speaks of single links instead. It says that clusters *can be labelled*:
each with the first cluster of the file or directory it belongs to (0 if free or lost), and
with a rank that grows along every link; that entries point to first clusters, one each;
that no link joins two labels; and where in this picture the local variables of the running
command are. Every step shows a labelling of its next state: unchanged, with the new cluster
given the label of the chain it is linked to, with the new cluster a label of its own when
its entry is written, or with the freed cluster unlabelled. From a labelling
`ChainsSound` follows: the set of clusters with one label is closed, so a chain lies inside
it, and growing ranks exclude a circle.

`Fat32TreeProofs.tla` proves the rest, with the same generality, among it that the driver
implements `FileTree`:

| Theorem | Property |
|---|---|
| `EntriesAlwaysVisible`, `NamesAlwaysUnique`, `SizesAlwaysWritten` | `EntriesVisible`, `UniqueNames`, `SizeWritten` |
| `FilesAlwaysIsolated`, `OkAlwaysMeansDone`, `CatAlwaysShowsFile` | `FilesIsolated`, `OkMeansDone`, `CatShowsFile` |
| `DriverImplementsFileTree` | `ImplementsFileTree` |
| `NothingLeaks`, under `Faults = {}` | `NoLeak` |

Its definitions take the table and the clusters as parameters, so that a lemma can compare the
volumes before and after a step. From `ChainsSound` (`Good`) it gets that a chain is a line: of
two of its clusters one comes after the other, and `Place`, the number of clusters before one,
goes up by one along each link. The invariant, `DriverInv`, has three parts on top:

- `Contents`: every entry can be found (`Found`: on the chain of a directory, with no 0x00 byte
  before it), names of entries are unique, the units below a size were written, and clusters beyond the
  device are blank.
- `NoText`: where no write fails, no directory holds text, nor does the cluster that is about to become
  part of one. With `Contents` it gives `UniqueNames`; `TextSpreads` shows that text comes into a
  directory only with the cluster it lies in, hence into one at a time.
- `Running`: what the running command knows. A search has seen all it has passed (`Searching`),
  so that what follows it knows the name is absent and the place it found is one a search
  will come to (`Placing`); the cluster that was allocated is on no chain (`Claimed`); the
  node in memory agrees with the entry, the units below `fpos` are written, and the cluster
  reached and the links left make the position (`Opened`); what is removed is empty, and once its entry is
  gone nothing points to its chain (`Removing`).

Only seven things happen to the device (`Change`): a step beside all chains, a chain made longer by one cluster, an
entry added, removed or resized, a sector without entries written, and a unit of text deleted. A lemma per kind shows
that `Contents` survives it, a lemma per action that it is of such a kind and keeps
`Running`. The action properties and the refinement follow from `Change`: an entry added,
removed or resized is `Add`, `Remove` or `Grow` of `FileTree`, and the other kinds leave the tree as it was.
`NothingLeaks` needs one part more, `NothingLost`: a cluster that is taken is on a chain or in
hand.

Only model-checked: `CommandEnds`, which is a liveness property and out of reach of the prover.

## 4. Threads, messages and signals

### Model

`Kernel.tla` models `threads.c`, `syscall.c`, `schedule_from_el0` and the SVC path. A user
thread runs until its next call. The call is one step (`Sleep`, `Yield`, `Send`, `Receive`,
`Signal`, `Kill`, `SigReturn`), with interrupts masked as in the code; the way back,
`schedule_from_el0`, is the next (`Dispatch`). `mode` says which of the two comes next.
`Receive` on an empty mailbox runs the scheduler inside the call, so that `current` may
already be another thread when `Dispatch` runs it again; as in the code, the registers
were saved for the thread that made the call. `Shell` is the kernel shell, which reads the
timer but never gives the processor back.

`Schedule` is the whole of `schedule()`: deadlines that passed are renewed, sleepers whose
tick has come are woken, and of the highest level with a runnable thread the one with the
earliest deadline is chosen, the first in round-robin order if several have it (`Chosen`).
If none is runnable, `current` stays.

Time: `timer_update_ticks` runs at the start of a call and of `schedule_from_el0`; each may
see any number of ticks up to `MaxElapsed`. Only differences to `system_ticks` matter, so
`deadline` and `sleepLeft` hold the ticks that are left, 0 once the tick is reached. The
translation is exact, and the clock needs no bound.

A program counter is the routine it is in (the main routine or a handler) and whether that
has begun; that is what the signal path distinguishes. Results of calls are left out: what
a program does next is free. `Mailbox.tla` holds the ring of a thread: `Put` copies a text
up to its end and leaves the rest of the slot as it was. `Channels.tla` is the promise: per
thread a bounded queue.

### Runs

| Run | Bounds | Shows |
|---|---|---|
| `kernel_live` | two or three user threads on two levels with periods 2, 2, 3; sleeps up to 2, up to 1 tick per reading; mailboxes of one message | `TypeOK`, `NoLostWakeup`, `MostUrgentRuns`, `SleepersWake`, `TopThreadsTakeTurns` |
| `kernel_calls` | three tables: two threads that send and receive over rings of two slots of two bytes, texts of one and of two bytes; two threads and the kernel shell with two signals and one handler routine, kills of oneself and of the other, in handlers too; a receiver beside the shell | `ImplementsChannels`, `HandlerCanReturn` |
| `kernel_sleep_runs`, `kernel_saved_pc` | see findings | a comment of the sources that the code does not keep |

Two levels, and two threads on one of them, are the least on which priority, deadline and
turn all decide. A ring of one slot is full or empty after every call; one of two runs
over its end and can be neither. Four threads and 16 slots of 32 bytes, as in the sources,
bring no case of another kind.

Fairness: `FairSpec` says that programs go on making calls (`WF_vars(Next)`) and that time
passes: the clock moves at some dispatch again and again. The code promises no more: a
sleeper is woken only when some thread calls the kernel. `SleepersWake` therefore leaves
out tables with the shell, which never does. `TopThreadsTakeTurns` is checked with equal
periods on a level; with different ones it is false, as `update_deadlines` renews a deadline that
has passed before the scan looks at it, and a thread with the longer period can wait for ever.

### Proofs

`KernelProofs.tla`, for any number of threads, any table, priorities, periods, mailbox
sizes and programs:

- `TypeCorrect` and `HandlersCanReturn`: proved together, since a handler returns to
  `saved_pc` whatever that is. The invariant adds that a thread whose `user_entry` is a
  handler has a saved routine too, and that a thread that runs has a program counter.
- `NoMessageSleptThrough`: the statement, for all threads, is inductive.
- `MostUrgentAlwaysRuns`: inductive, with `SomeThreadIsChosen`: the scan ends with a thread
  whenever one is runnable (the least priority, then the least deadline, then the least
  turn; natural numbers are well-founded).
- `RingsImplementChannels`: the refinement of `Channels` for rings of any size. The invariant
  is that `tail` is where `head` arrives after `count` steps; then `Put` appends to the queue
  and `Taken` removes its head, by arithmetic modulo the size.

Only model-checked: the liveness properties.

### Findings

- `kernel_sleep_runs`: the last runnable thread that calls `sleep` goes on running, in state
  `THREAD_SLEEPING`; `user/sensor_task.c:25` says it sleeps for 10 ticks.
- `kernel_saved_pc`: a signal saves the start of the interrupted routine, not the place
  where it was interrupted, though `kernel/user2.S:22` says "original PC".

## 5. TCP

### Model

`Tcp.tla` is `net/tcp.c` on every host of `Host`. `state`, `lseq`, `rseq`, `remote`, `listening`
and `rx` are the static variables of a host (`tcp_state`, `local_seq`, `remote_seq`,
`remote_ip`, `is_listening`, the receive buffer); `attempt` is the loop counter of
`tcp_connect`. `wire` holds the segments on their way to a host.

| Code | Definitions |
|---|---|
| `tcp_send_packet` | `Emit`, with `Advance` for the sequence number |
| `tcp_connect` | `Connect` up to the first delay loop, `Waited` from the end of one to the next or to the return |
| `tcp_send`, `tcp_close`, `tcp_receive`, `tcp_listen` | `SendData`, `Close`, `Fetch`, `Listen` |
| `tcp_recv` | `Recv`: `Accept`, `Established`, `FinWait2`, `TimeWait`, `Take` or nothing, tried in the order of the code |

A call is one step. `tcp_connect` is not: segments are taken in its delay loop, between any
two attempts. A call in a state that it refuses changes nothing and is left out. The octets
of a segment are its length and where they start; ports are left out, as `tcp_recv` does not
compare them either. Sequence numbers are natural numbers: they start at 0x1000 and 0x2000,
and to wrap they would need four gigabytes on one connection.

The network is an assumption, not a model of `net/ip.c`: `Deliver` hands the next segment
for a host to `tcp_recv`, and `Lose`, and `Deliver` out of order or twice, are the faults that
the kind of network (`Networks`) allows, `MaxFaults` in all. The IP of this tree does not come
up to it (section 7); so far user programs reach only
`tcp_connect`, `tcp_send` and `tcp_receive`, and no one polls the controller while
`tcp_connect` waits, as its comment assumes (`net/tcp.c:57`). What is checked is what `tcp.c`
promises to a system that completes the stack.

### Runs

`tcp_nets`: two hosts, segments of one octet, two attempts for a SYN, four calls, and no
fault or one of any kind. Four calls are a listen, a connect, and two of send and close on
either side, or both ends connecting and closing at once. One fault loses, repeats or
overtakes any one segment. It shows:

- `AcksNeverAhead`: with loss and reordering, and SYNs repeated by the loop and answered
  late, `remote_seq` is never past the `local_seq` of the other end. With repeated segments
  it is false, as a FIN is counted each time; the property says so.
- `TornDownByPeer`: on every network, TIME_WAIT means that the other end closed.
- `TakenInOrder`: without repeats and reordering, data that is taken lies past all that
  is acknowledged.
- `CloseCompletes`: without faults, a close ends the connection on both sides, also when
  both close. Fairness is `WF_vars(Deliver(h))`: segments that are on the way come in at
  last. Nothing is assumed of the programs.

Two attempts instead of three leave a first, and a last one after which the call gives up.
`Relisten` is FALSE: programs do not call `tcp_listen` while they have a connection, which
the code would drop without a word.

### Finding

`tcp_fin_ack`: `tcp_recv` takes any segment with the ACK flag for the acknowledgement of the
FIN ("TCP: ACK for FIN Redeived", `net/tcp.c:139`), and data carries that flag. Data that
crosses the FIN is dropped and ends FIN_WAIT_1.

### Proofs

`TcpProofs.tla` proves `TypeOK` (`TypeCorrect`) for any number of hosts, and for two, with any
number of calls, attempts, faults and octets, `TornDownByPeer` (`TornDown`), `AcksNeverAhead`
(`NeverAhead`) and `TakenInOrder` (`InOrderTaken`). Two hypotheses on the constants go with them:

- `TwoHosts`: there are two hosts, and no `tcp_listen` while there is a connection. With a third host
  `TornDownByPeer` is false (TLC shows it): `remote_ip` is one variable per machine, and `tcp_recv`
  takes a segment whoever sent it.
- `FewSyns` (for the last two): all the SYNs that `MaxCalls` calls may send fit between the two
  initial sequence numbers, 0x1000 and 0x2000. Every failed `tcp_connect` moves `local_seq` on by
  its SYNs; past 0x2000, accepting a connection would set `local_seq` back.

`PeerInv` says for each host whom it knows, and of each segment on its way that it comes from the
peer, and with a FIN only from an end that is closed for good (`Proper`). `AckInv` counts: no SYN,
FIN or data on its way to a host, a FIN counted on top of the others, lets its `remote_seq` pass the
`local_seq` of the other (`Counted`), and while that one has sent nothing but SYNs its
`local_seq` stays below 0x2000. `OrderInv` says that the segments for a host carry sequence
numbers in the order in which they will arrive, none below its `remote_seq` (`InOrder`).
`CloseCompletes` is a liveness property and stays with TLC.

## 6. The packet path

### Model

`PacketPath.tla` is what moves frames when `ENABLE_GENET` is set. `rx` and `tx` are the
descriptor rings of `kernel/genet.c`, one record for a descriptor and its buffer; `armed` in
a descriptor is bit 31 of its status. `rx_index` and `tx_index` are the driver's places,
`queue` holds `rx_queue` and `tx_queue`, and `buf` and `out` what was copied out last.

| Code | Actions |
|---|---|
| `genet_init`, `genet_setup_rx_ring` | `SetupDesc` for each descriptor, `EnableMac` between the two rounds, `InitDone` |
| `genet_recv` | `Copy` or `NoFrame`, then `Rearm`; inside `RxThread` and `HandleRx` (`genet_poll`) |
| `genet_send` | `Fill`, then `Arm`; inside `TxThread` and `EthernetSend` |
| `packet_queue_push`, `packet_queue_pop` | `Push`, `Pop` |
| `rx_thread`, `tx_thread` | `RxThread`, one frame and a yield; `TxThread`, which never yields |

The controller acts between any two of these steps: `Arrive` and `Transmit` go round their
ring, use a descriptor only while it is armed, and disarm it. Writing the base address of a
ring again is taken not to move the controller, as `genet_send` does it for every frame.
The memory is taken to be coherent. Frames have lengths that Ethernet allows, which fit
every buffer. `wiped` and `overrun` are auxiliary: they remember that `genet_init` armed a
descriptor that held a frame, and that `genet_send` used one the controller had not sent.

So far nothing starts the threads or polls; the model is of the functions as they are meant
to be used, with any program that queues, sends and fetches frames.

### Run

`packet_path`: two descriptors, queues of two, four frames each way. Two is the least at
which a place in a ring says something; four frames go round each ring twice and fill a
queue while a third waits. It shows that the queues implement `Channels`; that the receive
ring does unless a frame was wiped, and the transmit ring until the controller is overtaken
(`ReceivedInOrder`, `SentInOrder`); that until then neither side waits at a descriptor while
a frame lies in another (`RxInStep`, `TxInStep`), which is what goes wrong for good
afterwards; and `TxThreadDrains`. Fairness: `WF_vars(Driver)`, the processor goes on with
the thread it runs, and `WF_vars(Transmit)`, the controller sends what is armed.

### Proofs

`PacketProofs.tla` proves all of it but `TxThreadDrains`, which is a liveness property, for
rings and queues of any size and any set of frames: `TypeOK` (`TypeCorrect`), `ImplementsChannels`
(`QueuesImplementChannels`), `RxInStep`, `TxInStep` (`ReceiverInStep`, `SenderInStep`) and
`ReceivedInOrder`, `SentInOrder` (`FramesReceivedInOrder`, `FramesSentInOrder`).

The invariant of a queue is that `tail` is where `head` arrives after `count` steps round the ring.
Of the descriptor rings it is that the descriptors in use are a stretch of the ring
(`RxInv`, `TxInv`): the frames in the receive ring stand from the driver's place up to the controller's, and
the armed descriptors of the transmit ring from the controller's place up to the driver's. `RxInStep` and
`TxInStep` follow at once; for the order one has to show that each step of either side takes its end of
the stretch and leaves the rest where it was.

## 7. IP, UDP and Ethernet

`Ip.tla` models `net/ip.c`, `net/udp.c` and `net/ethernet.c` on machines that run this code and
send to each other. Of a packet it keeps the twenty bytes the checksum covers as numbers, since
the property hangs on their sum; of the payload the fields that are read. `ttl` has sixteen bits
in `ipv4_header_t` (`include/net/ip.h:18`), so all that follows lies a byte late, and the last
byte of the address is written over by the payload; `Fields` is that layout.

| Code | Definitions |
|---|---|
| `ip_checksum` | `Sum`, `Folded` |
| `ip_send`, `ethernet_send` | `IpHeader`, `Frame` |
| `ethernet_handle`, `ip_recv` | `ethernet_handle`, `Accepted`, `ip_recv` |
| `udp_send`, `udp_recv`, `udp_receive` | the same; `PortRead` is what `ntohl` makes of a port |

Finding, `ip_udp`: `UdpPacketsArrive` is false. The checksum folds its carries with the mask 0xFFF
(`net/ip.c:28`), so a sum with a carry never comes out as all ones, and `ip_recv` drops the packet,
though `udp_recv` "is called by the IP layer (ip_recv() in ip.c) when a UDP packet arrives"
(`net/udp.c:55`). `IpProofs.tla` shows that no case is left: the constant fields of the header alone
are more than sixteen bits hold (`SumIsLarge`), the fold of such a sum is at most 4111 (`CarryIsLost`),
so `NoPacketOfOursIsTaken`, for all addresses, lengths and protocols. Bounds of the run: two
addresses, three sizes, two frames on the wire; one frame suffices.

## 8. The SDHCI driver

### Model

`SdCard.tla` is the hardware as the driver's register accesses presuppose it: a card of one of three
kinds, or none, in one of the states of the SD protocol; the controller's inhibit bits, its transfer
and its interrupt status. It is external. A command is answered within an exchange, or not; words
and the end of programming come at any time, also when nobody waits for them any more.

`SdHost.tla` is the driver. A step is one command with its response, one word, or one wait that
ends, well or with a time-out.

| Code | Actions |
|---|---|
| `sd_init` | `HostReset`, `Identify`, `CheckVoltage`, `PowerUp` |
| `sdhci_set_clock_hz` | `Divisor` |
| `sdhci_send_cmd` | `SendCmd` inside the others |
| `sd_read_block`, `sdhci_read_blocks` | `ReadBlock`, `SendData`, `ReadWord`, `Finish`, `TimeOut`, `Fail` for the retry |
| `sd_write_block`, `sdhci_wait_ready`, `sdhci_write_blocks` | `WriteBlock`, `LinesPolled`, `WaitReady`, `SendData`, `WriteWord`, `Finish`, `TimeOut`, `Fail` |

Loops that count polls only to give up do so whenever what they wait for is not there. What the
firmware says of power and clock is not looked at by the code: without power there is no card.
The calls for several blocks have no caller.

### Run

`sd`: all kinds of card, two sectors of two words with two values, two turns of each bounded loop, a
base clock of 51 MHz (no quotient is even), lost commands and spoilt data. Two words are the
least with a transfer half way; two sectors and values are enough to see a sector or a value taken
for another. It shows:

- `ImplementsBlockDevice`: with late data, late stores and retries, what succeeds is true, and a
  write that failed reaches the card before any later call succeeds, or never. That is what `Fat32`
  assumes of a failed write. The exception is data for which the controller raised INT_ERROR: the
  driver looks at that bit after the command only (`block/sd_rpi.c:251-264`, `277-290`).
- `InitLeavesReady`: sector addresses are in the unit of the card that is in the slot.
- `ClockWithinLimit`: no faster than 400 kHz before the card is selected, and 1 MHz after.
- `ReadsRecover`, `WritesRecover`: what a call that meets no fault of its own can still fail from. A read
  that is given up leaves the lines busy, and its retry, meant "to recover from transient timeouts"
  (`block/sd_rpi.c:375`), finds them so; only the next write resets them. A write broken off after
  CMD24 leaves the card receiving, which nothing ends.
- `CallsEnd`: every call returns. Fairness is `WF_vars(Driver)`: the processor goes on. Of
  the card and the controller nothing is assumed.

After a failed `sd_init` nobody calls the driver any more, so the system may stop.

### Proofs

`SdProofs.tla` proves `ClockWithinLimit` (`ClockNeverTooFast`) and `InitLeavesReady`
(`InitSucceedsReady`) for every base clock the capabilities register can hold, every kind of card,
every set of faults and any bound on the polls. The run knows one base clock; that the divisor,
rounded up and cut to ten bits, is never too small needs the proof (`SlowDivisor`,
`NormalDivisor`). The invariant says for each stage of the driver where the card can be and at
which divisor it is clocked: before the reset it is idle and the clock off; while `sd_init` runs it
is in one of the states up to "tran", at the slow divisor, with no transfer, and from CMD2 on the
driver knows the unit of its addresses; in service it is in "tran" or at a transfer. `Exchange`
says what a command, answered or not, does to the card; that the card meanwhile moves data
only when it is in service is `InvDevice`.

The second half is about the calls, for any number of sectors and values and sectors of any number of
words: `TypeOK` (`SdTypesCorrect`), `ReadsRecover` (`ReadsAlwaysRecover`), `WritesRecover`
(`WritesAlwaysRecover`) and `ImplementsBlockDevice` (`DriverImplementsBlockDevice`). Types alone are not
inductive: that the FIFO has room for a word rests on how much of the sector the card, the FIFO
and the buffer have between them. `CallInv` adds to the types and to the invariant above:

- `Shared`: the card at a sector has less of it than there is; a controller that writes holds just what
  the driver has sent and the card has not taken.
- `Counts`: how full the buffer is at each stage, and that no loop has used up its turns.
- `Reading`: unless INT_ERROR is up, what has been fetched, and what can still be fetched, are words of
  the sector the call is for, and that is the sector the card is at. It is why words an
  earlier, abandoned read left on their way never end up in a later one.
- `Writing`: what the card has, and can still get, is what the caller gave, for the sector it named;
  DATA_DONE is up only when the sector holds it, or INT_ERROR is up as well.
- `Clean`: with no fault so far, a write has the lines free once their reset is seen to end, and a
  read has them free if the calls before left them so. A fault the driver notices sets `spoilt`.

TLC finds all five to hold on the instance of the run, and they are inductive as they stand. Of the refinement, one
lemma per abstract action (`AbsBegin`, `AbsSend`, `AbsStore`, ...) says what a step must do to the five
variables of `BlockDevice`, and `Map...` that each step of the driver and the device does one of
them. A write is pending from the driver's last word (`MapWriteWord`) until the card stores it, refuses it or
the controller is reset with a word left in its FIFO (`MapDevice`). `CallsEnd` is liveness, and only
model-checked.

## 9. The console

`Console.tla` models the loop of `kernel_shell_entry` with `uart_try_getc`, what `uart_puts` draws
(`fb_putc`, `fb_scroll`), and the three timing demos, which are the same loop: `boot_demo`
(`kernel/main.c`), `rt` and `rt-stress`. A step is one character taken from the UART with all that
is printed for it, or one look at the clock. `Typed` is the user: the queue of the UART is
switched off (`uart_lcrh`), so that a character that comes in while one is held is lost. Other commands
print one of `Outputs`, among them "clear", whose escape sequence the framebuffer shows as glyphs
without a line end, and a file with control characters. "exit" is one of these too: the loop
goes on after it.

Run `console`: a screen of 60 by 40 pixels, three cells by two with room to spare on both edges, lines
of six characters and a prompt of one, which is more than the screen holds; demos of three and two
rounds with periods 3 and 5, up to 3 ticks from one look at the clock to the next.

- `ScreenShowsLine`: the cursor stays on the screen, and what stands before it is the prompt and the
  line, over the rows they need; past it the row is blank. A character rubbed out at the left
  edge is the exception: the framebuffer does not step back to the row above.
- `DemosMeetDeadlines`: as long as no stretch between two looks at the clock is longer than half the
  period (a third for `rt-stress`, which looks twice), no demo counts a miss, although it tests
  ticks read before its work. A period that is odd makes the bound sharp.

### Proofs

`ConsoleProofs.tla` proves both, for every size of the screen, prompt, length of the line and set of
demos, as `ScreenAlwaysShowsLine` and `DemosAlwaysMeetDeadlines`. It assumes what the code prints
(`TextAssumption`): the prompt is ordinary characters, and every other text ends with a line end, as
those of all commands but "clear" do, or at least prints no character that takes the
cursor back after its last one. Without it the prompt would be drawn over what a carriage return
left behind. And periods are positive (`DemosAssumption`).

What a text does to the screen is a fold over its characters. The library's induction theorems
take an operator as a parameter, which the provers cannot instantiate; but from its theorem that
each nonempty set has a least element (`WFMin`) follows induction over *sets* of numbers
(`Induction`), and with it that the fold exists, takes one character after the other (`OnAppend`) and
one text after the other (`OnConcat`). So what each character preserves, every text does. The
invariant, `ScreenInv`, says that

- all rows below the cursor are blank (`Under`; every character preserves this), and so is its own
  from the cursor on (`Past`; ordinary characters preserve it, and a line end restores it);
- counting places along the rows, what stands k places before the cursor is the k-th last
  character of the prompt and the line (`Reads`). An ordinary character keeps this at both edges:
  on the next row the place is one more, and where the screen scrolls it is a row less, for
  the cursor and for all that stands before it.

`DemoInv` bounds what is left to the deadline at each point of a round: when no stretch is long,
2 `due` >= period + 1 at its start, and 2 `due` >= 1 - period while it waits (with 3 in the place
of 2, and a third stretch between, for `rt-stress`). A demo may so come late to a round by half a
period and still look in time.

## 10. Not modelled

`wait`, `notify`, `switch_context`, `kernel/scheduler.c`, the kernel-mode thread functions, the
page allocator and the table of DMA buffers have no caller, or only one that is compiled out; a
model would have to invent the order of calls it checks. `kmalloc` moves one pointer, is never given
anything back, and its callers do not look at a 0: the models take the memory to suffice. A
sector on the device can be read in `Fat32`; `SdHost` has the calls that fail. Set-up of
the hardware and the string functions are left out. Registers other than the program counter are
left out: programs may do anything with them.

## 11. Checking

    tlc -config Fat32Faults.cfg MCFat32
    tlc -config KernelLive.cfg MCKernel
    tlc -config TcpNets.cfg MCTcp
    tlc -config Packet.cfg MCPacket
    tlc -config Sd.cfg MCSd
    tlc -config Console.cfg MCConsole
    tlapm Fat32Proofs.tla
    tlapm Fat32TreeProofs.tla
    tlapm KernelProofs.tla
    tlapm TcpProofs.tla
    tlapm IpProofs.tla
    tlapm SdProofs.tla
    tlapm ConsoleProofs.tla
    tlapm PacketProofs.tla

Definitions introduced as "Mutant of X" are X with a plausible mistake. Nothing uses them;
put in the place of X, each makes the property `PROJECT.json` names for it fail.
