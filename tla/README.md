# A verification project for aiOS

aiOS is a freestanding x86-64 kernel that boots, brings up the machine's other
cores, loads a language model and runs it from a shell, with one core playing
the part of an integrated GPU. This directory holds TLA+ modules that model the
kernel's control, TLC configurations that check them on small instances, and
TLAPS proofs of what matters most for every value of the constants.

Run a check with `tlc -config X.cfg M` and a proof with `tlapm M.tla`, in this
directory. `PROJECT.json` lists the runs, the source lines behind every
definition, the mutants that show each property can fail, the hazards and the
theorems.

## The system

| Part | State | Operations | Speaks to | What is hard, and what makes it correct |
|---|---|---|---|---|
| GPU gate and software GPU (`igpu.c`, `gguf.c:440`, `shell.c:91`) | `g_active_gate`; per gate an owner word, a status word and a descriptor | submit, wait, the emulator's loop | boot core and emulator through shared memory, no lock, no fence | two loads of one pointer, stores in a chosen order, a gate in freed memory; only the gate submitted is served, and completely |
| Page allocator (`malloc.c:34`) | `free_blocks[]`, `free_blocks_count` | fill from the memory map, one page, a run of pages, free a page | heap, `igpu_init`, `igputest` | a stack that is also searched for runs; one holder per page |
| Heap (`malloc.c:257`) | one linked list of blocks | malloc, free, realloc, calloc | inference | joins list neighbours; blocks disjoint and inside their pages |
| Multi-core start (`kernel.c:149`, `ap_trampoline.asm`, `boot.asm:249`) | `cores_ready`, `ap_stack_index`, `total_cores` | wake, report, draw an index | all cores | late and dead cores; one stack and one identity per core |
| Keyboard (`keyboard.c`) and shell input (`shell.c:182`) | ring of 256, shift, the command line | interrupt, get character, edit | interrupt handler and shell on one core | interrupt between any two accesses; nothing lost but on a full ring |
| Page-table lock and faults (`igpu.c:254`, `343`, `idt.c:85`) | two page tables, a TLB per core | lock, fault | boot core, emulator | a lock nobody takes; stale TLBs |
| AMD ring (`igpu.c:213`) | `ring_wptr` | write, commit | GPU | wraps over unread packets |
| Inference (`gguf.c:1049`, `1325`) | position, key/value caches, output flag | prefill, generate | heap, gate, console | caches left from the last command, positions against the context's length, three ways out |
| Model file (`gguf.c:617`) | dimensions, buffers | read the pairs, derive, allocate | heap | sizes that decide every buffer, allocations that fail one by one |
| Tokenizer (`gguf.c:859`) | vocabulary, hash table | build, look up, tokenize | heap | table and linear search must agree |
| Sampling (`gguf.c:1308`) | two arrays side by side | sort, draw | heap | scans without a bound; the sort keeps pairs together |
| Console (`serial.c`) | cursor, visibility flag | put, scroll, clear | every core | one cursor, several cores |
| RAM disk (`tar.c`) | archive address and size | find, list | shell, kmain | where the walk ends |
| Hardware discovery (`sysinfo.c`) | list of LAPIC ids | detect, print | kmain, shell | walks over firmware tables |
| UEFI loader (`bootloader.c`, `efi_stub.asm`) | memory map, loaded files | load, exit boot services | firmware, kernel | a map that changes under the retry, short reads, an ignored status |
| Entry and initialisation (`boot.asm`, `kernel.c:92`, `idt.c:61`) | none after boot | straight-line | all | order only |
| Arithmetic kernels, build scripts | - | - | - | not a matter for these tools |

Two kinds of concurrency matter. The boot core and the emulator core run in
parallel and share memory; the keyboard interrupt runs on the boot core between
any two of the shell's instructions. The other woken cores only ever read an
array of jobs that nobody fills.

## The modules

| Module | Models | Checked by |
|---|---|---|
| `MatVec` | abstract: one call of a matrix product, computed at once | refined by `IGpuGate` |
| `IGpuGate` | the gate, both users, the emulator | `MCIGpuGate` |
| `IGpuGateProofs` | its theorems | tlapm |
| `FrameSet` | abstract: each frame has one holder | refined by `PageFrames` |
| `PageFrames` | the page allocator and its users | `MCPageFrames` |
| `PageFramesProofs` | its theorems | tlapm |
| `Heap` | malloc, free, realloc over `PageFrames` (`INSTANCE`) | `MCHeapUse`, through `HeapUse` |
| `HeapProofs` | its theorems | tlapm |
| `HeapUse` | the kernel's own sequence of heap calls, over `Heap` | `MCHeapUse` |
| `HeapUseProofs` | its theorems | tlapm |
| `PmmInit` | `pmm_init`: the walk over the memory map that fills the list | with `BootLoader` |
| `BootLoader` | `efi_main` beside its firmware, or GRUB, then `PmmInit` | `MCBootMemory` |
| `BootProofs` | their theorems | tlapm |
| `ModelFile` | `gguf_init`: pairs, dimensions, context limit, buffers | with `Inference` |
| `Tokenizer` | hash table, look-up, `preprocess_text`, `tokenize` | with `Inference` |
| `Sampling` | `quicksort_logits`, the prefix, the draw | with `Inference` |
| `Inference` | boot of the engine, then any number of `llm` commands | `MCInference` |
| `InferenceProofs` | the theorems about caches, sort, draw, buffers and text | tlapm |
| `SmpBoot` | waking the other cores | `MCSmpBoot` |
| `SmpBootProofs` | its theorems | tlapm |
| `CharQueue` | abstract: a bounded queue of characters | refined by `Keyboard` |
| `Keyboard` | the ring, the interrupt, the shell's input loop | `MCKeyboard` |
| `KeyboardProofs` | its theorems | tlapm |

Definitions marked `(mutant)` in a comment are not part of the model. Each is a
plausible bug in the code, and shows, put in the place of the definition that
follows it, that a property notices.

### IGpuGate

The state is the gate's words and `g_active_gate` on one side, and on the other
the program counters and registers of the two cores. Every access to a shared
word is an action: `ResetGate` and `StoreWord` fill the gate in, `Publish`,
`MarkProcessing` and `HandOver` are the three stores of `igpu_submit_math`,
`WaitReturns` is the load that ends `igpu_wait_math`. The emulator loads
`g_active_gate` (`LoadGate`), tests the owner word behind it (`TestOwner`),
loads `g_active_gate` again (`ReloadGate`), reads the descriptor word by word,
computes row by row and stores status and owner (`Complete`, `Release`).

Compiled with the Makefile's flags, the emulator's loop has these loads in this
order, and the plain stores to the descriptor, whose order among themselves is
the compiler's, all come before the three volatile ones. On x86 stores become
visible in program order and loads are made in program order, so that
interleaving single accesses loses nothing here: the one reordering the machine
makes, a load passing an earlier store to another word, can only delay a store
past a spin that does not end before that store is seen. `Field` names the words
that matter; sizes, which nobody reads, are left out, and address, column
count and quantisation of the matrix are one value, since they only ever occur
together. An element of a product is the triple of matrix, vector and row.

`igputest` puts its gate into a page it frees at the end, and `g_active_gate`
goes on pointing there. The heap may take the page in a later `llm`, and store
anything in it (`HeapTakes`, `HeapWrites`). It does so only after a first
product of that `llm` has replaced the published gate, since `gguf_generate`
mallocs after its forward pass: that is what makes the dangling pointer
harmless, and part of the invariant.

Emulator and boot core each run under weak fairness, which the hardware gives:
neither spins on anything but the other's stores. Nothing is assumed of
the user, who may never press the key `igputest` asks for, or of how often the
transformer calls for a product.

### PageFrames, Heap and HeapUse

`PageFrames` has the array and its count, and a ghost `holder` that says who
believes a page is theirs. `GrantedAt` is `pmm_alloc_contiguous`'s scan: single
pages from the top, runs from the bottom in array order. `igputest` frees its
two pages in the order in which it took them, and so swaps the two top entries;
that is how the array gets out of order, and why any order is an initial one.
`igpu_init` takes as many single pages as its page tables need (`IgpuTakes`), all
of them before the heap has any.

`Heap` is the list of blocks. `Carve` splits, `Coalesce` is the walk of `free`,
`Obtain` the search of `malloc` with `request_space` behind it. Memory is
measured in words of eight bytes, a page has 18 of them in the
configurations, a header three, as in the code, and requests are rounded up to
two. `realloc` has no caller today and is modelled as the interface it is: the
theorems of `HeapProofs` include it, the runs, which follow the kernel, do not.

`HeapUse` composes the heap with the code that calls it: the model's buffers,
allocated once and in order, then two scratch arrays for every generated token,
with `igputest` in between. `Stored` is what is written of a block: its header,
which `malloc` writes even for what is left over of a block it splits, and the
payload once somebody holds it. `StoredInOwnPages` is about all of that, free
blocks included.

### PmmInit and BootLoader

Memory is a short line of units, and a block is `FrameUnits` of them. The
firmware's own knowledge is the variable `types`, a type for every unit; the map
it hands out (`Descriptors`) is the division of that line into stretches of one
type, except where the firmware keeps two neighbours of a type apart (`Cuts`), and
`Rank` is the order it lists them in, which need not be that of their addresses. `contents` says what was written where, so that a module copied over by
something else is noticed.

The actions of `BootLoader` are the boot services `efi_main` calls, in its order:
the chosen file's volume, opened again without a look at the status (`LoseVolume`
is the call through what was not returned; it ends the behaviour as `undone`),
the model's pages and its reading in pieces (`ReadChunk` may bring less
than asked for), the optional companion file, read by one call whose length
nobody looks at, the reservation of the kernel's
place whose status is ignored (`ReserveKernel`), the copying of the segments,
the map, and `ExitBootServices` with its three tries, between which the map is
fetched for a new key, or that too fails unnoticed (`ExitFails`). `Refuse` is the
failing service that ends the function, at any of the places where one does. The
kernel file itself is read whole here. The firmware chooses where it allocates, and
changes its ledger by itself once the map has been handed out (`ChangeLedger`).
The multiboot way (`Grub`) has the same end: a map or none, a module or none.
The limit on changes, `MaxChanges`, is the only bound the code does not have.

`PmmInit` then cuts one entry after the other into blocks (`EnterEntry`,
`ListBlock`, `SkipBlock`, `LeaveEntry`). It compares only a block's first byte
with the modules, as the code does. A block that begins in free memory before a
module and runs into it is listed, although the shell tells its user that models are
locked at boot: `ModulesAreKept` says they should be, and is violated. The
firmware puts modules on 4 KB boundaries and a block is 2 MB, so this is an ordinary
case. What does hold is `ModuleBodiesAreKept`: from the first block boundary in it
on, a module is safe.

The result, a list without repetition of the blocks promised by the map
(`ListMatchesMap`), is the initial state of `PageFrames`.

### ModelFile, Tokenizer, Sampling and Inference

`ModelFile` takes the file as the sequence of its key/value pairs, with strings
of the vocabulary as sequences of bytes, and derives what `gguf_init` derives, in the
same order: the head dimensions, the context cut to what fits in 2 GB and never
below 256, and a length for each of the thirteen buffers. Any set of allocations
in `FailureSets` may return NULL, and one of length zero does; four are tested for
it. Two arrays are not kept to their length: the scores are written beside
as many strings as there are, whatever their number, and the hash table reads
`vocab_size` strings, a number the file may set apart from the list. Beyond the
strings both end as `undone`.

`Tokenizer` has the table (or none), the look-up over both, `preprocess_text` with
its cut at the end of the array (`MaxText`), and one step of
`tokenize` per token. `Sampling` runs the sort on the two arrays, a step per turn
of its outer loop, its recursion as a stack of ranges. A weight is an integer
where the code has `exp` of a logit, and it may be negative: `exp` is a polynomial
that stops at the nineteenth power and falls below zero at about -6.5. `Shares` is
what the division by the sum makes of the weights, times the sum's size: a negative
sum turns all signs round. A sum of exactly zero is left out. Inside `Turn`, the two
scans are the least and the greatest index at which the values stop them. That such
an index exists within the range is a property (`ScansStop`), not an assumption.

`Inference` composes the three with the loop of `gguf_generate`. The caches are the
rows of memory they are, one layer's positions behind another's (`Row`); a row holds
the layer and the token it was computed from, `Stale` if an earlier command left it.
That a position past the context lies in the next layer's rows is therefore part of the
model. The forward pass is one step, and its result any weights of which one is
positive, as the greatest logit's is. `IGpuGate` is about the products inside; that
they return, for which it takes four cores, is taken for granted here. `Extent` collects, over `transformer_forward`, how far each buffer is
reached into at a position. Where the program divides by a head count of zero or
uses a buffer that is NULL the model stops in phase `undone`, which stands for
behaviour without a meaning; the properties of commands do not speak of it. It is
reached: `llm` without a model goes there (`CanRun`).

`BuffersHold` is stated for files that satisfy `Fits`, which lists what the code
takes for granted: groups of heads that divide evenly, even head dimensions, K
heads no wider than Q heads, an embedding no wider than all Q heads together
(the buffer of Q is reused for the output), a vocabulary of at least the five logits
that are printed, and a context as long as the tokens array. A file breaking
one of these is accepted, and accesses leave their buffers.

Fairness: `WF_vars(Boot)` and `WF_vars(Llm)`, since the boot core runs straight on and waits
for nobody but the user at the prompt, who is not assumed to type anything.

### SmpBoot

The boot core's loop, with its countdown as a choice (`TimesOut` is always
possible: the loop waits for nothing else), and per core the three
steps in which a woken core shows itself: `Report` increments `cores_ready` in the
trampoline, `DrawIndex` is the `lock xadd`, `ApMain` takes the role. A core may
be dead, and a live one may take any time at all. What happens after boot
is `IGpuGate`'s: its `NumCores` is one more than the cores that arrive here.

Fairness: the boot core runs, and so does each core that is not dead. Both are
processors executing straight-line code.

### Keyboard

The handler runs with interrupts off on the core the shell runs on, so it is one
action, and it may come between any two actions of the shell. `keyboard_get_char`
loads the character and then stores the new tail, in that order in the compiled
code too. Without a key the shell looks at the serial line (`NoKey`, then
`SerialRead` or `NoSerial`), and a key typed between the two looks waits for the next
turn. Commands read the ring as well: `igputest` asks one question, `shutdown` one,
and a second (`AskChoice`) when the machine could not be switched off, after which it
halts or restarts. A command may run for ever, so only the shell's own loop is fair.
Two variables, `taken` and `beat`, have no counterpart in the code: they make
what was taken and what was typed visible to `CharQueue`.

## What the runs show

| Run | Instance | Shows |
|---|---|---|
| `gate` | 4 cores, 2 pages for test gates, 3 descriptors with up to 2 rows, 2 vectors' contents | safety, liveness and refinement of the gate |
| `gate_two_cores` | the same with 2 cores | violated: `WaitEnds` |
| `page_frames` | two stretches of 3 frames, every order of the array, runs up to 3, an array of exactly 6 | the free list is exact, `FrameSet` is implemented |
| `heap_use` | 7 frames in every order, a page of 18 words, buffers of 5, 20, 20 and 9 words, scratch arrays of 4 | headers and arrays stay in the heap's pages and apart, no word is lost, nothing leaks, one token's pages do for all |
| `heap_use_long` | the same with scratch arrays of 6 words | violated: `StoredInOwnPages` |
| `smp_boot` | 4 other cores, every set of dead ones | stacks, identities, count; boot ends; the emulator appears |
| `boot_memory` | 9 units of memory, blocks of two, three ledgers, descriptors in no order of address, a model of 1 or 3 units read 2 at a time, a companion of 1, 2 tries, 2 changes, a list of 2 | the page list is what the map promises, module bodies stay out of it, the model arrives whole |
| `boot_stale` | the same, 1 change, a list of 3, a model of 1 | violated: `UsableIsUsable` |
| `boot_head` | as `boot_stale` | violated: `ModulesAreKept` |
| `inference` | six files (SentencePiece; byte-pair with norms and a context to be cut; heads narrower than the embedding; more scores than strings; more tokens counted than listed; a context shorter than the prompt), four prompts, five sets of failing mallocs, weights -4, 1 and 9, texts of 9 bytes, 4 slots for tokens, 2 tokens per answer | tokens, caches, buffers and draw are right; the shell and its screen come back |
| `inference_unlikely` | the same | violated: `LikelierFirst` |
| `keyboard` | a ring of 3 slots, a line of 3 bytes, 2 keys, shift, serial input | `CharQueue` is implemented |

Why the bounds are enough. The gate's races involve at most the published gate,
its predecessor and one page that is reused: two test gates and the static one.
Two rows tell the first from the last, two contents a stale vector from a
fresh one. Eighteen words are what two scratch arrays of four, and three headers,
take to within a word. For runs of pages, a hole, a run that needs all of a stretch, and two
pages out of order are what matters. Three slots give a ring that is empty,
half full and full, in every rotation. Four other cores
are one more than the emulator needs. Nine units hold the kernel, the
loader, a module in any place and room for a block before, inside and behind it,
aligned or not; the three ledgers put the loader's image at the end, between kernel
and model, or where the kernel will be. A model of three units takes two reads at least and
as many as three. Four tokens are enough for a sort that splits twice and for
two tokens that share a string; two commands in a row, for a cache that
holds the first one's rows, come of themselves, since commands are not counted. Weights 1
and 9 make a prefix of exactly nine tenths; -4 with them makes sums of both signs. The
theorems below remove the bounds.

Five runs disagree with what the repository says, or show it fail to do what it
means to.

* `gate_two_cores`: `igpu.c:405` says "Always fall back to the software GPU
  emulator core (AP Core 3)". With fewer than four cores nobody is that core and the
  first product never returns. The kernel counts a single core when it finds no
  RSDP, and does not look at the count before it submits.
* `heap_use_long`: `README.md:24` promises "boundary-tag coalescence". `free`
  joins list neighbours without comparing addresses. Two one-page regions,
  handed out from the top of the list downwards, become one block that runs out of
  the first into memory that need not be the heap's. The kernel's own calls
  stay clear of it (`heap_use`) as long as both scratch arrays, cut from the
  front of such a block, fit into one page with the header of what is
  left: up to 262,132 words of vocabulary. With more, the second token's
  `malloc` writes that header (`malloc.c:305`), or the second array,
  behind the page.
* `boot_stale`: `bootloader.c:461` retries `ExitBootServices` "if it fails (due to
  memory map changes from print/allocations)", and `bootloader.c:469` fetches the map
  again. Only the key of the new map is used: the kernel is given the entries
  parsed before, and may list memory that has since been reserved.
  `FramesAreRam` is the same statement when the first try succeeds, and holds.
* `boot_head`: `shell.c:303` prints "Models are loaded and locked at boot time".
  `malloc.c:70` compares a block's first byte only, so that the block a module's head
  lies in is listed, and may be handed out.
* `inference_unlikely`: the cut is to the likeliest tokens that hold nine tenths
  (`gguf.c:1373`). When the sum of `exp`'s answers is negative, the division turns
  the order round, and the draw is made from the unlikeliest. The polynomial is at
  -0.02 for -7, -3.5 for -9 and below -10,000,000 for -20, so a vocabulary of ordinary
  length gets there in ordinary use.

What is known to go wrong elsewhere is behind the preconditions of the properties that
hold, and in the models:

* `bootloader.c:356`: the status of the reservation of the kernel's place is not looked at.
  If the model lies there, the segments are copied over it (`ModelArrivesWhole` asks for
  `reserved`).
* `bootloader.c:277`: a short read of the companion file is handed on under the full length.
* `gguf.c:1351`: prefill does not look at the context. A prompt of more tokens runs one
  layer's rows into the next layer's, and the last layer's out of the cache
  (`CacheHoldsHistory` asks for prompts no longer than the context; the run has a file
  with a shorter one).
* `gguf.c:1208`: the buffer of Q, "large enough to hold embedding_length", is not when the
  heads are narrower than the embedding (`Fits`).
* `gguf.c:834`: nine of the thirteen buffers may be missing unnoticed (`CanRun`).
* `kernel.c:170`: a core that answers after its countdown is taken for the next, and the
  message names the wrong one. The count itself is never too high (`CountIsEarned`).

Deadlock is not checked where the system really may stop: when memory is used
up (`page_frames`), when all cores have booted (`smp_boot`), when the loader has
returned to the firmware or the list is filled (`boot_memory`), when the engine was
entered without a model (`inference`), and in the runs that look for one violation.

## What is proved

The proofs hold for all constants that satisfy the modules' assumptions: any
number of gates, descriptors and cores, any frames, any ring length, any key map,
and up to 32 listed cores, the length of `lapic_ids`.

* `IGpuGateProofs`: type correctness, `ServesTheSubmittedGate`,
  `ReturnsTheProduct`, `DescriptorIsStable`, and that the gate
  implements the safety part of `MatVec`. The two invariants are not inductive
  alone. `CpuInv` adds what the boot core has stored at each point of a
  submission, and that the published gate is in the CPU's hands unless submitted.
  `EmulatorInv` adds the heart of the argument: when the address the emulator
  loaded first is no longer the published one, that gate's owner word says CPU and the
  boot core is inside the submission of another, so the test fails or both loads
  agree. Each action is then one step of the proof.
* `PageFramesProofs`: type correctness, `ListIsExact`, and the
  refinement of `FrameSet`. The invariant adds that the count is the number of
  frames nobody holds, which is what keeps the array from overflowing and
  `pmm_free_page` from dropping a page.
* `SmpBootProofs`: type correctness, `StacksApart`, `OneEmulator`,
  `CountIsEarned`. The two counters are one more than the sizes of two sets of
  cores, and the indices drawn are distinct numbers below the next. That
  `ap_stacks` is long enough follows from the length of `lapic_ids` and nothing else.
* `KeyboardProofs`: type correctness, `ReaderOwnsTail`, and the whole
  refinement of `CharQueue`. The lemmas are the arithmetic of the ring and what
  one store and one advance do to the queue it stands for.

* `BootProofs`: `ModuleBodiesAreKept` and `FramesAreRam`, for any size of memory and of a
  block, any ledger in any order and any number of changes and tries. The invariant says of every
  listed block that it lies behind the kernel, begins in no module and, with a
  map, ends in the usable entry it begins in (`BlockFits`, the arithmetic of
  rounding); and of the map that its entries are among the firmware's descriptors as
  long as no try has failed. `ListMatchesMap` needs the order of the walk as well:
  every block the map promises is listed, or lies in an entry still to come, or
  ahead in the one being cut. `ModelArrivesWhole` is of the model alone, and of boots in
  which the kernel's place was granted; nothing is claimed of the rest.
  It needs the ledger: what the loader
  has been granted is marked as such from then on, and nobody else is granted it.
* `InferenceProofs`: `CacheHoldsHistory`, for any vocabulary,
  prompts and number of commands and any file with unsigned counts that name a head
  count other than zero (`FilesUsable`): while the prompt's tokens are no more than the
  context, each row read is this command's. One invariant counts the tokens processed in
  each phase; another (`RowsInv`) says what lies in each row of each layer, and rests on the
  fact that the rows of two layers do not meet at positions below the context.
  `SortStaysInItsArrays`, for any number of tokens and any integer weights: the
  scans stop within the range, and each token keeps its share beside it. The
  invariant is the one that makes Hoare's partition work: while `i <= j` there is a
  value at most the pivot at or above `i`, and one at least the pivot at or below `j`;
  an exchange leaves behind exactly the two values that stop the next scans. And
  `NucleusSampled`, for weights of either sign whose sum is positive: any two places of the array that are out of order lie in one range
  still to be sorted, so that with none left the array is sorted, and the prefix that
  `Candidate` cuts off is the nucleus. Sums over a set of tokens and over the array's
  prefix are related by induction in the proofs.
  `BuffersHold`, in every state in which the prompt's tokens fit their array
  (`Len(tokens) <= TokenSlots`, which the code does not check), for the same files.
  The invariant `SizeInv`, checked by TLC first, says that a buffer is
  NULL or as long as was asked for once the pairs are read, that a command runs only
  with all of them, and that its position lies in the prompt or below the context.
  That each buffer is as long as it is reached into is then arithmetic: groups of heads
  that divide evenly cover the K heads (`GroupsCover`), the last layer's rows end with
  the cache (`LastLayer`), and cutting the context to a power of two keeps both caches within their
  limit, or leaves the least context (`CachesFit`).
  `TokensSpellPrompt`, for any vocabulary and prompt, with the hash table or without,
  from two hypotheses: the count of tokens is that of the strings, as `find_token_by_str`
  takes for granted, and each token's string begins with a token short enough to be
  looked up (`Covered`). Any token of 1 to 64 bytes is its own; without such a
  one a longer token is never found, and the byte it begins with is given up although a
  token begins with it. The lemmas say that `Hash` stays below `HASH_SIZE`, that a
  bucket has the tokens with its hash (`ChainIsBucket`), that `find_token_by_str` finds
  what there is and nothing else (`FindIsHas`), and that one turn of `tokenize` consumes
  what its token stands for (`NextTokenSpells`). `TextInv` joins them over any number
  of commands; instead of `Reach`, the set of offsets the tokens may have come
  to, it says that there is a list of offsets, one per token (`Spelled`), and the last
  lemma that such a list leads into `Reach`.
  `TypeOK`, in every state in which the text is shorter than the tokens array, for such
  files, counts, and ids of the start token and the unknown one that the vocabulary
  has (`IdsUsable`). `RunInv` says that what is drawn and printed is of the
  vocabulary; that there is a token to draw comes from `DrawInv`.
  `ShortPromptsStayInBuffers` turns the condition on the tokens into one on the prompts:
  `Cost` counts a visible character once, any other byte three times and three for a
  mark in front. Its least value with the template and the default system prompt of
  `shell.c` is 200, which leaves 55 visible characters to the user before
  256 is reached; behind that it depends on the vocabulary.
  TLC checked `TextInv` and `RunInv` on the configuration of `inference` before they were
  proved.
* `HeapProofs`: for all constants, type correctness, `NoFreeNeighbours` and
  `WordsAreConserved`, whatever the pages and the sizes asked for. The invariant `Basic` is about
  the list alone; the lemmas say what carving a block, the whole walk of `free` and a
  fresh region do to a list. The walk is a recursive function over the list; its
  lemmas go by least counterexample.
  That blocks lie in the heap's pages, and apart, is false in general (`heap_use_long`); what
  of it holds is proved of the kernel's own calls.
* `HeapUseProofs`: `StoredInOwnPages`, `LiveIsInUse`, `LiveBlocksStay`, `NothingLeaks` and
  `WarmHeapSuffices`, for pages in any
  order, any buffers of the model and `igputest` at any time: the kernel's calls are safe
  where calls in general are not. The hypothesis `Together` is that two scratch
  arrays, their headers and the header of the remainder fit into one page, without which
  `heap_use_long` shows the first of them false. The invariant `Use` is the list's shape
  at each step of a token: the model's buffers (`BuffersLie`), each in pages of its own and
  in use for good, and behind them nothing, one block that begins with a page, that block split
  in two or three, or two blocks of a page each. A block that `free` has made longer
  than its page appears there only as the last one, free, at most one page too
  long (`Ends`), so that both arrays are cut from its first page, and the header of what
  remains lies there too. TLC checked
  `Use` on the configuration of `heap_use` before it was proved.

Every safety property of the passing runs is proved. Only model-checked: every liveness
property (`WaitEnds`, `BootEnds`, `EmulatorComesUp`, `CharReachesShell`, `LlmReturns`, and the fair part of
`ImplementsMatVec`), as the prover has no fairness.

## Not modelled

* The page-table lock and the fault handlers. `set_memory_cpu_access` has no
  caller, so no behaviour of the program includes it; the handlers print and halt.
  `IGpuGate` shows what holds without the lock.
* The AMD command ring. It is used only with a GPU whose side of it the repository does
  not describe. Without a reader there is no ordering to check.
* The console: cursor, scrolling and glyphs are layout. Several cores do print through
  one cursor, and what comes of it is a garbled line. The flag that hides output is
  in `Inference`.
* The RAM disk and the discovery of hardware: walks over tables, made once, before
  anything runs beside them. What they find is an input of the modules above: a file, a
  list of cores, a memory map.
* Byte layout of the model file, tensor infos and data; ELF headers; the loader's menu
  and framebuffer; long mode, GDT and IDT; the commands that only print.
* Arithmetic: dequantisation, dot products, `exp`, `sin`. Floating point and SIMD are
  beyond TLC and TLAPS. Control depends on them only through the weights, which are any
  integers here, of either sign, one of them positive; a sum of exactly zero, and rounding,
  are left out.
* Short reads of the kernel file's segments: half a kernel has no behaviour to describe.
* Prompts with more tokens than the array of 256 holds, and files outside `Fits`: the code
  has no check there, and what follows has no meaning in C.
* `calloc`, which nobody calls, and the idle workers, whom nobody gives a job.
* Build and run scripts.
