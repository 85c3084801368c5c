------------------------------ MODULE SmpBoot -------------------------------
(***************************************************************************)
(* Bringing up the other cores: kmain's wake-up loop on the boot core, and *)
(* what a woken core does on its way through the trampoline and            *)
(* ap_long_mode_start to ap_main.                                          *)
(*                                                                         *)
(* The boot core wakes the cores the MADT lists one at a time.  It         *)
(* remembers cores_ready, sends the core its INIT and startup interrupts,  *)
(* and spins until cores_ready has changed or a countdown is over.  A      *)
(* woken core increments cores_ready, later draws an index with a lock     *)
(* xadd, makes that index its stack and its identity, and calls ap_main,   *)
(* where the core with index 3 becomes the GPU emulator.  Which core has   *)
(* reported is nowhere recorded: a core that answers after its countdown   *)
(* is over is taken for whichever core the boot core wakes next.           *)
(***************************************************************************)
EXTENDS Naturals, FiniteSets

CONSTANTS Listed   \* core_count: the cores in lapic_ids, the boot core first

MaxListed == 32        \* the length of lapic_ids
StackArea == 131072    \* ap_stacks
StackSize == 4096
EmulatorCore == 3

ASSUME ListedAssumption == Listed \in 0 .. MaxListed

Aps == 1 .. (Listed - 1)

VARIABLES
    bsp,             \* the boot core: where it stands in the loop
    i,               \* the core it is waking
    prev_cores,      \* what it remembers of cores_ready
    total_cores,     \* total_cores, in gguf.c
    cores_ready,     \* a byte, at most 32 here
    ap_stack_index,  \* the next index to draw
    ap,              \* per core: where it stands
    index,           \* per core: the index it drew, or 0
    dead             \* the cores that never answer

bspVars == <<bsp, i, prev_cores, total_cores>>
vars == <<bspVars, cores_ready, ap_stack_index, ap, index, dead>>

Init == /\ bsp = "next" /\ i = 1 /\ prev_cores = 0
        /\ total_cores = 1
        /\ cores_ready = 1 /\ ap_stack_index = 1
        /\ ap = [c \in Aps |-> "halted"]
        /\ index = [c \in Aps |-> 0]
        /\ dead \in SUBSET Aps

-----------------------------------------------------------------------------
(* The boot core. *)

\* (mutant) the loop runs once too often.
RememberPast == /\ bsp = "next" /\ i <= Listed
                /\ bsp' = "wake" /\ prev_cores' = cores_ready
                /\ UNCHANGED <<i, total_cores, cores_ready,
                               ap_stack_index, ap, index, dead>>

Remember == /\ bsp = "next" /\ i < Listed
            /\ bsp' = "wake" /\ prev_cores' = cores_ready
            /\ UNCHANGED <<i, total_cores, cores_ready, ap_stack_index,
                           ap, index, dead>>

\* The second startup interrupt finds the core started, and is ignored.
WakeupAp == /\ bsp = "wake"
            /\ bsp' = "wait"
            /\ ap' = [ap EXCEPT ![i] = "woken"]
            /\ UNCHANGED <<i, prev_cores, total_cores, cores_ready,
                           ap_stack_index, index, dead>>

SeesReady == /\ bsp = "wait" /\ cores_ready # prev_cores
             /\ bsp' = "check"
             /\ UNCHANGED <<i, prev_cores, total_cores, cores_ready,
                            ap_stack_index, ap, index, dead>>

\* (mutant) the countdown is not looked at.
WaitsForReady == /\ bsp = "wait" /\ cores_ready # prev_cores
                 /\ bsp' = "check"
                 /\ UNCHANGED <<i, prev_cores, total_cores, cores_ready,
                                ap_stack_index, ap, index, dead>>

TimesOut == /\ bsp = "wait"
            /\ bsp' = "check"
            /\ UNCHANGED <<i, prev_cores, total_cores, cores_ready,
                           ap_stack_index, ap, index, dead>>

\* cores_ready is read once more.
\* (mutant) a core is counted whether it answered or not.
CountAnyway == /\ bsp = "check"
               /\ bsp' = "next" /\ i' = i + 1
               /\ total_cores' = total_cores + 1
               /\ UNCHANGED <<prev_cores, cores_ready, ap_stack_index, ap,
                              index, dead>>

CountCore ==
    /\ bsp = "check"
    /\ bsp' = "next" /\ i' = i + 1
    /\ IF cores_ready > prev_cores
       THEN total_cores' = total_cores + 1
       ELSE UNCHANGED total_cores
    /\ UNCHANGED <<prev_cores, cores_ready, ap_stack_index, ap, index, dead>>

\* The rest of kmain, up to the shell.
GoOn == /\ bsp = "next" /\ i >= Listed
        /\ bsp' = "shell"
        /\ UNCHANGED <<i, prev_cores, total_cores, cores_ready,
                       ap_stack_index, ap, index, dead>>

BspStep == Remember \/ WakeupAp \/ SeesReady \/ TimesOut \/ CountCore \/ GoOn

-----------------------------------------------------------------------------
(* A woken core. *)

\* ap_trampoline.asm: lock inc byte [cores_ready].
Report(c) == /\ ap[c] = "woken" /\ c \notin dead
             /\ ap' = [ap EXCEPT ![c] = "counted"]
             /\ cores_ready' = (cores_ready + 1) % 256
             /\ UNCHANGED <<bspVars, ap_stack_index, index, dead>>

\* boot.asm: lock xadd [ap_stack_index], eax.
\* (mutant) the index is taken from cores_ready, which others go on changing.
DrawReady(c) == /\ ap[c] = "counted"
                /\ ap' = [ap EXCEPT ![c] = "stack"]
                /\ index' = [index EXCEPT ![c] = cores_ready - 1]
                /\ ap_stack_index' = ap_stack_index + 1
                /\ UNCHANGED <<bspVars, cores_ready, dead>>

DrawIndex(c) == /\ ap[c] = "counted"
                /\ ap' = [ap EXCEPT ![c] = "stack"]
                /\ index' = [index EXCEPT ![c] = ap_stack_index]
                /\ ap_stack_index' = ap_stack_index + 1
                /\ UNCHANGED <<bspVars, cores_ready, dead>>

\* ap_main.
\* (mutant) the boot core is thought to have drawn an index too.
ApMainOneLater(c) ==
    /\ ap[c] = "stack"
    /\ ap' = [ap EXCEPT ![c] =
                IF index[c] = EmulatorCore + 1 THEN "emulator" ELSE "worker"]
    /\ UNCHANGED <<bspVars, cores_ready, ap_stack_index, index, dead>>

ApMain(c) == /\ ap[c] = "stack"
             /\ ap' = [ap EXCEPT ![c] =
                         IF index[c] = EmulatorCore THEN "emulator" ELSE "worker"]
             /\ UNCHANGED <<bspVars, cores_ready, ap_stack_index, index, dead>>

ApStep(c) == Report(c) \/ DrawIndex(c) \/ ApMain(c)

Next == BspStep \/ \E c \in Aps : ApStep(c)

\* The boot core runs, and so does every core that is not dead.
Spec == /\ Init /\ [][Next]_vars
        /\ WF_vars(BspStep) /\ \A c \in Aps : WF_vars(ApStep(c))

-----------------------------------------------------------------------------
(* Properties. *)

Reported == {c \in Aps : ap[c] \notin {"halted", "woken"}}
Indexed == {c \in Aps : ap[c] \notin {"halted", "woken", "counted"}}

TypeOK == /\ bsp \in {"next", "wake", "wait", "check", "shell"}
          /\ i \in 1 .. MaxListed
          /\ bsp \in {"wake", "wait", "check"} => i \in Aps
          /\ prev_cores \in 0 .. MaxListed
          /\ total_cores \in 1 .. MaxListed
          /\ cores_ready \in 1 .. MaxListed
          /\ ap_stack_index \in 1 .. MaxListed
          /\ ap \in [Aps -> {"halted", "woken", "counted", "stack", "emulator",
                             "worker"}]
          /\ index \in [Aps -> 0 .. (MaxListed - 1)]
          /\ dead \subseteq Aps

\* Whatever order the cores arrive in, no two of them run on one stack, and
\* every stack lies in the area that was reserved.
StackBase(c) == index[c] * StackSize
StackTop(c) == StackBase(c) + StackSize

StacksApart ==
    /\ \A c \in Indexed : StackTop(c) <= StackArea
    /\ \A c, d \in Indexed :
          c # d => StackTop(c) <= StackBase(d) \/ StackTop(d) <= StackBase(c)

\* There is one emulator.
OneEmulator == \A c, d \in Aps : ap[c] = "emulator" /\ ap[d] = "emulator" => c = d

\* The boot core never counts more cores than have reported, though it cannot
\* tell which, nor when.
CountIsEarned == total_cores <= 1 + Cardinality(Reported)

\* Dead cores do not keep the machine from booting.
BootEnds == <>(bsp = "shell")

\* Three cores that answer are enough: one of them becomes the emulator,
\* whether they answered in time or not.
EmulatorComesUp ==
    Cardinality(Aps \ dead) >= EmulatorCore => <>(\E c \in Aps : ap[c] = "emulator")
=============================================================================
