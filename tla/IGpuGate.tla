------------------------------ MODULE IGpuGate ------------------------------
(***************************************************************************)
(* The gate between the boot core and the software GPU (igpu.c), with its  *)
(* two users: mat_vec_mul (gguf.c), called by the inference that the shell *)
(* command "llm" runs, and the command "igputest" (shell.c).               *)
(*                                                                         *)
(* A gate is a descriptor in shared memory.  The boot core fills it in,    *)
(* publishes its address in g_active_gate, marks it PROCESSING, and hands  *)
(* it over by storing IGPU_OWNER_GPU in its owner word; it then spins      *)
(* until the owner word reads IGPU_OWNER_CPU.  The core whose arrival      *)
(* index is 3 polls g_active_gate, serves the gate it finds and hands it   *)
(* back.  There is no lock and no fence: the protocol is the order of the  *)
(* volatile accesses, and each of them is an action here.                  *)
(*                                                                         *)
(* There are two kinds of gate.  mat_vec_mul has one static gate.          *)
(* igputest puts its gate in a page it takes from the page allocator and   *)
(* frees at the end, leaving g_active_gate pointing into free memory; the  *)
(* heap may later take that page and store anything where the gate was.    *)
(***************************************************************************)
EXTENDS Naturals

CONSTANTS MatmulGate,   \* &matmul_gate, static in gguf.c
          TestGates,    \* gate addresses inside pages igputest may be given
          MatVecJobs,   \* the descriptors mat_vec_mul can be asked to fill in
          TestJobs,     \* the descriptors igputest fills in
          Contents,     \* what an input vector may hold
          Ones,         \* the one igputest stores: 1.0 throughout
          NumCores,     \* cores that reached ap_long_mode_start, plus one
          Null          \* a NULL pointer, or memory never written

Jobs == MatVecJobs \cup TestJobs
Gates == TestGates \cup {MatmulGate}

\* The descriptor's words.  "weights" stands for the matrix: its address, its
\* columns and its quantisation; the three size words are stored and never
\* read.  None of them is volatile: the compiler orders the stores among
\* themselves as it likes, and the loads too.
Field == {"weights", "input", "output", "rows"}

Inputs == {j["input"] : j \in Jobs}
Outputs == {j["output"] : j \in Jobs}
Rows == UNION {0 .. (j["rows"] - 1) : j \in Jobs}

ASSUME GateAssumption ==
    /\ MatmulGate \notin TestGates
    /\ Null \notin Gates
    /\ \A j \in Jobs : DOMAIN j = Field /\ j["rows"] \in Nat \ {0}
    /\ Ones \in Contents
    /\ NumCores \in Nat \ {0}

\* One element of the product.
Dot(matrix, x, r) == <<matrix, x, r>>

\* A call, and the answer it deserves.
CallOf(j, x) == <<j, x>>
CallSet == {CallOf(j, x) : j \in Jobs, x \in Contents}
Answer == [c \in CallSet |->
             [r \in 0 .. (c[1]["rows"] - 1) |-> Dot(c[1]["weights"], c[2], r)]]

\* NULL is neither.
ASSUME NullAssumption == \A c \in CallSet : c # Null /\ Answer[c] # Null

\* The core that runs igpu_run_simulated is the one that arrives third.
EmulatorCore == 3
EmulatorOnline == EmulatorCore < NumCores

VARIABLES
    pc,         \* the boot core: where it stands
    cur,        \* the gate it is working on
    job,        \* the descriptor it was asked for
    unset,      \* the words of the gate it has still to store
    prefilled,  \* this "llm" command has completed a matrix product
    page,       \* per test gate: who has the page it lies in
    active,     \* g_active_gate
    owner,      \* per gate: the owner word
    status,     \* per gate: the status word
    desc,       \* per gate: the other words
    vec,        \* per input buffer: its contents
    out,        \* per output buffer and row: the element stored there
    epc,        \* the emulator core: where it stands
    ptr,        \* the address whose owner word it tests
    egate,      \* the address it re-read and works on
    reg,        \* the words it has read from there
    unread,     \* the words it has still to read
    row         \* the next row to compute

cpuVars == <<pc, cur, job, unset, prefilled, page>>
memVars == <<active, owner, status, desc, vec, out>>
emuVars == <<epc, ptr, egate, reg, unread, row>>
vars == <<cpuVars, memVars, emuVars>>

NoWords == [f \in Field |-> Null]

Init == /\ pc = "shell" /\ cur = MatmulGate /\ unset = {}
        /\ job \in Jobs
        /\ prefilled = FALSE
        /\ page = [g \in TestGates |-> "free"]
        /\ active = Null
        \* The static gate is zeroed; a page holds whatever was there.
        /\ owner \in {o \in [Gates -> {"CPU", "GPU"}] : o[MatmulGate] = "CPU"}
        /\ status = [g \in Gates |-> "IDLE"]
        /\ desc = [g \in Gates |-> NoWords]
        /\ vec \in [Inputs -> Contents]
        /\ out = [o \in Outputs |-> [r \in Rows |-> Null]]
        /\ epc = "poll" /\ ptr = Null /\ egate = Null
        /\ reg = NoWords /\ unread = {} /\ row = 0

-----------------------------------------------------------------------------
(* The boot core. *)

\* igputest: take pages, fill the weights and the input, zero the output.
StartTest(g, j) ==
    /\ pc = "shell" /\ page[g] = "free"
    /\ pc' = "reset" /\ cur' = g /\ job' = j
    /\ page' = [page EXCEPT ![g] = "test"]
    /\ vec' = [vec EXCEPT ![j["input"]] = Ones]
    /\ out' = [out EXCEPT ![j["output"]] = [r \in Rows |-> Null]]
    /\ UNCHANGED <<unset, prefilled, active, owner, status, desc, emuVars>>

StartLlm == /\ pc = "shell"
            /\ pc' = "llm" /\ prefilled' = FALSE
            /\ UNCHANGED <<cur, job, unset, page, memVars, emuVars>>

\* The transformer leaves x in an input vector and calls mat_vec_mul on it.
CallMatVec(j, x) ==
    /\ pc = "llm"
    /\ pc' = "reset" /\ cur' = MatmulGate /\ job' = j
    /\ vec' = [vec EXCEPT ![j["input"]] = x]
    /\ UNCHANGED <<unset, prefilled, page, active, owner, status, desc, out,
                   emuVars>>

\* (mutant) the owner word keeps what the page held.
ResetGateKeepsOwner == /\ pc = "reset"
                       /\ pc' = "store" /\ unset' = Field
                       /\ status' = [status EXCEPT ![cur] = "IDLE"]
                       /\ UNCHANGED <<cur, job, prefilled, page, active, owner,
                                      desc, vec, out, emuVars>>

ResetGate == /\ pc = "reset"
             /\ pc' = "store" /\ unset' = Field
             /\ owner' = [owner EXCEPT ![cur] = "CPU"]
             /\ status' = [status EXCEPT ![cur] = "IDLE"]
             /\ UNCHANGED <<cur, job, prefilled, page, active, desc, vec, out,
                            emuVars>>

StoreWord(f) == /\ pc = "store" /\ f \in unset
                /\ desc' = [desc EXCEPT ![cur][f] = job[f]]
                /\ unset' = unset \ {f}
                /\ UNCHANGED <<pc, cur, job, prefilled, page, active, owner,
                               status, vec, out, emuVars>>

\* The three stores of igpu_submit_math.
Publish == /\ pc = "store" /\ unset = {}
           /\ pc' = "processing" /\ active' = cur
           /\ UNCHANGED <<cur, job, unset, prefilled, page, owner, status, desc,
                          vec, out, emuVars>>

MarkProcessing == /\ pc = "processing"
                  /\ pc' = "handover"
                  /\ status' = [status EXCEPT ![cur] = "PROCESSING"]
                  /\ UNCHANGED <<cur, job, unset, prefilled, page, active, owner,
                                 desc, vec, out, emuVars>>

HandOver == /\ pc = "handover"
            /\ pc' = IF cur = MatmulGate THEN "wait" ELSE "answer"
            /\ owner' = [owner EXCEPT ![cur] = "GPU"]
            /\ UNCHANGED <<cur, job, unset, prefilled, page, active, status, desc,
                           vec, out, emuVars>>

\* igputest asks whether to read the weights page; they can be read.
PressKey == /\ pc = "answer" /\ pc' = "wait"
            /\ UNCHANGED <<cur, job, unset, prefilled, page, memVars, emuVars>>

\* (mutant) igpu_wait_math spins on the status word.
WaitOnStatus == /\ pc = "wait" /\ status[cur] = "COMPLETE"
                /\ pc' = IF cur = MatmulGate THEN "llm" ELSE "validate"
                /\ prefilled' = (cur = MatmulGate)
                /\ UNCHANGED <<cur, job, unset, page, memVars, emuVars>>

WaitReturns == /\ pc = "wait" /\ owner[cur] = "CPU"
               /\ pc' = IF cur = MatmulGate THEN "llm" ELSE "validate"
               /\ prefilled' = (cur = MatmulGate)
               /\ UNCHANGED <<cur, job, unset, page, memVars, emuVars>>

\* igputest prints the rows and frees its pages; g_active_gate stays.
FreePages == /\ pc = "validate"
             /\ pc' = "shell"
             /\ page' = [page EXCEPT ![cur] = "free"]
             /\ UNCHANGED <<cur, job, unset, prefilled, memVars, emuVars>>

\* After its forward pass, each generated token mallocs its scratch arrays:
\* the heap may take a page igputest has freed, never gives it back, and
\* stores anything in it.
HeapTakes(g) == /\ pc = "llm" /\ prefilled /\ page[g] = "free"
                /\ page' = [page EXCEPT ![g] = "heap"]
                /\ UNCHANGED <<pc, cur, job, unset, prefilled, memVars, emuVars>>

HeapWrites(g, w) == /\ pc = "llm" /\ prefilled /\ page[g] = "heap"
                    /\ owner' = [owner EXCEPT ![g] = w]
                    /\ UNCHANGED <<cpuVars, active, status, desc, vec, out,
                                   emuVars>>

\* With no tokens in the prompt it ends before any product.
EndLlm == /\ pc = "llm"
          /\ pc' = "shell"
          /\ UNCHANGED <<cur, job, unset, prefilled, page, memVars, emuVars>>

\* Code that runs without waiting for a user or the transformer's choice.
CpuStep == \/ ResetGate
           \/ \E f \in Field : StoreWord(f)
           \/ Publish \/ MarkProcessing \/ HandOver
           \/ WaitReturns \/ FreePages

CpuChoice == \/ \E g \in TestGates, j \in TestJobs : StartTest(g, j)
             \/ StartLlm
             \/ \E j \in MatVecJobs, x \in Contents : CallMatVec(j, x)
             \/ PressKey
             \/ \E g \in TestGates : HeapTakes(g)
             \/ \E g \in TestGates, w \in {"CPU", "GPU"} : HeapWrites(g, w)
             \/ EndLlm

-----------------------------------------------------------------------------
(* The emulator core: the loop of igpu_run_simulated.                      *)

\* g_active_gate is loaded for the NULL test and again for the owner test.
\* It never becomes NULL again, so the second load stands for both.
LoadGate == /\ epc = "poll" /\ active # Null
            /\ epc' = "test" /\ ptr' = active
            /\ UNCHANGED <<cpuVars, memVars, egate, reg, unread, row>>

\* (mutant) any gate that is published is served.
TestNothing == /\ epc = "test" /\ epc' = "reload"
               /\ UNCHANGED <<cpuVars, memVars, ptr, egate, reg, unread, row>>

TestOwner == /\ epc = "test"
             /\ epc' = IF owner[ptr] = "GPU" THEN "reload" ELSE "poll"
             /\ UNCHANGED <<cpuVars, memVars, ptr, egate, reg, unread, row>>

ReloadGate == /\ epc = "reload"
              /\ epc' = "read" /\ egate' = active /\ unread' = Field
              /\ reg' = NoWords
              /\ UNCHANGED <<cpuVars, memVars, ptr, row>>

ReadWord(f) == /\ epc = "read" /\ f \in unread
               /\ reg' = [reg EXCEPT ![f] = desc[egate][f]]
               /\ unread' = unread \ {f}
               /\ UNCHANGED <<cpuVars, memVars, epc, ptr, egate, row>>

\* (mutant) the loop starts at the second row.
StartRowsAtOne == /\ epc = "read" /\ unread = {}
                  /\ epc' = "rows" /\ row' = 1
                  /\ UNCHANGED <<cpuVars, memVars, ptr, egate, reg, unread>>

StartRows == /\ epc = "read" /\ unread = {}
             /\ epc' = "rows" /\ row' = 0
             /\ UNCHANGED <<cpuVars, memVars, ptr, egate, reg, unread>>

\* (mutant) the loop's condition says "<=": one row too many is stored.
ComputeRowPast == /\ epc = "rows" /\ row <= reg["rows"]
                  /\ out' = [out EXCEPT ![reg["output"]][row] =
                               Dot(reg["weights"], vec[reg["input"]], row)]
                  /\ row' = row + 1
                  /\ UNCHANGED <<cpuVars, active, owner, status, desc, vec, epc,
                                 ptr, egate, reg, unread>>

ComputeRow == /\ epc = "rows" /\ row < reg["rows"]
              /\ out' = [out EXCEPT ![reg["output"]][row] =
                           Dot(reg["weights"], vec[reg["input"]], row)]
              /\ row' = row + 1
              /\ UNCHANGED <<cpuVars, active, owner, status, desc, vec, epc,
                             ptr, egate, reg, unread>>

\* (mutant) the loop stops one row short.
CompleteEarly == /\ epc = "rows" /\ row = reg["rows"] - 1
                 /\ epc' = "release"
                 /\ status' = [status EXCEPT ![egate] = "COMPLETE"]
                 /\ UNCHANGED <<cpuVars, active, owner, desc, vec, out, ptr,
                                egate, reg, unread, row>>

Complete == /\ epc = "rows" /\ row = reg["rows"]
            /\ epc' = "release"
            /\ status' = [status EXCEPT ![egate] = "COMPLETE"]
            /\ UNCHANGED <<cpuVars, active, owner, desc, vec, out, ptr, egate,
                           reg, unread, row>>

\* (mutant) the gate is completed and not given back.
KeepGate == /\ epc = "release" /\ epc' = "poll"
            /\ UNCHANGED <<cpuVars, memVars, ptr, egate, reg, unread, row>>

Release == /\ epc = "release"
           /\ epc' = "poll"
           /\ owner' = [owner EXCEPT ![egate] = "CPU"]
           /\ UNCHANGED <<cpuVars, active, status, desc, vec, out, ptr, egate,
                          reg, unread, row>>

EmulatorStep == /\ EmulatorOnline
                /\ \/ LoadGate \/ TestOwner \/ ReloadGate
                   \/ \E f \in Field : ReadWord(f)
                   \/ StartRows \/ ComputeRow \/ Complete \/ Release

Next == CpuStep \/ CpuChoice \/ EmulatorStep

\* Both cores run; nothing is assumed of the user or of the transformer.
Spec == Init /\ [][Next]_vars /\ WF_vars(CpuStep) /\ WF_vars(EmulatorStep)

-----------------------------------------------------------------------------
(* Properties. *)

\* Where the boot core stands between the call and its return, and while a
\* gate may be in the emulator's hands.
InCall == pc \in {"reset", "store", "processing", "handover", "answer", "wait"}
Submitted == pc \in {"answer", "wait"}
Working == epc \in {"reload", "read", "rows", "release"}

Word == {j[f] : j \in Jobs, f \in Field} \cup {Null}
Element == {Null} \cup
           {Dot(j["weights"], x, r) : j \in Jobs, x \in Contents, r \in Rows}

\* Every variable has the shape the code gives it; the loop over the rows
\* does not go behind the last row there is.
TypeOK ==
    /\ pc \in {"shell", "llm", "reset", "store", "processing", "handover",
               "answer", "wait", "validate"}
    /\ cur \in Gates /\ job \in Jobs
    /\ unset \subseteq Field
    /\ prefilled \in BOOLEAN
    /\ page \in [TestGates -> {"free", "test", "heap"}]
    /\ active \in Gates \cup {Null}
    /\ owner \in [Gates -> {"CPU", "GPU"}]
    /\ status \in [Gates -> {"IDLE", "PROCESSING", "COMPLETE"}]
    /\ desc \in [Gates -> [Field -> Word]]
    /\ vec \in [Inputs -> Contents]
    /\ out \in [Outputs -> [Rows -> Element]]
    /\ epc \in {"poll", "test", "reload", "read", "rows", "release"}
    /\ ptr \in Gates \cup {Null} /\ egate \in Gates \cup {Null}
    /\ reg \in [Field -> Word]
    /\ unread \subseteq Field
    /\ \E j \in Jobs : row \in 0 .. j["rows"]

\* The emulator loads g_active_gate once to test an owner word and once more
\* to use it, and the boot core may submit, free and reuse gates in between:
\* from a successful test to the release, the gate it works on is the one the
\* boot core submitted last and is waiting for.
ServesTheSubmittedGate ==
    Working => /\ Submitted /\ active = cur /\ ptr = cur /\ owner[cur] = "GPU"
               /\ epc # "reload" => egate = cur

\* When igpu_wait_math can return, the gate is COMPLETE and every row of the
\* output buffer holds the element of the product that was asked for.
ReturnsTheProduct ==
    Submitted /\ owner[cur] = "CPU" =>
        /\ status[cur] = "COMPLETE"
        /\ \A r \in 0 .. (job["rows"] - 1) :
              out[job["output"]][r] =
                  Dot(job["weights"], vec[job["input"]], r)

\* The two above are not inductive.  What makes them so:
\* the boot core's side: what it has stored at each point of a submission, and
\* that a gate the heap may scribble over is never the one published;
Published == pc \in {"processing", "handover", "answer", "wait"}

CpuInv ==
    /\ pc \in {"answer", "validate"} => cur # MatmulGate
    /\ cur \in TestGates /\ (InCall \/ pc = "validate") => page[cur] = "test"
    /\ pc = "store" => \A f \in Field \ unset : desc[cur][f] = job[f]
    /\ Published => active = cur /\ \A f \in Field : desc[cur][f] = job[f]
    /\ pc \in {"store", "processing", "handover"} => owner[cur] = "CPU"
    /\ pc = "llm" /\ prefilled => active = MatmulGate
    /\ active \in TestGates => page[active] # "heap"
    /\ active # Null /\ ~Submitted => owner[active] = "CPU"

\* the emulator's side: an address it loaded that is no longer the published
\* one names a gate in the CPU's hands, and the boot core cannot get past the
\* submission that replaced it; and what it has read and computed so far.
EmulatorInv ==
    /\ epc = "test" => ptr # Null
    /\ epc = "test" /\ ptr # active =>
          Published /\ owner[ptr] = "CPU" /\ (Submitted => owner[cur] = "GPU")
    /\ epc = "read" => \A f \in Field \ unread : reg[f] = job[f]
    /\ epc \in {"rows", "release"} =>
          /\ \A f \in Field : reg[f] = job[f]
          /\ row \in 0 .. job["rows"]
          /\ \A r \in 0 .. (row - 1) :
                out[job["output"]][r] =
                    Dot(job["weights"], vec[job["input"]], r)
    /\ epc = "release" => row = job["rows"] /\ status[cur] = "COMPLETE"

IInv == TypeOK /\ CpuInv /\ EmulatorInv /\ ServesTheSubmittedGate
        /\ ReturnsTheProduct

\* A descriptor the emulator is entitled to serve does not change under it,
\* and neither does the vector it names.
DescriptorIsStable ==
    [][active # Null /\ owner[active] = "GPU"
         => /\ UNCHANGED <<active, desc>>
            /\ UNCHANGED vec]_vars

\* igpu_wait_math returns.
WaitEnds == pc = "wait" ~> pc # "wait"

\* The gate implements the atomic matrix product.
Abstract ==
    INSTANCE MatVec WITH
        Calls <- CallSet,
        Product <- Answer,
        None <- Null,
        call <- IF InCall THEN CallOf(job, vec[job["input"]]) ELSE Null,
        answer <- IF Submitted /\ owner[cur] = "CPU"
                  THEN [r \in 0 .. (job["rows"] - 1) |-> out[job["output"]][r]]
                  ELSE Null

ImplementsMatVec == Abstract!Spec
MatVecSafety == Abstract!Init /\ [][Abstract!Next]_(Abstract!vars)
=============================================================================
