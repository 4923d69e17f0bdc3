-------------------------------- MODULE Ata --------------------------------
(***************************************************************************)
(* The ATA driver (src/src/drivers/ata.c), register access by register      *)
(* access, under its two users: the command in the main loop, which may be  *)
(* in fat_write_entry of src/src/fs/fat32.c, and TAB, which reads sectors   *)
(* in the keyboard interrupt (src/src/drivers/keyboard.c:73) between any    *)
(* two accesses of the command.  The drive works on its own, may report     *)
(* errors and may take longer than the driver waits.                        *)
(***************************************************************************)
EXTENDS Integers, Sequences, FiniteSets

CONSTANTS
    REGS, Digit,    \* LBA registers and what one holds
    WORDS,          \* words of a sector
    POLLS,          \* status reads before a wait gives up (1000000 in the code)
    FatCopies,      \* the sectors of the entry in the copies of the FAT
    Free, Entry,    \* a FAT entry before and after it is written
    Fresh,          \* a word of a new sector
    Identity,       \* a word of the answer to IDENTIFY DEVICE
    Junk,           \* a word of an uninitialized buffer or of an idle bus
    Drive, None,    \* where an identity comes from; no command, no answer
    MaxCalls,       \* bound: calls of the command
    MaxTabs         \* bound: TABs

Sector == [1..REGS -> Digit]
Word == 1..WORDS
Actor == {"main", "tab"}

(* fat32_mount takes two copies of the FAT where the boot sector says none.  *)
ASSUME AtaAssumption ==
    /\ {REGS, WORDS, POLLS} \subseteq Nat \ {0} /\ {MaxCalls, MaxTabs} \subseteq Nat
    /\ Digit # {} /\ FatCopies \in Seq(Sector) /\ FatCopies # <<>>
    /\ None \notin {"read", "write", "identify", "flush"}

VARIABLES
    disk,       \* the sectors
    regs,       \* the drive's LBA registers
    dev,        \* the drive: status, command, its LBA, words passed, sector buffer
    cpu,        \* actor -> its call: where it is, LBA, index, polls left, buffer
    task,       \* what the command has left of fat_write_entry
    got,        \* history: actor -> what its last successful read returned
    want,       \* history: what the copies of the FAT should hold
    failed,     \* history: sectors the drive reported an error for
    torn,       \* history: which of the windows below was hit
    calls, tabs

vars == <<disk, regs, dev, cpu, task, got, want, failed, torn, calls, tabs>>

All(x) == [w \in Word |-> x]
Zero == [r \in 1..REGS |-> CHOOSE d \in Digit : TRUE]
Off == [pc |-> "off", cmd |-> None, lba |-> Zero, k |-> 1, polls |-> 0, buf |-> All(Junk)]
Ready == [st |-> "idle", err |-> FALSE, cmd |-> None, lba |-> Zero, pos |-> 1, buf |-> All(Junk)]
NoTask == [stage |-> "none", copy |-> 0, word |-> 0]

(* TAB's handler runs to its end before the command goes on. *)
At(a, where) == cpu[a].pc = where /\ (a = "main" => cpu["tab"].pc = "off")
OnTo(a, where) ==
    cpu' = [cpu EXCEPT ![a].pc = where, ![a].k = 1, ![a].polls = POLLS] /\ UNCHANGED got

-----------------------------------------------------------------------------
(* The driver.                                                               *)

(* A drive that is busy ignores its registers; one in the middle of a        *)
(* transfer may go either way.                                               *)
Takes(x, new) ==
    \/ dev.st # "busy" /\ x' = new
    \/ dev.st # "idle" /\ x' = x

SetReg(a) ==
    /\ At(a, "reg") /\ cpu[a].k <= REGS
    /\ Takes(regs, [regs EXCEPT ![cpu[a].k] = cpu[a].lba[cpu[a].k]])
    /\ cpu' = [cpu EXCEPT ![a].k = @ + 1]
    /\ UNCHANGED <<dev, task, got, torn>>

(* Mutant of Command: one register short. *)
Send(cmd) == Takes(dev, [Ready EXCEPT !.st = "busy", !.cmd = cmd, !.lba = regs])
CommandShort(a) ==
    /\ At(a, "reg") /\ cpu[a].k = REGS
    /\ Send(cpu[a].cmd)
    /\ OnTo(a, IF cpu[a].cmd = "identify" THEN "idbsy" ELSE "bsy")
    /\ UNCHANGED <<regs, task, torn>>

Command(a) ==
    /\ At(a, "reg") /\ cpu[a].k = REGS + 1
    /\ Send(cpu[a].cmd)
    /\ OnTo(a, IF cpu[a].cmd = "identify" THEN "idbsy" ELSE "bsy")
    /\ UNCHANGED <<regs, task, torn>>

(* The call is over; success is what a read returns.  Only fat_write_entry   *)
(* goes on with its buffer, and whether the read has failed or not.          *)
Return(a, success) ==
    LET keep == a = "main" /\ task.stage = "write"
        from == IF cpu[a].cmd = "identify" THEN Drive ELSE cpu[a].lba
    IN  /\ cpu' = [cpu EXCEPT ![a] = [Off EXCEPT !.buf = IF keep THEN cpu[a].buf ELSE @]]
        /\ got' = [got EXCEPT ![a] = IF success THEN [from |-> from, data |-> cpu[a].buf] ELSE @]

(* Mutant of Poll: the time runs on and nobody counts it. *)
PollForever(a) == UNCHANGED cpu

Poll(a) == cpu' = [cpu EXCEPT ![a].polls = @ - 1]

(* The loop of ata_wait_bsy and ata_wait_drq.  A wait that gives up leaves    *)
(* the drive to whatever it is doing.                                        *)
Wait(a, over, Then, GivenUp) ==
    /\ \/ cpu[a].polls > 0 /\ over /\ Then /\ UNCHANGED torn
       \/ cpu[a].polls > 0 /\ ~over /\ Poll(a) /\ UNCHANGED <<got, torn>>
       \/ /\ cpu[a].polls = 0 /\ GivenUp
          /\ torn' = torn \cup (IF dev.st # "idle" THEN {"timeout"} ELSE {})
    /\ UNCHANGED <<regs, dev, task>>

(* A read gives up where a write goes on whatever its waits say. *)
Unready(a, next) == IF cpu[a].cmd = "read" THEN Return(a, FALSE) ELSE OnTo(a, next)

WaitBsy(a) == At(a, "bsy") /\ Wait(a, dev.st # "busy", OnTo(a, "drq"), Unready(a, "drq"))
WaitDrq(a) ==
    /\ At(a, "drq")
    /\ Wait(a, dev.st = "drq" \/ dev.err,
            IF dev.st = "drq" THEN OnTo(a, IF cpu[a].cmd = "read" THEN "in" ELSE "out")
            ELSE Unready(a, "out"),
            Unready(a, "out"))

(* A word from the drive, or whatever an idle bus has; the last word ends    *)
(* the transfer.                                                             *)
InWord(a) ==
    /\ At(a, "in")
    /\ IF cpu[a].k > WORDS THEN Return(a, TRUE) /\ UNCHANGED dev
       ELSE LET open == dev.st = "drq" /\ dev.cmd # "write"
            IN  /\ cpu' = [cpu EXCEPT ![a].buf[cpu[a].k] = IF open THEN dev.buf[dev.pos] ELSE Junk,
                                      ![a].k = @ + 1]
                /\ dev' = IF ~open THEN dev
                          ELSE IF dev.pos = WORDS THEN Ready ELSE [dev EXCEPT !.pos = @ + 1]
                /\ UNCHANGED got
    /\ UNCHANGED <<regs, task, torn>>

(* A word to the drive, which is busy with the sector after the last one;    *)
(* then FLUSH CACHE, without a wait in between.                              *)
OutWord(a) ==
    /\ At(a, "out")
    /\ IF cpu[a].k > WORDS THEN Send("flush") /\ OnTo(a, "last")
       ELSE /\ cpu' = [cpu EXCEPT ![a].k = @ + 1]
            /\ dev' = IF dev.st = "drq" /\ dev.cmd = "write"
                      THEN [dev EXCEPT !.buf[dev.pos] = cpu[a].buf[cpu[a].k], !.pos = @ + 1,
                                       !.st = IF dev.pos = WORDS THEN "busy" ELSE @]
                      ELSE dev
            /\ UNCHANGED got
    /\ UNCHANGED <<regs, task, torn>>

LastWait(a) == At(a, "last") /\ Wait(a, dev.st # "busy", Return(a, FALSE), Return(a, FALSE))

(* ata_identify, whose waits have no end of their own; ata_get_drive_size    *)
(* reads the answer.                                                         *)
IdentifyWait(a) ==
    /\ \/ /\ At(a, "idbsy") /\ dev.st # "busy"
          /\ IF regs = Zero THEN OnTo(a, "iddrq") ELSE Return(a, FALSE)
       \/ At(a, "iddrq") /\ dev.st = "drq" /\ OnTo(a, "in")
    /\ UNCHANGED <<regs, dev, task, torn>>

-----------------------------------------------------------------------------
(* The command in the main loop. *)

Idle == cpu["main"].pc = "off" /\ task.stage = "none" /\ cpu["tab"].pc = "off"

Begin(a, cmd, s, buf) ==
    /\ cpu' = [cpu EXCEPT ![a] = [Off EXCEPT !.pc = "reg", !.cmd = cmd, !.lba = s, !.buf = buf]]
    /\ got' = [got EXCEPT ![a] = None]

FatSectors == {FatCopies[c] : c \in DOMAIN FatCopies}
Read(s) == Begin("main", "read", s, All(Junk)) /\ UNCHANGED <<task, want, torn>>
Write(s) == s \notin FatSectors /\ Begin("main", "write", s, All(Fresh)) /\ UNCHANGED <<task, want, torn>>
Identify == Begin("main", "identify", Zero, All(Junk)) /\ UNCHANGED <<task, want, torn>>

(* diskinfo reads the answer to IDENTIFY DEVICE without having asked. *)
Diskinfo ==
    /\ cpu' = [cpu EXCEPT !["main"] = [Off EXCEPT !.pc = "in", !.cmd = "identify"]]
    /\ torn' = torn \cup {"diskinfo"}
    /\ UNCHANGED <<task, got, want>>

FatWriteEntry(w) ==
    /\ task' = [stage |-> "read", copy |-> 1, word |-> w]
    /\ want' = [want EXCEPT ![w] = Entry]
    /\ UNCHANGED <<cpu, got, torn>>

(* Mutant of Base: every copy at the place of the first. *)
BaseFirst(copy) == FatCopies[1]

Base(copy) == FatCopies[copy]

(* fat_write_entry reads, changes and writes back the sector in every copy.  *)
EntryStep ==
    /\ At("main", "off")
    /\ \/ /\ task.stage = "read"
          /\ Begin("main", "read", Base(task.copy), All(Junk))
          /\ task' = [task EXCEPT !.stage = "write"]
       \/ /\ task.stage = "write"
          /\ Begin("main", "write", Base(task.copy), [cpu["main"].buf EXCEPT ![task.word] = Entry])
          /\ task' = IF task.copy = Len(FatCopies) THEN NoTask
                     ELSE [task EXCEPT !.stage = "read", !.copy = @ + 1]
    /\ UNCHANGED <<regs, dev, torn>>

-----------------------------------------------------------------------------
(* TAB tears a call of the command when some LBA register is written and     *)
(* TAB's differs from it, and when the drive is at work.                     *)
RegsTear(s) ==
    /\ cpu["main"].pc = "reg"
    /\ \E r \in 1..REGS : r < cpu["main"].k /\ s[r] # cpu["main"].lba[r]
Tears(s) == RegsTear(s) \/ dev.st # "idle"

Tab(s) ==
    /\ cpu["tab"].pc = "off" /\ tabs < MaxTabs /\ tabs' = tabs + 1
    /\ Begin("tab", "read", s, All(Junk))
    /\ torn' = torn \cup (IF Tears(s) THEN {"tab"} ELSE {})
    /\ UNCHANGED <<disk, regs, dev, task, want, failed, calls>>

-----------------------------------------------------------------------------
(* The drive: it has the sector to read, waits for the one to write, stores  *)
(* it, or has flushed its cache; or it reports an error, and a device that   *)
(* is no disk leaves a signature in the registers.                           *)
Work ==
    /\ dev.st = "busy"
    /\ dev' = CASE dev.cmd = "read"     -> [dev EXCEPT !.st = "drq", !.buf = disk[dev.lba]]
                [] dev.cmd = "identify" -> [dev EXCEPT !.st = "drq", !.buf = All(Identity)]
                [] dev.cmd = "write" /\ dev.pos = 1 -> [dev EXCEPT !.st = "drq"]
                [] OTHER -> Ready
    /\ disk' = IF dev.cmd = "write" /\ dev.pos > WORDS THEN [disk EXCEPT ![dev.lba] = dev.buf] ELSE disk
    /\ UNCHANGED <<regs, failed>>

Fail ==
    /\ dev.st = "busy"
    /\ dev' = [Ready EXCEPT !.err = TRUE]
    /\ IF dev.cmd = "identify" THEN regs' \in Sector ELSE UNCHANGED regs
    /\ failed' = failed \cup (IF dev.cmd \in {"read", "write"} THEN {dev.lba} ELSE {})
    /\ UNCHANGED disk

-----------------------------------------------------------------------------
Init ==
    /\ disk = [s \in Sector |-> All(IF s \in FatSectors THEN Free ELSE s)]
    /\ regs = Zero /\ dev = Ready /\ cpu = [a \in Actor |-> Off] /\ task = NoTask
    /\ got = [a \in Actor |-> None] /\ want = All(Free)
    /\ failed = {} /\ torn = {} /\ calls = 0 /\ tabs = 0

(* What a call does by itself once it has begun. *)
Step ==
    /\ \/ EntryStep
       \/ \E a \in Actor : \/ SetReg(a) \/ Command(a) \/ WaitBsy(a) \/ WaitDrq(a)
                           \/ InWord(a) \/ OutWord(a) \/ LastWait(a) \/ IdentifyWait(a)
    /\ UNCHANGED <<disk, want, failed, calls, tabs>>

Call ==
    /\ Idle /\ calls < MaxCalls /\ calls' = calls + 1
    /\ Identify \/ Diskinfo \/ (\E s \in Sector : Read(s) \/ Write(s)) \/ \E w \in Word : FatWriteEntry(w)
    /\ UNCHANGED <<disk, regs, dev, failed, tabs>>

Next ==
    \/ Step \/ Call
    \/ \E s \in Sector : Tab(s)
    \/ (Work \/ Fail) /\ UNCHANGED <<cpu, task, got, want, torn, calls, tabs>>

Spec == Init /\ [][Next]_vars

(* The processor does not stop in a call; of the drive nothing is assumed.   *)
FairSpec == Spec /\ WF_vars(Step)
=============================================================================
