----------------------------- MODULE AtaProofs -----------------------------
(***************************************************************************)
(* Proofs about module Ata, for every number of registers, words and        *)
(* copies of the FAT, any patience and any number of calls and TABs: sectors *)
(* are read and written whole, and the copies of the FAT keep their entries. *)
(***************************************************************************)
EXTENDS AtaProperties, TLAPS

-----------------------------------------------------------------------------
(* Types. *)

Place == {"off", "reg", "bsy", "drq", "in", "out", "last", "idbsy", "iddrq"}
CallRecord ==
    [pc : Place, cmd : {None, "read", "write", "identify"}, lba : Sector,
     k : Nat \ {0}, polls : Nat, buf : Contents]
DeviceRecord ==
    [st : {"idle", "busy", "drq"}, err : BOOLEAN,
     cmd : {None, "read", "write", "identify", "flush"}, lba : Sector,
     pos : 1..(WORDS + 1), buf : Contents]
AnswerRecord == [from : Sector \cup {Drive}, data : Contents]

(* Where a call is says which command it runs, and how far it may be.        *)
CallOK(c) ==
    /\ c \in CallRecord
    /\ c.pc = "off" <=> c.cmd = None
    /\ c.pc \in {"idbsy", "iddrq"} => c.cmd = "identify"
    /\ c.pc \in {"out", "last"} => c.cmd = "write"
    /\ c.pc \in {"bsy", "drq"} => c.cmd \in {"read", "write"}
    /\ c.pc = "in" => c.cmd \in {"read", "identify"}
    /\ c.pc = "reg" => c.k <= REGS + 1
    /\ c.pc \in {"in", "out"} => c.k <= WORDS + 1
    /\ c.cmd = "identify" => c.lba = Zero

DeviceOK(d) ==
    /\ d \in DeviceRecord
    /\ d.st = "drq" => d.pos <= WORDS
    /\ d.st = "busy" /\ d.cmd # "write" => d.pos = 1
    /\ d.err => d.st = "idle"
    /\ d.st # "idle" => d.cmd # None

TaskOK ==
    /\ task.stage \in {"none", "read", "write"}
    /\ task.stage # "none" => task.copy \in 1..Len(FatCopies) /\ task.word \in Word
    /\ task \in [stage : {"none", "read", "write"}, copy : Nat, word : Nat]

TypeOK ==
    /\ disk \in [Sector -> Contents] /\ regs \in Sector
    /\ DeviceOK(dev)
    /\ cpu \in [Actor -> CallRecord] /\ \A a \in Actor : CallOK(cpu[a])
    /\ cpu["tab"].cmd \in {None, "read"}
    /\ TaskOK
    /\ got \in [Actor -> {None} \cup AnswerRecord]
    /\ want \in Contents /\ failed \subseteq Sector

LEMMA Constants ==
    /\ REGS \in Nat \ {0} /\ WORDS \in Nat \ {0} /\ POLLS \in Nat \ {0}
    /\ Len(FatCopies) \in Nat \ {0} /\ \A c \in 1..Len(FatCopies) : FatCopies[c] \in Sector
    /\ None \notin {"read", "write", "identify", "flush"}
  <1>1. FatCopies \in Seq(Sector) /\ FatCopies # <<>>
    BY AtaAssumption
  <1>2. Len(FatCopies) \in Nat \ {0} /\ \A c \in 1..Len(FatCopies) : FatCopies[c] \in Sector
    BY <1>1
  <1> QED
    BY <1>2, AtaAssumption

LEMMA ConstantTypes ==
    /\ Zero \in Sector /\ FatSectors \subseteq Sector
    /\ \A x \in {Free, Entry, Fresh, Identity, Junk} \cup Sector : All(x) \in Contents
    /\ \A b \in Contents : \A w \in Word : b[w] \in {Free, Entry, Fresh, Identity, Junk} \cup Sector
  <1>1. Zero \in Sector
    <2>1. (CHOOSE d \in Digit : TRUE) \in Digit
      BY AtaAssumption
    <2> QED
      BY <2>1 DEF Zero, Sector
  <1>2. FatSectors \subseteq Sector
    <2>1. DOMAIN FatCopies = 1..Len(FatCopies)
      BY AtaAssumption
    <2> QED
      BY <2>1, Constants DEF FatSectors
  <1>3. \A x \in {Free, Entry, Fresh, Identity, Junk} \cup Sector : All(x) \in Contents
    BY DEF All, Contents
  <1>4. \A b \in Contents : \A w \in Word : b[w] \in {Free, Entry, Fresh, Identity, Junk} \cup Sector
    BY DEF Contents
  <1> QED
    BY <1>1, <1>2, <1>3, <1>4

(* A buffer with one word changed is a buffer.                               *)
LEMMA WordChanged ==
    ASSUME NEW b \in Contents, NEW w, NEW x \in {Free, Entry, Fresh, Identity, Junk} \cup Sector
    PROVE  [b EXCEPT ![w] = x] \in Contents
  BY DEF Contents

LEMMA OffOK ==
    /\ CallOK(Off) /\ Off.pc = "off" /\ Off.cmd = None /\ Off.lba = Zero
    /\ DeviceOK(Ready) /\ Ready.st = "idle" /\ Ready.err = FALSE /\ Ready.pos = 1
  <1>1. All(Junk) \in Contents /\ Zero \in Sector
    BY ConstantTypes
  <1>2. Off \in CallRecord /\ Off.pc = "off" /\ Off.cmd = None /\ Off.lba = Zero
    BY <1>1 DEF Off, CallRecord, Place
  <1>3. Ready \in DeviceRecord /\ Ready.st = "idle" /\ Ready.err = FALSE /\ Ready.pos = 1
    BY <1>1, Constants DEF Ready, DeviceRecord
  <1> QED
    BY <1>2, <1>3, Constants DEF CallOK, DeviceOK

-----------------------------------------------------------------------------
(* What the helpers of the driver do to a call. *)

Moved(c, where) == [c EXCEPT !.pc = where, !.k = 1, !.polls = POLLS]
Ended(buf) == [Off EXCEPT !.buf = buf]

LEMMA OnToCall ==
    ASSUME TypeOK, NEW a \in Actor, NEW where, OnTo(a, where)
    PROVE  cpu' = [cpu EXCEPT ![a] = Moved(cpu[a], where)] /\ got' = got
  BY DEF TypeOK, OnTo, Moved

LEMMA MovedFields ==
    ASSUME NEW c \in CallRecord, NEW where \in Place
    PROVE  /\ Moved(c, where) \in CallRecord
           /\ Moved(c, where).pc = where /\ Moved(c, where).k = 1 /\ Moved(c, where).polls = POLLS
           /\ Moved(c, where).cmd = c.cmd /\ Moved(c, where).lba = c.lba /\ Moved(c, where).buf = c.buf
  <1>1. POLLS \in Nat /\ 1 \in Nat \ {0}
    BY Constants
  <1>2. /\ Moved(c, where).pc = where /\ Moved(c, where).k = 1 /\ Moved(c, where).polls = POLLS
        /\ Moved(c, where).cmd = c.cmd /\ Moved(c, where).lba = c.lba /\ Moved(c, where).buf = c.buf
    BY DEF Moved, CallRecord
  <1>3. Moved(c, where) \in CallRecord
    BY <1>1 DEF Moved, CallRecord
  <1> QED
    BY <1>2, <1>3

LEMMA EndedFields ==
    ASSUME NEW buf \in Contents
    PROVE  /\ CallOK(Ended(buf)) /\ Ended(buf).pc = "off" /\ Ended(buf).cmd = None /\ Ended(buf).buf = buf
  <1>1. Off \in CallRecord /\ Off.pc = "off" /\ Off.cmd = None
    BY OffOK DEF CallOK
  <1>2. /\ Ended(buf) \in CallRecord /\ Ended(buf).pc = "off" /\ Ended(buf).cmd = None
        /\ Ended(buf).buf = buf
    BY <1>1 DEF Ended, CallRecord
  <1> QED
    BY <1>2, Constants DEF CallOK

(* A call that returns keeps its buffer only for fat_write_entry.            *)
LEMMA ReturnCall ==
    ASSUME TypeOK, NEW a \in Actor, NEW success, Return(a, success)
    PROVE  \E buf \in Contents :
              /\ cpu' = [cpu EXCEPT ![a] = Ended(buf)]
              /\ a = "main" /\ task.stage = "write" => buf = cpu[a].buf
              /\ got' = [got EXCEPT ![a] =
                           IF success
                           THEN [from |-> IF cpu[a].cmd = "identify" THEN Drive ELSE cpu[a].lba,
                                 data |-> cpu[a].buf]
                           ELSE @]
  <1> DEFINE buf == IF a = "main" /\ task.stage = "write" THEN cpu[a].buf ELSE Off.buf
  <1>1. buf \in Contents
    BY OffOK DEF TypeOK, CallOK, CallRecord
  <1>2. cpu' = [cpu EXCEPT ![a] = Ended(buf)]
    BY DEF Return, Ended
  <1> QED
    BY <1>1, <1>2 DEF Return

LEMMA SendDevice ==
    ASSUME TypeOK, NEW cmd \in {"read", "write", "identify", "flush"}, Send(cmd)
    PROVE  /\ DeviceOK(dev')
           /\ \/ /\ dev.st # "busy" /\ dev'.st = "busy" /\ dev'.cmd = cmd /\ dev'.lba = regs
                 /\ dev'.pos = 1 /\ dev'.err = FALSE
              \/ dev.st # "idle" /\ dev' = dev
  <1> DEFINE new == [Ready EXCEPT !.st = "busy", !.cmd = cmd, !.lba = regs]
  <1>1. Ready \in DeviceRecord /\ Ready.err = FALSE /\ Ready.pos = 1
    BY OffOK DEF DeviceOK
  <1>2. /\ new \in DeviceRecord /\ new.st = "busy" /\ new.cmd = cmd /\ new.lba = regs
        /\ new.pos = 1 /\ new.err = FALSE
    BY <1>1 DEF DeviceRecord, TypeOK
  <1>3. DeviceOK(new)
    BY <1>2, Constants DEF DeviceOK
  <1>4. \/ dev.st # "busy" /\ dev' = new
        \/ dev.st # "idle" /\ dev' = dev
    BY DEF Send, Takes
  <1> HIDE DEF new
  <1> QED
    BY <1>2, <1>3, <1>4 DEF TypeOK

-----------------------------------------------------------------------------
(* The invariant: as long as no window was hit, the drive works for the call *)
(* that runs, and for no other, and every call knows how far it has come.    *)

(* The drive d, at work for a call c: the sector is in its buffer and passed *)
(* up to the word the call waits for, or it is being stored.                 *)
Reads(c, d, dk) ==
    /\ d.cmd = "read" /\ c.cmd = "read" /\ d.lba = c.lba
    /\ \/ d.st = "busy" /\ c.pc = "bsy"
       \/ /\ d.st = "drq" /\ d.buf = dk[c.lba]
          /\ (c.pc \in {"bsy", "drq"} /\ d.pos = 1) \/ (c.pc = "in" /\ d.pos = c.k)
Identifies(c, d, rg) ==
    /\ d.cmd = "identify" /\ c.cmd = "identify" /\ rg = Zero
    /\ \/ d.st = "busy" /\ c.pc = "idbsy"
       \/ /\ d.st = "drq" /\ d.buf = All(Identity)
          /\ (c.pc \in {"idbsy", "iddrq"} /\ d.pos = 1) \/ (c.pc = "in" /\ d.pos = c.k)
Writes(c, d) ==
    /\ d.cmd = "write" /\ c.cmd = "write" /\ d.lba = c.lba
    /\ \/ d.st = "busy" /\ d.pos = 1 /\ c.pc = "bsy"
       \/ /\ d.st = "drq" /\ \A w \in Word : w < d.pos => d.buf[w] = c.buf[w]
          /\ (c.pc \in {"bsy", "drq"} /\ d.pos = 1) \/ (c.pc = "out" /\ d.pos = c.k)
       \/ /\ d.st = "busy" /\ d.pos = WORDS + 1 /\ d.buf = c.buf
          /\ (c.pc = "out" /\ c.k = WORDS + 1) \/ c.pc = "last"
Flushes(c, d) == d.cmd = "flush" /\ d.st = "busy" /\ c.cmd = "write" /\ c.pc = "last"
DriveInv(c, d, rg, dk) ==
    d.st # "idle" => Reads(c, d, dk) \/ Identifies(c, d, rg) \/ Writes(c, d) \/ Flushes(c, d)

(* A call c, for which the drive runs the command cmd, or none.              *)
CallInv(c, cmd, dk, rg, fl) ==
    /\ c.pc = "reg" => \A r \in 1..REGS : r < c.k => rg[r] = c.lba[r]
    /\ c.pc = "in" =>
          /\ \A w \in Word : w < c.k => c.buf[w] = IF c.cmd = "read" THEN dk[c.lba][w] ELSE Identity
          /\ c.k <= WORDS => cmd = c.cmd
    /\ c.cmd = "read" /\ c.pc \in {"bsy", "drq"} => cmd = "read" \/ c.lba \in fl
    /\ c.cmd = "write" /\ c.pc \in {"bsy", "drq", "out", "last"} =>
          cmd = "write" \/ dk[c.lba] = c.buf \/ c.lba \in fl

(* TAB's registers are those of the command, as far as it has written them.  *)
Agree(c, k, lba) == c.pc = "reg" => \A r \in 1..REGS : r < c.k /\ r < k => lba[r] = c.lba[r]

Active == IF cpu["tab"].pc # "off" THEN "tab" ELSE "main"
Running(d) == IF d.st # "idle" THEN d.cmd ELSE None
CmdFor(a) == IF a = Active THEN Running(dev) ELSE None

(* The copies of the FAT: what is written is what is wanted, those to come   *)
(* lack the new entry at most, and the others hold it.                       *)
IsWritten(s) == cpu["main"].cmd = "write" /\ cpu["main"].lba = s
ToCome(s) == task.stage # "none" /\ \E c \in task.copy..Len(FatCopies) : FatCopies[c] = s
CopyInv(s) ==
    /\ IsWritten(s) => cpu["main"].buf = want
    /\ ToCome(s) => \A w \in Word : w # task.word => disk[s][w] = want[w]
    /\ ~ToCome(s) /\ ~IsWritten(s) => disk[s] = want
TaskInv ==
    /\ task.stage # "none" => want[task.word] = Entry
    /\ task.stage = "write" =>
          /\ cpu["main"].cmd \in {None, "read"}
          /\ cpu["main"].cmd = "read" => cpu["main"].lba = FatCopies[task.copy]
          /\ cpu["main"].cmd = None /\ FatCopies[task.copy] \notin failed =>
                cpu["main"].buf = disk[FatCopies[task.copy]]
FatInv == TaskInv /\ \A s \in FatSectors : s \notin failed => CopyInv(s)

Sound ==
    /\ DriveInv(cpu[Active], dev, regs, disk)
    /\ \A a \in Actor : CallInv(cpu[a], CmdFor(a), disk, regs, failed)
    /\ cpu["tab"].pc = "reg" => Agree(cpu["main"], REGS + 1, cpu["tab"].lba)
    /\ FatInv

AtaInv == TypeOK /\ (torn = {} => Sound)

-----------------------------------------------------------------------------
(* A step of a call, by what becomes of the call, the registers and the      *)
(* drive.                                                                    *)

(* What the copies of the FAT need of a step of the command.                 *)
Serves(c, new) ==
    /\ new.cmd # None =>
          new.cmd = c.cmd /\ new.lba = c.lba /\ (c.cmd = "write" => new.buf = c.buf)
    /\ new.cmd = None =>
          /\ c.cmd = "write" => disk[c.lba] = c.buf \/ c.lba \in failed
          /\ c.cmd = "read" /\ task.stage = "write" => new.buf = disk[c.lba] \/ c.lba \in failed

StepInv(a, new, d, rg) ==
    /\ DriveInv(new, d, rg, disk)
    /\ new.pc = "off" => d.st = "idle"
    /\ CallInv(new, Running(d), disk, rg, failed)
    /\ new.cmd # None => new.lba = cpu[a].lba
    /\ new.pc = "reg" => cpu[a].pc = "reg"
    /\ a = "main" => Serves(cpu[a], new)
    /\ rg # regs => cpu[a].pc = "reg" /\ \E r \in 1..REGS : rg = [regs EXCEPT ![r] = cpu[a].lba[r]]

LEMMA ActorType == "main" \in Actor /\ "tab" \in Actor /\ \A a \in Actor : a = "main" \/ a = "tab"
  BY DEF Actor

LEMMA StepType ==
    ASSUME TypeOK, NEW a \in Actor,
           NEW new, CallOK(new), new.cmd \in {None, cpu[a].cmd}, cpu' = [cpu EXCEPT ![a] = new],
           regs' \in Sector, DeviceOK(dev'), got' \in [Actor -> {None} \cup AnswerRecord],
           UNCHANGED <<disk, want, failed, task>>
    PROVE  TypeOK'
  <1>1. new \in CallRecord
    BY DEF CallOK
  <1>2. cpu' \in [Actor -> CallRecord] /\ cpu'[a] = new /\ \A b \in Actor : b # a => cpu'[b] = cpu[b]
    BY <1>1 DEF TypeOK
  <1>3. \A b \in Actor : CallOK(cpu'[b])
    BY <1>2 DEF TypeOK
  <1>4. cpu'["tab"].cmd \in {None, "read"}
    BY <1>2, ActorType DEF TypeOK
  <1>5. TaskOK'
    BY DEF TypeOK, TaskOK
  <1> QED
    BY <1>2, <1>3, <1>4, <1>5 DEF TypeOK

(* The copies of the FAT through a step of the command.                      *)
LEMMA FatServed ==
    ASSUME TypeOK, FatInv, cpu["main"].cmd # None,
           NEW new, Serves(cpu["main"], new), cpu'["main"] = new,
           UNCHANGED <<disk, want, failed, task>>
    PROVE  FatInv'
  <1> DEFINE c == cpu["main"]
  <1>1. TaskInv'
    <2>1. want[task.word] = Entry \/ task.stage = "none"
      BY DEF FatInv, TaskInv
    <2>2. CASE task.stage = "write"
      <3>1. c.cmd \in {None, "read"} /\ (c.cmd = "read" => c.lba = FatCopies[task.copy])
        BY <2>2 DEF FatInv, TaskInv
      <3>2. new.cmd \in {None, "read"} /\ (new.cmd = "read" => new.lba = FatCopies[task.copy])
        BY <3>1, Constants DEF Serves
      <3>3. new.cmd = None /\ FatCopies[task.copy] \notin failed => new.buf = disk[FatCopies[task.copy]]
        BY <2>2, <3>1 DEF Serves
      <3> QED
        BY <2>1, <2>2, <3>2, <3>3 DEF TaskInv
    <2> QED
      BY <2>1, <2>2 DEF TaskInv
  <1>2. ASSUME NEW s \in FatSectors, s \notin failed PROVE CopyInv(s)'
    <2>1. CopyInv(s) /\ (ToCome(s)' <=> ToCome(s))
      BY <1>2 DEF FatInv, ToCome
    <2>2. IsWritten(s)' => IsWritten(s) /\ new.buf = c.buf
      BY Constants DEF IsWritten, Serves
    <2>3. IsWritten(s) /\ ~IsWritten(s)' => disk[s] = want
      BY <1>2, <2>1, Constants DEF IsWritten, Serves, CopyInv
    <2>4. IsWritten(s)' => cpu'["main"].buf = want'
      BY <2>1, <2>2 DEF CopyInv
    <2>5. ToCome(s)' => \A w \in Word : w # task'.word => disk'[s][w] = want'[w]
      BY <2>1 DEF CopyInv
    <2>6. ~ToCome(s)' /\ ~IsWritten(s)' => disk'[s] = want'
      BY <2>1, <2>3 DEF CopyInv
    <2> QED
      BY <2>4, <2>5, <2>6 DEF CopyInv
  <1> QED
    BY <1>1, <1>2 DEF FatInv

(* TAB does not matter to them.                                              *)
LEMMA FatAside ==
    ASSUME FatInv, cpu'["main"] = cpu["main"], UNCHANGED <<disk, want, failed, task>>
    PROVE  FatInv'
  BY DEF FatInv, TaskInv, CopyInv, IsWritten, ToCome

LEMMA CallStep ==
    ASSUME AtaInv, NEW a \in Actor, cpu[a].pc # "off", a = "main" => cpu["tab"].pc = "off",
           NEW new, CallOK(new), new.cmd \in {None, cpu[a].cmd}, cpu' = [cpu EXCEPT ![a] = new],
           regs' \in Sector, DeviceOK(dev'), got' \in [Actor -> {None} \cup AnswerRecord],
           UNCHANGED <<disk, want, failed, task>>, torn' = {} => torn = {},
           torn' = {} => StepInv(a, new, dev', regs')
    PROVE  AtaInv'
  <1>1. TypeOK'
    BY StepType DEF AtaInv
  <1>2. SUFFICES ASSUME torn' = {} PROVE Sound'
    BY <1>1 DEF AtaInv
  <1>3. TypeOK /\ Sound /\ StepInv(a, new, dev', regs')
    BY <1>2 DEF AtaInv
  <1>4. cpu'[a] = new /\ \A b \in Actor : b # a => cpu'[b] = cpu[b]
    BY <1>3 DEF TypeOK
  <1>5. a = Active
    BY ActorType DEF Active
  <1>6. new.pc = "off" \/ Active' = a
    BY <1>4, <1>5, ActorType DEF Active
  <1>7. new.pc = "off" => Active' = "main" /\ dev'.st = "idle"
    BY <1>3, <1>4, <1>5, ActorType DEF Active, StepInv
  <1>8. DriveInv(cpu'[Active'], dev', regs', disk)
    BY <1>3, <1>4, <1>6, <1>7 DEF StepInv, DriveInv
  <1>9. CmdFor(a)' = Running(dev')
    BY <1>6, <1>7 DEF CmdFor, Running
  <1>10. CallInv(new, CmdFor(a)', disk, regs', failed)
    BY <1>3, <1>9 DEF StepInv
  <1>11. ASSUME NEW b \in Actor, b # a
         PROVE  CallInv(cpu[b], CmdFor(b)', disk, regs', failed)
    <2>1. CASE a = "main"
      <3>1. cpu[b].pc = "off"
        BY <1>11, <2>1, ActorType
      <3>2. cpu[b].cmd = None
        BY <1>3, <3>1 DEF TypeOK, CallOK
      <3> QED
        BY <3>1, <3>2, Constants DEF CallInv
    <2>2. CASE a = "tab"
      <3>1. b = "main" /\ CmdFor(b) = None /\ CmdFor(b)' = None
        BY <1>5, <1>6, <1>7, <1>11, <2>2, ActorType DEF CmdFor, Running
      <3>2. CallInv(cpu[b], None, disk, regs, failed)
        BY <1>3, <3>1 DEF Sound
      <3>3. cpu[b].pc = "reg" => \A r \in 1..REGS : r < cpu[b].k => regs'[r] = cpu[b].lba[r]
        <4> SUFFICES ASSUME cpu[b].pc = "reg", NEW r \in 1..REGS, r < cpu[b].k
                     PROVE  regs'[r] = cpu[b].lba[r]
          OBVIOUS
        <4>1. regs[r] = cpu[b].lba[r]
          BY <3>2 DEF CallInv
        <4>2. CASE regs' = regs
          BY <4>1, <4>2
        <4>3. CASE regs' # regs
          <5>1. cpu["tab"].pc = "reg" /\ \E i \in 1..REGS : regs' = [regs EXCEPT ![i] = cpu["tab"].lba[i]]
            BY <1>3, <2>2, <4>3 DEF StepInv
          <5>2. PICK i \in 1..REGS : regs' = [regs EXCEPT ![i] = cpu["tab"].lba[i]]
            BY <5>1
          <5>3. regs \in [1..REGS -> Digit]
            BY <1>3 DEF TypeOK, Sector
          <5>4. r < REGS + 1
            BY Constants
          <5>5. cpu["tab"].lba[r] = cpu[b].lba[r]
            BY <1>3, <3>1, <5>1, <5>4 DEF Sound, Agree
          <5> QED
            BY <4>1, <5>2, <5>3, <5>5
        <4> QED
          BY <4>2, <4>3
      <3> QED
        BY <3>1, <3>2, <3>3 DEF CallInv
    <2> QED
      BY <2>1, <2>2, ActorType
  <1>12. \A b \in Actor : CallInv(cpu'[b], CmdFor(b)', disk', regs', failed')
    BY <1>4, <1>10, <1>11
  <1>13. cpu'["tab"].pc = "reg" => Agree(cpu'["main"], REGS + 1, cpu'["tab"].lba)
    <2>1. CASE a = "main"
      BY <1>4, <2>1, ActorType
    <2>2. CASE a = "tab"
      <3> SUFFICES ASSUME new.pc = "reg" PROVE Agree(cpu["main"], REGS + 1, new.lba)
        BY <1>4, <2>2, ActorType
      <3>1. new.cmd # None
        BY DEF CallOK
      <3>2. cpu["tab"].pc = "reg" /\ new.lba = cpu["tab"].lba
        BY <1>3, <2>2, <3>1 DEF StepInv
      <3> QED
        BY <1>3, <3>2 DEF Sound
    <2> QED
      BY <2>1, <2>2, ActorType
  <1>14. FatInv'
    <2>1. CASE a = "main"
      <3>1. cpu["main"].cmd # None
        BY <1>3, <2>1 DEF TypeOK, CallOK
      <3> QED
        BY <1>3, <1>4, <2>1, <3>1, FatServed DEF Sound, StepInv
    <2>2. CASE a = "tab"
      BY <1>3, <1>4, <2>2, ActorType, FatAside DEF Sound
    <2> QED
      BY <2>1, <2>2, ActorType
  <1> QED
    BY <1>8, <1>12, <1>13, <1>14 DEF Sound

-----------------------------------------------------------------------------
(* The steps of a call. *)

LEMMA SameSector ==
    ASSUME NEW s \in Sector, NEW t \in Sector, \A r \in 1..REGS : s[r] = t[r]
    PROVE  s = t
  <1>1. s = [r \in 1..REGS |-> s[r]] /\ t = [r \in 1..REGS |-> t[r]]
    BY DEF Sector
  <1>2. [r \in 1..REGS |-> s[r]] = [r \in 1..REGS |-> t[r]]
    OBVIOUS
  <1> QED
    BY <1>1, <1>2, Zenon

LEMMA SameContents ==
    ASSUME NEW b \in Contents, NEW e \in Contents, \A w \in Word : b[w] = e[w]
    PROVE  b = e
  <1>1. b = [w \in Word |-> b[w]] /\ e = [w \in Word |-> e[w]]
    BY DEF Contents
  <1>2. [w \in Word |-> b[w]] = [w \in Word |-> e[w]]
    OBVIOUS
  <1> QED
    BY <1>1, <1>2, Zenon

LEMMA Here ==
    ASSUME AtaInv, NEW a \in Actor, cpu[a].pc # "off", a = "main" => cpu["tab"].pc = "off"
    PROVE  /\ TypeOK /\ CallOK(cpu[a]) /\ cpu[a] \in CallRecord /\ cpu[a].cmd # None
           /\ DeviceOK(dev) /\ dev \in DeviceRecord
           /\ torn = {} => /\ DriveInv(cpu[a], dev, regs, disk)
                           /\ CallInv(cpu[a], Running(dev), disk, regs, failed)
  <1>1. TypeOK /\ CallOK(cpu[a]) /\ DeviceOK(dev)
    BY DEF AtaInv, TypeOK
  <1>2. Active = a
    BY ActorType DEF Active
  <1> QED
    BY <1>1, <1>2 DEF CallOK, DeviceOK, AtaInv, Sound, CmdFor

LEMMA SetRegStep ==
    ASSUME AtaInv, NEW a \in Actor, SetReg(a), UNCHANGED <<disk, want, failed>>
    PROVE  AtaInv'
  <1> DEFINE c == cpu[a]
             new == [c EXCEPT !.k = @ + 1]
             set == [regs EXCEPT ![c.k] = c.lba[c.k]]
  <1>1. c.pc = "reg" /\ c.k <= REGS
    BY DEF SetReg, At
  <1>2. /\ TypeOK /\ CallOK(c) /\ c \in CallRecord /\ c.cmd # None
        /\ torn = {} => DriveInv(c, dev, regs, disk) /\ CallInv(c, Running(dev), disk, regs, failed)
    BY Here DEF SetReg, At
  <1>3. /\ new \in CallRecord /\ new.pc = "reg" /\ new.cmd = c.cmd /\ new.lba = c.lba
        /\ new.k = c.k + 1 /\ new.buf = c.buf
    BY <1>2 DEF CallRecord, SetReg, At
  <1>4. cpu' = [cpu EXCEPT ![a] = new] /\ UNCHANGED <<dev, task, got, torn>>
    BY DEF SetReg
  <1>5. c.k \in 1..REGS /\ regs \in [1..REGS -> Digit] /\ c.lba \in [1..REGS -> Digit]
    BY <1>2, Constants DEF TypeOK, CallRecord, Sector, SetReg
  <1>6. CallOK(new)
    BY <1>2, <1>3, <1>5, Constants DEF CallOK, SetReg, At
  <1>7. (regs' = set \/ (dev.st # "idle" /\ regs' = regs)) /\ set \in Sector
    BY <1>5 DEF SetReg, Takes, Sector
  <1>8. ASSUME torn' = {} PROVE StepInv(a, new, dev', regs')
    <2>1. dev.st = "idle"
      BY <1>2, <1>4, <1>8 DEF DriveInv, Reads, Identifies, Writes, Flushes, SetReg, At
    <2>2. regs' = set
      BY <1>7, <2>1
    <2>3. \A r \in 1..REGS : r < c.k + 1 => set[r] = c.lba[r]
      <3> SUFFICES ASSUME NEW r \in 1..REGS, r < c.k + 1 PROVE set[r] = c.lba[r]
        OBVIOUS
      <3>1. r < c.k => regs[r] = c.lba[r]
        BY <1>2, <1>4, <1>8 DEF CallInv, SetReg, At
      <3>2. r < c.k \/ r = c.k
        BY <1>5
      <3> QED
        BY <1>5, <3>1, <3>2
    <2>4. CallInv(new, Running(dev'), disk, regs', failed)
      BY <1>3, <2>2, <2>3 DEF CallInv
    <2>5. DriveInv(new, dev', regs', disk)
      BY <1>4, <2>1 DEF DriveInv
    <2>6. regs' # regs => cpu[a].pc = "reg" /\ \E r \in 1..REGS : regs' = [regs EXCEPT ![r] = cpu[a].lba[r]]
      BY <1>5, <2>2 DEF SetReg, At
    <2>7. a = "main" => Serves(cpu[a], new)
      BY <1>2, <1>3 DEF Serves
    <2> HIDE DEF new, set
    <2> QED
      BY <1>3, <2>4, <2>5, <2>6, <2>7 DEF StepInv, SetReg, At
  <1>9. regs' \in Sector /\ got' \in [Actor -> {None} \cup AnswerRecord] /\ DeviceOK(dev')
    BY <1>2, <1>4, <1>7 DEF TypeOK
  <1> HIDE DEF new, set
  <1> QED
    BY <1>3, <1>4, <1>6, <1>8, <1>9, CallStep DEF SetReg, At

LEMMA CommandStep ==
    ASSUME AtaInv, NEW a \in Actor, Command(a), UNCHANGED <<disk, want, failed>>
    PROVE  AtaInv'
  <1> DEFINE c == cpu[a]
             where == IF c.cmd = "identify" THEN "idbsy" ELSE "bsy"
             new == Moved(c, where)
  <1>1. c.pc = "reg" /\ c.k = REGS + 1
    BY DEF Command, At
  <1>2. /\ TypeOK /\ CallOK(c) /\ c \in CallRecord /\ c.cmd # None
        /\ torn = {} => DriveInv(c, dev, regs, disk) /\ CallInv(c, Running(dev), disk, regs, failed)
    BY Here DEF Command, At
  <1>3. where \in Place /\ c.cmd \in {"read", "write", "identify"}
    BY <1>2 DEF Place, CallRecord
  <1>4. /\ new \in CallRecord /\ new.pc = where /\ new.k = 1
        /\ new.cmd = c.cmd /\ new.lba = c.lba /\ new.buf = c.buf
    BY <1>2, <1>3, MovedFields
  <1>5. cpu' = [cpu EXCEPT ![a] = new] /\ UNCHANGED <<regs, task, got, torn>>
    BY <1>2, OnToCall DEF Command
  <1>6. CallOK(new)
    BY <1>2, <1>3, <1>4, Constants DEF CallOK
  <1>7. /\ DeviceOK(dev')
        /\ \/ /\ dev.st # "busy" /\ dev'.st = "busy" /\ dev'.cmd = c.cmd /\ dev'.lba = regs
              /\ dev'.pos = 1 /\ dev'.err = FALSE
           \/ dev.st # "idle" /\ dev' = dev
    <2>1. PICK cmd \in {"read", "write", "identify", "flush"} : cmd = c.cmd
      BY <1>3
    <2>2. Send(cmd)
      BY <2>1 DEF Command, Send
    <2> QED
      BY <1>2, <2>1, <2>2, SendDevice
  <1>8. ASSUME torn' = {} PROVE StepInv(a, new, dev', regs')
    <2>1. dev.st = "idle"
      BY <1>1, <1>2, <1>5, <1>8 DEF DriveInv, Reads, Identifies, Writes, Flushes
    <2>2. /\ dev'.st = "busy" /\ dev'.cmd = c.cmd /\ dev'.lba = regs /\ dev'.pos = 1
      BY <1>7, <2>1
    <2>3. regs = c.lba
      <3>1. regs \in Sector /\ c.lba \in Sector
        BY <1>2 DEF TypeOK, CallRecord
      <3>2. \A r \in 1..REGS : r < c.k
        BY <1>1, Constants
      <3>3. \A r \in 1..REGS : regs[r] = c.lba[r]
        BY <1>1, <1>2, <1>5, <1>8, <3>2 DEF CallInv
      <3> QED
        BY <3>1, <3>3, SameSector
    <2>4. DriveInv(new, dev', regs', disk)
      <3>1. CASE c.cmd = "read"
        BY <1>4, <2>2, <2>3, <3>1 DEF DriveInv, Reads
      <3>2. CASE c.cmd = "write"
        BY <1>4, <2>2, <2>3, <3>2 DEF DriveInv, Writes
      <3>3. CASE c.cmd = "identify"
        BY <1>2, <1>4, <1>5, <2>2, <2>3, <3>3 DEF DriveInv, Identifies, CallOK
      <3> QED
        BY <1>3, <3>1, <3>2, <3>3
    <2>5. Running(dev') = c.cmd
      BY <2>2 DEF Running
    <2>6. CallInv(new, Running(dev'), disk, regs', failed)
      BY <1>4, <2>5 DEF CallInv
    <2>7. a = "main" => Serves(cpu[a], new)
      BY <1>2, <1>4 DEF Serves
    <2> HIDE DEF new
    <2> QED
      BY <1>4, <1>5, <2>4, <2>6, <2>7 DEF StepInv
  <1>9. regs' \in Sector /\ got' \in [Actor -> {None} \cup AnswerRecord]
    BY <1>2, <1>5 DEF TypeOK
  <1> HIDE DEF new
  <1> QED
    BY <1>4, <1>5, <1>6, <1>7, <1>8, <1>9, CallStep DEF Command, At

(* A call that goes on to another place, polls once more, or is over.        *)
LEMMA MoveStep ==
    ASSUME AtaInv, NEW a \in Actor, cpu[a].pc # "off", a = "main" => cpu["tab"].pc = "off",
           NEW where \in Place \ {"off", "reg"}, OnTo(a, where),
           CallOK(Moved(cpu[a], where)),
           UNCHANGED <<disk, regs, dev, task, want, failed>>, torn' = {} => torn = {},
           torn' = {} => /\ DriveInv(Moved(cpu[a], where), dev, regs, disk)
                         /\ CallInv(Moved(cpu[a], where), Running(dev), disk, regs, failed)
    PROVE  AtaInv'
  <1> DEFINE c == cpu[a]
             new == Moved(c, where)
  <1>1. /\ TypeOK /\ c \in CallRecord /\ c.cmd # None /\ DeviceOK(dev)
    BY Here
  <1>2. /\ new \in CallRecord /\ new.pc = where /\ new.cmd = c.cmd /\ new.lba = c.lba /\ new.buf = c.buf
    BY <1>1, MovedFields
  <1>3. cpu' = [cpu EXCEPT ![a] = new] /\ got' = got
    BY <1>1, OnToCall
  <1>4. a = "main" => Serves(c, new)
    BY <1>1, <1>2 DEF Serves
  <1>5. torn' = {} => StepInv(a, new, dev', regs')
    BY <1>2, <1>4 DEF StepInv
  <1>6. regs' \in Sector /\ got' \in [Actor -> {None} \cup AnswerRecord] /\ DeviceOK(dev')
    BY <1>1, <1>3 DEF TypeOK
  <1>7. CallOK(new)
    OBVIOUS
  <1> HIDE DEF new
  <1> QED
    BY <1>2, <1>3, <1>5, <1>6, <1>7, CallStep

LEMMA PollStep ==
    ASSUME AtaInv, NEW a \in Actor, cpu[a].pc \notin {"off", "reg"}, a = "main" => cpu["tab"].pc = "off",
           cpu[a].polls > 0, Poll(a),
           UNCHANGED <<disk, regs, dev, task, want, failed, got, torn>>
    PROVE  AtaInv'
  <1> DEFINE c == cpu[a]
             new == [c EXCEPT !.polls = @ - 1]
  <1>1. /\ TypeOK /\ CallOK(c) /\ c \in CallRecord /\ c.cmd # None /\ DeviceOK(dev)
        /\ torn = {} => DriveInv(c, dev, regs, disk) /\ CallInv(c, Running(dev), disk, regs, failed)
    BY Here
  <1>2. c.polls - 1 \in Nat
    BY <1>1 DEF CallRecord
  <1>3. /\ new \in CallRecord /\ new.pc = c.pc /\ new.cmd = c.cmd /\ new.lba = c.lba
        /\ new.k = c.k /\ new.buf = c.buf
    BY <1>1, <1>2 DEF CallRecord
  <1>4. cpu' = [cpu EXCEPT ![a] = new]
    BY DEF Poll
  <1>5. CallOK(new)
    BY <1>1, <1>3 DEF CallOK
  <1> HIDE DEF new
  <1>6. torn' = {} => /\ DriveInv(new, dev, regs, disk)
                      /\ CallInv(new, Running(dev), disk, regs, failed)
    <2>1. DriveInv(c, dev, regs, disk) => DriveInv(new, dev, regs, disk)
      BY <1>3 DEF DriveInv, Reads, Identifies, Writes, Flushes
    <2>2. CallInv(c, Running(dev), disk, regs, failed) => CallInv(new, Running(dev), disk, regs, failed)
      BY <1>3 DEF CallInv
    <2> QED
      BY <1>1, <2>1, <2>2
  <1>7. a = "main" => Serves(c, new)
    BY <1>1, <1>3 DEF Serves
  <1>8. torn' = {} => StepInv(a, new, dev', regs')
    BY <1>3, <1>6, <1>7 DEF StepInv
  <1>9. regs' \in Sector /\ got' \in [Actor -> {None} \cup AnswerRecord] /\ DeviceOK(dev')
    BY <1>1 DEF TypeOK
  <1> QED
    BY <1>3, <1>4, <1>5, <1>8, <1>9, CallStep

LEMMA ReturnStep ==
    ASSUME AtaInv, NEW a \in Actor, cpu[a].pc # "off", a = "main" => cpu["tab"].pc = "off",
           NEW success, Return(a, success),
           UNCHANGED <<disk, regs, dev, task, want, failed>>, torn' = {} => torn = {},
           torn' = {} => /\ dev.st = "idle"
                         /\ cpu[a].cmd \in {"read", "write"} =>
                               disk[cpu[a].lba] = cpu[a].buf \/ cpu[a].lba \in failed
    PROVE  AtaInv'
  <1> DEFINE c == cpu[a]
  <1>1. TypeOK /\ CallOK(c) /\ c \in CallRecord /\ c.cmd # None /\ DeviceOK(dev)
    BY Here
  <1>2. PICK buf \in Contents :
              /\ cpu' = [cpu EXCEPT ![a] = Ended(buf)]
              /\ a = "main" /\ task.stage = "write" => buf = cpu[a].buf
              /\ got' = [got EXCEPT ![a] =
                           IF success
                           THEN [from |-> IF cpu[a].cmd = "identify" THEN Drive ELSE cpu[a].lba,
                                 data |-> cpu[a].buf]
                           ELSE @]
    BY <1>1, ReturnCall
  <1> DEFINE new == Ended(buf)
  <1>3. CallOK(new) /\ new.pc = "off" /\ new.cmd = None /\ new.buf = buf
    BY EndedFields
  <1>4. got' \in [Actor -> {None} \cup AnswerRecord]
    <2>1. [from |-> IF c.cmd = "identify" THEN Drive ELSE c.lba, data |-> c.buf] \in AnswerRecord
      BY <1>1 DEF CallRecord, AnswerRecord
    <2> QED
      BY <1>1, <1>2, <2>1 DEF TypeOK
  <1>5. ASSUME torn' = {} PROVE StepInv(a, new, dev', regs')
    <2>1. a = "main" => Serves(c, new)
      BY <1>2, <1>3, <1>5 DEF Serves
    <2>2. DriveInv(new, dev', regs', disk) /\ CallInv(new, Running(dev'), disk, regs', failed)
      BY <1>3, <1>5, Constants DEF DriveInv, CallInv
    <2> HIDE DEF new
    <2> QED
      BY <1>3, <1>5, <2>1, <2>2 DEF StepInv
  <1>6. regs' \in Sector /\ DeviceOK(dev')
    BY <1>1 DEF TypeOK
  <1>7. cpu' = [cpu EXCEPT ![a] = new] /\ new.cmd \in {None, cpu[a].cmd}
    BY <1>2, <1>3
  <1> HIDE DEF new
  <1> QED
    BY <1>3, <1>4, <1>5, <1>6, <1>7, CallStep

(* A read or a write that does not get its drive ready: the drive has        *)
(* reported an error, or has done what it was asked for.                     *)
LEMMA UnreadyStep ==
    ASSUME AtaInv, NEW a \in Actor, NEW where \in {"drq", "out"},
           cpu[a].pc \in {"bsy", "drq"}, a = "main" => cpu["tab"].pc = "off",
           Unready(a, where), torn' = {} => torn = {} /\ dev.st = "idle",
           UNCHANGED <<disk, regs, dev, task, want, failed>>
    PROVE  AtaInv'
  <1> DEFINE c == cpu[a]
  <1>1. /\ TypeOK /\ CallOK(c) /\ c \in CallRecord /\ c.cmd \in {"read", "write"}
        /\ torn = {} => DriveInv(c, dev, regs, disk) /\ CallInv(c, Running(dev), disk, regs, failed)
    BY Here DEF CallOK
  <1>2. torn' = {} => torn = {} /\ dev.st = "idle" /\ Running(dev) = None
    BY DEF Running
  <1>3. CASE c.cmd = "read"
    <2>1. Return(a, FALSE)
      BY <1>3 DEF Unready
    <2>2. torn' = {} => c.lba \in failed
      BY <1>1, <1>2, <1>3, Constants DEF CallInv
    <2> QED
      BY <1>2, <2>1, <2>2, ReturnStep
  <1>4. CASE c.cmd = "write"
    <2>1. OnTo(a, where) /\ where \in Place \ {"off", "reg"}
      BY <1>4 DEF Unready, Place
    <2>2. torn' = {} => disk[c.lba] = c.buf \/ c.lba \in failed
      BY <1>1, <1>2, <1>4, Constants DEF CallInv
    <2> DEFINE new == Moved(c, where)
    <2>3. /\ new \in CallRecord /\ new.pc = where /\ new.cmd = c.cmd /\ new.lba = c.lba /\ new.buf = c.buf
          /\ new.k = 1
      BY <1>1, <2>1, MovedFields
    <2>4. CallOK(new)
      BY <1>1, <1>4, <2>3, Constants DEF CallOK
    <2>5. torn' = {} => DriveInv(new, dev, regs, disk) /\ CallInv(new, Running(dev), disk, regs, failed)
      BY <1>2, <1>4, <2>2, <2>3 DEF DriveInv, CallInv
    <2> QED
      BY <1>2, <2>1, <2>4, <2>5, MoveStep
  <1> QED
    BY <1>1, <1>3, <1>4

LEMMA WaitBsyStep ==
    ASSUME AtaInv, NEW a \in Actor, WaitBsy(a), UNCHANGED <<disk, want, failed>>
    PROVE  AtaInv'
  <1> DEFINE c == cpu[a]
  <1>1. /\ c.pc = "bsy" /\ (a = "main" => cpu["tab"].pc = "off")
        /\ UNCHANGED <<regs, dev, task>>
    BY DEF WaitBsy, At, Wait
  <1>2. /\ TypeOK /\ CallOK(c) /\ c \in CallRecord /\ c.cmd \in {"read", "write"} /\ DeviceOK(dev)
        /\ torn = {} => DriveInv(c, dev, regs, disk) /\ CallInv(c, Running(dev), disk, regs, failed)
    BY <1>1, Here DEF CallOK
  <1>3. CASE c.polls > 0 /\ dev.st # "busy" /\ OnTo(a, "drq") /\ UNCHANGED torn
    <2> DEFINE new == Moved(c, "drq")
    <2>1. /\ new \in CallRecord /\ new.pc = "drq" /\ new.cmd = c.cmd /\ new.lba = c.lba /\ new.buf = c.buf
          /\ new.k = 1
      BY <1>2, MovedFields DEF Place
    <2>2. CallOK(new)
      BY <1>1, <1>2, <2>1, Constants DEF CallOK
    <2>3. DriveInv(c, dev, regs, disk) => DriveInv(new, dev, regs, disk)
      BY <1>1, <1>2, <1>3, <2>1 DEF DriveInv, Reads, Identifies, Writes, Flushes
    <2>4. CallInv(c, Running(dev), disk, regs, failed) => CallInv(new, Running(dev), disk, regs, failed)
      BY <1>1, <2>1 DEF CallInv
    <2> HIDE DEF new
    <2>5. "drq" \in Place \ {"off", "reg"}
      BY DEF Place
    <2> QED
      BY <1>1, <1>2, <1>3, <2>2, <2>3, <2>4, <2>5, MoveStep DEF new
  <1>4. CASE c.polls > 0 /\ dev.st = "busy" /\ Poll(a) /\ UNCHANGED <<got, torn>>
    BY <1>1, <1>4, PollStep
  <1>5. CASE /\ c.polls = 0 /\ Unready(a, "drq")
             /\ torn' = torn \cup (IF dev.st # "idle" THEN {"timeout"} ELSE {})
    <2>1. torn' = {} => torn = {} /\ dev.st = "idle"
      BY <1>5
    <2> QED
      BY <1>1, <1>5, <2>1, UnreadyStep
  <1> QED
    BY <1>3, <1>4, <1>5 DEF WaitBsy, Wait

LEMMA WaitDrqStep ==
    ASSUME AtaInv, NEW a \in Actor, WaitDrq(a), UNCHANGED <<disk, want, failed>>
    PROVE  AtaInv'
  <1> DEFINE c == cpu[a]
             where == IF c.cmd = "read" THEN "in" ELSE "out"
  <1>1. /\ c.pc = "drq" /\ (a = "main" => cpu["tab"].pc = "off")
        /\ UNCHANGED <<regs, dev, task>>
    BY DEF WaitDrq, At, Wait
  <1>2. /\ TypeOK /\ CallOK(c) /\ c \in CallRecord /\ c.cmd \in {"read", "write"} /\ DeviceOK(dev)
        /\ torn = {} => DriveInv(c, dev, regs, disk) /\ CallInv(c, Running(dev), disk, regs, failed)
    BY <1>1, Here DEF CallOK
  <1>3. CASE c.polls > 0 /\ dev.st = "drq" /\ OnTo(a, where) /\ UNCHANGED torn
    <2>1. PICK next \in {"in", "out"} : next = where
      OBVIOUS
    <2> DEFINE new == Moved(c, next)
    <2>2. /\ new \in CallRecord /\ new.pc = next /\ new.cmd = c.cmd /\ new.lba = c.lba /\ new.buf = c.buf
          /\ new.k = 1
      BY <1>2, MovedFields DEF Place
    <2>3. CallOK(new)
      BY <1>1, <1>2, <2>1, <2>2, Constants DEF CallOK
    <2>4. DriveInv(c, dev, regs, disk) => Running(dev) = c.cmd /\ dev.pos = 1
      BY <1>1, <1>2, <1>3 DEF DriveInv, Reads, Identifies, Writes, Flushes, Running
    <2>5. DriveInv(c, dev, regs, disk) => DriveInv(new, dev, regs, disk)
      BY <1>1, <1>2, <1>3, <2>1, <2>2 DEF DriveInv, Reads, Identifies, Writes, Flushes
    <2>6. DriveInv(c, dev, regs, disk) => CallInv(new, Running(dev), disk, regs, failed)
      <3>1. \A w \in Word : ~(w < 1)
        BY DEF Word
      <3> QED
        BY <1>1, <1>2, <2>1, <2>2, <2>4, <3>1 DEF CallInv
    <2> HIDE DEF new
    <2>7. next \in Place \ {"off", "reg"} /\ OnTo(a, next)
      BY <1>3, <2>1 DEF Place, OnTo
    <2> QED
      BY <1>1, <1>2, <1>3, <2>3, <2>5, <2>6, <2>7, MoveStep DEF new
  <1>4. CASE c.polls > 0 /\ dev.st # "drq" /\ dev.err /\ Unready(a, "out") /\ UNCHANGED torn
    <2>1. dev.st = "idle"
      BY <1>2, <1>4 DEF DeviceOK
    <2> QED
      BY <1>1, <1>4, <2>1, UnreadyStep
  <1>5. CASE c.polls > 0 /\ Poll(a) /\ UNCHANGED <<got, torn>>
    BY <1>1, <1>5, PollStep
  <1>6. CASE /\ c.polls = 0 /\ Unready(a, "out")
             /\ torn' = torn \cup (IF dev.st # "idle" THEN {"timeout"} ELSE {})
    <2>1. torn' = {} => torn = {} /\ dev.st = "idle"
      BY <1>6
    <2> QED
      BY <1>1, <1>6, <2>1, UnreadyStep
  <1> QED
    BY <1>3, <1>4, <1>5, <1>6 DEF WaitDrq, Wait

LEMMA LastWaitStep ==
    ASSUME AtaInv, NEW a \in Actor, LastWait(a), UNCHANGED <<disk, want, failed>>
    PROVE  AtaInv'
  <1> DEFINE c == cpu[a]
  <1>1. /\ c.pc = "last" /\ (a = "main" => cpu["tab"].pc = "off")
        /\ UNCHANGED <<regs, dev, task>>
    BY DEF LastWait, At, Wait
  <1>2. /\ TypeOK /\ CallOK(c) /\ c \in CallRecord /\ c.cmd = "write" /\ DeviceOK(dev) /\ dev \in DeviceRecord
        /\ torn = {} => DriveInv(c, dev, regs, disk) /\ CallInv(c, Running(dev), disk, regs, failed)
    BY <1>1, Here DEF CallOK
  <1>3. torn = {} /\ dev.st = "idle" => disk[c.lba] = c.buf \/ c.lba \in failed
    BY <1>1, <1>2, Constants DEF CallInv, Running
  <1>4. CASE c.polls > 0 /\ dev.st # "busy" /\ Return(a, FALSE) /\ UNCHANGED torn
    <2>1. torn = {} => dev.st = "idle"
      BY <1>1, <1>2, <1>4 DEF DriveInv, Reads, Identifies, Writes, Flushes, DeviceRecord
    <2> QED
      BY <1>1, <1>3, <1>4, <2>1, ReturnStep
  <1>5. CASE c.polls > 0 /\ dev.st = "busy" /\ Poll(a) /\ UNCHANGED <<got, torn>>
    BY <1>1, <1>5, PollStep
  <1>6. CASE /\ c.polls = 0 /\ Return(a, FALSE)
             /\ torn' = torn \cup (IF dev.st # "idle" THEN {"timeout"} ELSE {})
    <2>1. torn' = {} => torn = {} /\ dev.st = "idle"
      BY <1>6
    <2> QED
      BY <1>1, <1>3, <1>6, <2>1, ReturnStep
  <1> QED
    BY <1>4, <1>5, <1>6 DEF LastWait, Wait

LEMMA IdentifyWaitStep ==
    ASSUME AtaInv, NEW a \in Actor, IdentifyWait(a), UNCHANGED <<disk, want, failed>>
    PROVE  AtaInv'
  <1> DEFINE c == cpu[a]
  <1>1. /\ c.pc \in {"idbsy", "iddrq"} /\ (a = "main" => cpu["tab"].pc = "off")
        /\ UNCHANGED <<regs, dev, task, torn>>
    BY DEF IdentifyWait, At
  <1>2. /\ TypeOK /\ CallOK(c) /\ c \in CallRecord /\ c.cmd = "identify" /\ DeviceOK(dev) /\ dev \in DeviceRecord
        /\ torn = {} => DriveInv(c, dev, regs, disk) /\ CallInv(c, Running(dev), disk, regs, failed)
    BY <1>1, Here DEF CallOK
  <1>3. CASE c.pc = "idbsy" /\ dev.st # "busy" /\ regs # Zero /\ Return(a, FALSE)
    <2>1. torn = {} => dev.st = "idle"
      BY <1>1, <1>2, <1>3 DEF DriveInv, Reads, Identifies, Writes, Flushes
    <2> QED
      BY <1>1, <1>2, <1>3, <2>1, ReturnStep
  <1>4. CASE c.pc = "idbsy" /\ dev.st # "busy" /\ OnTo(a, "iddrq")
    <2> DEFINE new == Moved(c, "iddrq")
    <2>1. /\ new \in CallRecord /\ new.pc = "iddrq" /\ new.cmd = c.cmd /\ new.lba = c.lba /\ new.buf = c.buf
          /\ new.k = 1 /\ "iddrq" \in Place
      BY <1>2, MovedFields DEF Place
    <2>2. CallOK(new)
      BY <1>1, <1>2, <2>1, Constants DEF CallOK
    <2>3. DriveInv(c, dev, regs, disk) => DriveInv(new, dev, regs, disk)
      BY <1>2, <1>4, <2>1 DEF DriveInv, Reads, Identifies, Writes, Flushes
    <2>4. CallInv(new, Running(dev), disk, regs, failed)
      BY <1>2, <2>1 DEF CallInv
    <2> HIDE DEF new
    <2> QED
      BY <1>1, <1>2, <1>4, <2>1, <2>2, <2>3, <2>4, MoveStep DEF new
  <1>5. CASE c.pc = "iddrq" /\ dev.st = "drq" /\ OnTo(a, "in")
    <2> DEFINE new == Moved(c, "in")
    <2>1. /\ new \in CallRecord /\ new.pc = "in" /\ new.cmd = c.cmd /\ new.lba = c.lba /\ new.buf = c.buf
          /\ new.k = 1 /\ "in" \in Place
      BY <1>2, MovedFields DEF Place
    <2>2. CallOK(new)
      BY <1>1, <1>2, <2>1, Constants DEF CallOK
    <2>3. DriveInv(c, dev, regs, disk) => DriveInv(new, dev, regs, disk) /\ Running(dev) = c.cmd
      BY <1>2, <1>5, <2>1 DEF DriveInv, Reads, Identifies, Writes, Flushes, Running
    <2>4. DriveInv(c, dev, regs, disk) => CallInv(new, Running(dev), disk, regs, failed)
      <3>1. \A w \in Word : ~(w < 1)
        BY DEF Word
      <3> QED
        BY <1>2, <2>1, <2>3, <3>1 DEF CallInv
    <2> HIDE DEF new
    <2> QED
      BY <1>1, <1>2, <1>5, <2>1, <2>2, <2>3, <2>4, MoveStep DEF new
  <1> QED
    BY <1>3, <1>4, <1>5 DEF IdentifyWait, At

(* A word that comes in is the one that is due. *)
LEMMA InWordStep ==
    ASSUME AtaInv, NEW a \in Actor, InWord(a), UNCHANGED <<disk, want, failed>>
    PROVE  AtaInv'
  <1> DEFINE c == cpu[a]
  <1>1. /\ c.pc = "in" /\ (a = "main" => cpu["tab"].pc = "off")
        /\ UNCHANGED <<regs, task, torn>>
    BY DEF InWord, At
  <1>2. /\ TypeOK /\ CallOK(c) /\ c \in CallRecord /\ c.cmd \in {"read", "identify"}
        /\ DeviceOK(dev) /\ dev \in DeviceRecord /\ c.k \in 1..(WORDS + 1)
        /\ torn = {} => DriveInv(c, dev, regs, disk) /\ CallInv(c, Running(dev), disk, regs, failed)
    BY <1>1, Here DEF CallOK, CallRecord
  <1>3. torn = {} /\ dev.st # "idle" =>
          dev.st = "drq" /\ dev.cmd = c.cmd /\ dev.pos = c.k
    BY <1>1, <1>2 DEF DriveInv, Reads, Identifies, Writes, Flushes
  <1>4. CASE c.k > WORDS
    <2>1. Return(a, TRUE) /\ UNCHANGED dev
      BY <1>4 DEF InWord
    <2>2. torn = {} => dev.st = "idle"
      BY <1>2, <1>3, <1>4, Constants DEF DeviceOK
    <2>3. ASSUME torn = {}, c.cmd = "read" PROVE disk[c.lba] = c.buf
      <3>1. \A w \in Word : c.buf[w] = disk[c.lba][w]
        BY <1>1, <1>2, <1>4, <2>3, Constants DEF CallInv, Word
      <3>2. disk[c.lba] \in Contents /\ c.buf \in Contents
        BY <1>2 DEF TypeOK, CallRecord
      <3> QED
        BY <3>1, <3>2, SameContents
    <2> QED
      BY <1>1, <1>2, <2>1, <2>2, <2>3, ReturnStep
  <1>5. CASE c.k <= WORDS
    <2> DEFINE open == dev.st = "drq" /\ dev.cmd # "write"
               x == IF open THEN dev.buf[dev.pos] ELSE Junk
               b == [c.buf EXCEPT ![c.k] = x]
               new == [c EXCEPT !.buf = b, !.k = @ + 1]
    <2>0. ~(c.k > WORDS) /\ c.k + 1 \in Nat \ {0}
      BY <1>2, <1>5, Constants
    <2>1. /\ got' = got
          /\ dev' = IF ~open THEN dev ELSE IF dev.pos = WORDS THEN Ready ELSE [dev EXCEPT !.pos = @ + 1]
      BY <2>0 DEF InWord
    <2>2. cpu' = [cpu EXCEPT ![a] = new]
      <3>1. cpu' = [cpu EXCEPT ![a].buf[c.k] = x, ![a].k = @ + 1]
        BY <2>0 DEF InWord
      <3>2. cpu \in [Actor -> CallRecord]
        BY <1>2 DEF TypeOK
      <3> HIDE DEF x
      <3> QED
        BY <3>1, <3>2 DEF CallRecord
    <2>3. x \in {Free, Entry, Fresh, Identity, Junk} \cup Sector
      <3>1. open => dev.pos \in Word
        BY <1>2, Constants DEF DeviceOK, DeviceRecord, Word
      <3> QED
        BY <1>2, <3>1, ConstantTypes DEF DeviceRecord
    <2>4. c.buf \in Contents /\ c.k \in Word
      BY <1>2, <1>5, Constants DEF CallRecord, Word
    <2>5. b \in Contents /\ b[c.k] = x /\ \A w \in Word : w # c.k => b[w] = c.buf[w]
      BY <2>3, <2>4 DEF Contents
    <2> HIDE DEF x, b
    <2>6. /\ new \in CallRecord /\ new.pc = "in" /\ new.cmd = c.cmd /\ new.lba = c.lba
          /\ new.k = c.k + 1 /\ new.buf = b
      BY <1>1, <1>2, <2>0, <2>5 DEF CallRecord
    <2>7. c.k + 1 <= WORDS + 1
      BY <1>2, <1>5, Constants
    <2>8. CallOK(new)
      BY <1>1, <1>2, <2>6, <2>7, Constants DEF CallOK
    <2>9. DeviceOK(dev')
      <3>1. CASE dev' = dev \/ dev' = Ready
        BY <1>2, <3>1, OffOK
      <3>2. CASE open /\ dev.pos # WORDS /\ dev' = [dev EXCEPT !.pos = @ + 1]
        <4>1. dev.pos + 1 \in 1..WORDS
          BY <1>2, <3>2, Constants DEF DeviceOK, DeviceRecord
        <4>2. /\ dev' \in DeviceRecord /\ dev'.pos = dev.pos + 1 /\ dev'.st = dev.st
              /\ dev'.err = dev.err /\ dev'.cmd = dev.cmd
          BY <1>2, <3>2, <4>1, Constants DEF DeviceRecord
        <4> QED
          BY <1>2, <3>2, <4>1, <4>2 DEF DeviceOK
      <3> QED
        BY <2>1, <3>1, <3>2
    <2> HIDE DEF new
    <2>10. ASSUME torn = {} PROVE StepInv(a, new, dev', regs')
      <3>1. dev.st = "drq" /\ dev.cmd = c.cmd /\ dev.pos = c.k /\ open
        <4>1. Running(dev) = c.cmd
          BY <1>1, <1>2, <1>5, <2>10 DEF CallInv
        <4>2. dev.st # "idle"
          BY <1>2, <4>1, Constants DEF Running
        <4> QED
          BY <1>2, <1>3, <2>10, <4>2
      <3>2. x = IF c.cmd = "read" THEN disk[c.lba][c.k] ELSE Identity
        <4>1. x = dev.buf[c.k]
          BY <3>1 DEF x
        <4>2. dev.buf = IF c.cmd = "read" THEN disk[c.lba] ELSE All(Identity)
          BY <1>1, <1>2, <2>10, <3>1 DEF DriveInv, Reads, Identifies, Writes, Flushes
        <4> QED
          BY <2>4, <4>1, <4>2 DEF All
      <3>3. \A w \in Word : w < c.k + 1 =>
               b[w] = IF c.cmd = "read" THEN disk[c.lba][w] ELSE Identity
        <4> SUFFICES ASSUME NEW w \in Word, w < c.k + 1
                     PROVE  b[w] = IF c.cmd = "read" THEN disk[c.lba][w] ELSE Identity
          OBVIOUS
        <4>1. CASE w = c.k
          BY <2>5, <3>2, <4>1
        <4>2. CASE w # c.k
          <5>1. w < c.k
            BY <1>2, <4>2 DEF Word
          <5> QED
            BY <1>1, <1>2, <2>5, <2>10, <4>2, <5>1 DEF CallInv
        <4> QED
          BY <4>1, <4>2
      <3>4. \/ c.k = WORDS /\ dev'.st = "idle"
            \/ c.k + 1 <= WORDS /\ dev' = [dev EXCEPT !.pos = @ + 1]
        BY <1>2, <1>5, <2>1, <3>1, OffOK, Constants
      <3>5. c.k + 1 <= WORDS => Running(dev') = c.cmd
        BY <1>2, <1>5, <3>1, <3>4, Constants DEF Running, DeviceRecord
      <3>6. CallInv(new, Running(dev'), disk, regs', failed)
        BY <1>1, <1>2, <2>6, <3>3, <3>5 DEF CallInv
      <3>7. DriveInv(new, dev', regs', disk)
        <4>1. CASE dev'.st = "idle"
          BY <4>1 DEF DriveInv
        <4>2. CASE dev' = [dev EXCEPT !.pos = @ + 1]
          <5>1. /\ dev'.pos = c.k + 1 /\ dev'.st = "drq" /\ dev'.cmd = c.cmd /\ dev'.lba = dev.lba
                /\ dev'.buf = dev.buf
            BY <1>2, <3>1, <4>2 DEF DeviceRecord
          <5> QED
            BY <1>1, <1>2, <2>6, <2>10, <3>1, <5>1 DEF DriveInv, Reads, Identifies, Writes, Flushes
        <4> QED
          BY <3>4, <4>1, <4>2
      <3>8. a = "main" => Serves(c, new)
        BY <1>2, <2>6, Constants DEF Serves
      <3> QED
        BY <1>1, <1>2, <2>6, <3>6, <3>7, <3>8 DEF StepInv
    <2>11. regs' \in Sector /\ got' \in [Actor -> {None} \cup AnswerRecord]
      BY <1>1, <1>2, <2>1 DEF TypeOK
    <2> QED
      BY <1>1, <2>2, <2>6, <2>8, <2>9, <2>10, <2>11, CallStep
  <1> QED
    BY <1>2, <1>4, <1>5, Constants

(* A word that goes out is the one the drive waits for, and the last one     *)
(* makes it store what the call has in its buffer.                           *)
LEMMA OutWordStep ==
    ASSUME AtaInv, NEW a \in Actor, OutWord(a), UNCHANGED <<disk, want, failed>>
    PROVE  AtaInv'
  <1> DEFINE c == cpu[a]
  <1>1. /\ c.pc = "out" /\ (a = "main" => cpu["tab"].pc = "off")
        /\ UNCHANGED <<regs, task, torn>>
    BY DEF OutWord, At
  <1>2. /\ TypeOK /\ CallOK(c) /\ c \in CallRecord /\ c.cmd = "write"
        /\ DeviceOK(dev) /\ dev \in DeviceRecord /\ c.k \in 1..(WORDS + 1)
        /\ torn = {} => DriveInv(c, dev, regs, disk) /\ CallInv(c, Running(dev), disk, regs, failed)
    BY <1>1, Here DEF CallOK, CallRecord
  <1>3. ASSUME torn = {}, dev.st # "idle"
        PROVE  /\ dev.cmd = "write" /\ dev.lba = c.lba
               /\ \/ /\ dev.st = "drq" /\ dev.pos = c.k /\ c.k <= WORDS
                     /\ \A w \in Word : w < dev.pos => dev.buf[w] = c.buf[w]
                  \/ dev.st = "busy" /\ dev.pos = WORDS + 1 /\ dev.buf = c.buf /\ c.k = WORDS + 1
    <2>1. Writes(c, dev)
      BY <1>1, <1>2, <1>3 DEF DriveInv, Reads, Identifies, Flushes
    <2>2. dev.st = "drq" => dev.pos <= WORDS
      BY <1>2 DEF DeviceOK
    <2> QED
      BY <1>1, <2>1, <2>2, Constants DEF Writes
  <1>4. torn = {} => (dev.cmd = "write" /\ dev.st # "idle") \/ disk[c.lba] = c.buf \/ c.lba \in failed
    BY <1>1, <1>2, Constants DEF CallInv, Running
  <1>5. CASE c.k > WORDS
    <2> DEFINE new == Moved(c, "last")
    <2>1. Send("flush") /\ OnTo(a, "last")
      BY <1>5 DEF OutWord
    <2>2. /\ DeviceOK(dev')
          /\ \/ dev.st # "busy" /\ dev'.st = "busy" /\ dev'.cmd = "flush"
             \/ dev.st # "idle" /\ dev' = dev
      BY <1>2, <2>1, SendDevice
    <2>3. cpu' = [cpu EXCEPT ![a] = new] /\ got' = got
      BY <1>2, <2>1, OnToCall
    <2>4. /\ new \in CallRecord /\ new.pc = "last" /\ new.k = 1
          /\ new.cmd = c.cmd /\ new.lba = c.lba /\ new.buf = c.buf
      BY <1>2, MovedFields DEF Place
    <2>5. CallOK(new)
      BY <1>2, <2>4, Constants DEF CallOK
    <2> HIDE DEF new
    <2>6. ASSUME torn = {} PROVE StepInv(a, new, dev', regs')
      <3>1. a = "main" => Serves(c, new)
        BY <1>2, <2>4, Constants DEF Serves
      <3>2. CASE dev.st = "idle"
        <4>1. dev'.st = "busy" /\ dev'.cmd = "flush"
          BY <2>2, <3>2
        <4>2. DriveInv(new, dev', regs', disk)
          BY <1>2, <2>4, <4>1 DEF DriveInv, Flushes
        <4>3. CallInv(new, Running(dev'), disk, regs', failed)
          BY <1>2, <1>4, <2>4, <2>6, <3>2 DEF CallInv
        <4> QED
          BY <1>1, <2>4, <3>1, <4>2, <4>3 DEF StepInv
      <3>3. CASE dev.st # "idle"
        <4>1. dev.st = "busy" /\ dev.pos = WORDS + 1 /\ dev.buf = c.buf /\ dev.cmd = "write" /\ dev.lba = c.lba
          BY <1>2, <1>3, <1>5, <2>6, <3>3, Constants
        <4>2. dev' = dev
          BY <2>2, <4>1
        <4>3. DriveInv(new, dev', regs', disk)
          BY <1>2, <2>4, <4>1, <4>2 DEF DriveInv, Writes
        <4>4. CallInv(new, Running(dev'), disk, regs', failed)
          BY <1>2, <2>4, <4>1, <4>2 DEF CallInv, Running
        <4> QED
          BY <1>1, <2>4, <3>1, <4>3, <4>4 DEF StepInv
      <3> QED
        BY <3>2, <3>3
    <2>7. regs' \in Sector /\ got' \in [Actor -> {None} \cup AnswerRecord]
      BY <1>1, <1>2, <2>3 DEF TypeOK
    <2> QED
      BY <1>1, <2>2, <2>3, <2>4, <2>5, <2>6, <2>7, CallStep
  <1>6. CASE c.k <= WORDS
    <2> DEFINE open == dev.st = "drq" /\ dev.cmd = "write"
               new == [c EXCEPT !.k = @ + 1]
               b == [dev.buf EXCEPT ![dev.pos] = c.buf[c.k]]
               stored == [dev EXCEPT !.buf = b, !.pos = @ + 1,
                                     !.st = IF dev.pos = WORDS THEN "busy" ELSE @]
    <2>0. ~(c.k > WORDS) /\ c.k + 1 \in Nat \ {0} /\ c.k \in Word
      BY <1>2, <1>6, Constants DEF Word
    <2>1. cpu' = [cpu EXCEPT ![a] = new] /\ got' = got
      BY <2>0 DEF OutWord
    <2>2. dev' = IF open THEN stored ELSE dev
      <3>1. dev' = IF open THEN [dev EXCEPT !.buf[dev.pos] = c.buf[c.k], !.pos = @ + 1,
                                            !.st = IF dev.pos = WORDS THEN "busy" ELSE @]
                   ELSE dev
        BY <2>0 DEF OutWord
      <3> QED
        BY <1>2, <3>1 DEF DeviceRecord
    <2>3. /\ new \in CallRecord /\ new.pc = "out" /\ new.cmd = c.cmd /\ new.lba = c.lba
          /\ new.k = c.k + 1 /\ new.buf = c.buf
      BY <1>1, <1>2, <2>0 DEF CallRecord
    <2>4. CallOK(new)
      <3>1. c.k + 1 <= WORDS + 1
        BY <1>2, <1>6, Constants
      <3> QED
        BY <1>2, <2>3, <3>1, Constants DEF CallOK
    <2>5. ASSUME open
          PROVE  /\ DeviceOK(stored) /\ stored.cmd = "write" /\ stored.lba = dev.lba
                 /\ stored.pos = dev.pos + 1 /\ stored.buf = b
                 /\ stored.st = IF dev.pos = WORDS THEN "busy" ELSE "drq"
                 /\ b \in Contents /\ b[dev.pos] = c.buf[c.k]
                 /\ \A w \in Word : w # dev.pos => b[w] = dev.buf[w]
      <3>1. dev.pos \in Word
        BY <1>2, <2>5, Constants DEF DeviceOK, DeviceRecord, Word
      <3>2. c.buf[c.k] \in {Free, Entry, Fresh, Identity, Junk} \cup Sector
        BY <1>2, <2>0, ConstantTypes DEF CallRecord
      <3>3. /\ b \in Contents /\ b[dev.pos] = c.buf[c.k]
            /\ \A w \in Word : w # dev.pos => b[w] = dev.buf[w]
        BY <1>2, <3>1, <3>2 DEF DeviceRecord, Contents
      <3> HIDE DEF b
      <3>4. dev.pos + 1 \in 1..(WORDS + 1)
        BY <3>1, Constants DEF Word
      <3>5. /\ stored \in DeviceRecord /\ stored.cmd = "write" /\ stored.lba = dev.lba
            /\ stored.pos = dev.pos + 1 /\ stored.buf = b /\ stored.err = dev.err
            /\ stored.st = IF dev.pos = WORDS THEN "busy" ELSE "drq"
        BY <1>2, <2>5, <3>3, <3>4 DEF DeviceRecord
      <3>6. dev.err = FALSE
        BY <1>2, <2>5 DEF DeviceOK, DeviceRecord
      <3>7. dev.pos # WORDS => dev.pos + 1 <= WORDS
        BY <3>1, Constants DEF Word
      <3> HIDE DEF stored
      <3> QED
        BY <3>3, <3>5, <3>6, <3>7, Constants DEF DeviceOK
    <2> HIDE DEF b, stored, new
    <2>6. DeviceOK(dev')
      BY <1>2, <2>2, <2>5
    <2>7. ASSUME torn = {} PROVE StepInv(a, new, dev', regs')
      <3>1. a = "main" => Serves(c, new)
        BY <1>2, <2>3, Constants DEF Serves
      <3>2. CASE dev.st = "idle"
        <4>1. dev' = dev
          BY <2>2, <3>2
        <4> QED
          BY <1>1, <1>2, <1>4, <2>3, <2>7, <3>1, <3>2, <4>1 DEF StepInv, DriveInv, CallInv
      <3>3. CASE dev.st # "idle"
        <4>1. /\ open /\ dev.pos = c.k /\ dev.lba = c.lba
              /\ \A w \in Word : w < dev.pos => dev.buf[w] = c.buf[w]
          BY <1>2, <1>3, <1>6, <2>7, <3>3, Constants
        <4>2. /\ dev'.cmd = "write" /\ dev'.lba = c.lba /\ dev'.pos = c.k + 1 /\ dev'.buf = b
              /\ dev'.st = IF c.k = WORDS THEN "busy" ELSE "drq"
          BY <2>2, <2>5, <4>1
        <4>3. \A w \in Word : w < c.k + 1 => b[w] = c.buf[w]
          <5> SUFFICES ASSUME NEW w \in Word, w < c.k + 1 PROVE b[w] = c.buf[w]
            OBVIOUS
          <5>1. CASE w = c.k
            BY <2>5, <4>1, <5>1
          <5>2. CASE w # c.k
            <6>1. w < c.k
              BY <1>2, <5>2 DEF Word
            <6> QED
              BY <2>5, <4>1, <5>2, <6>1
          <5> QED
            BY <5>1, <5>2
        <4>4. c.k = WORDS => b = c.buf
          <5>1. c.k = WORDS => \A w \in Word : b[w] = c.buf[w]
            BY <4>3, Constants DEF Word
          <5>2. b \in Contents /\ c.buf \in Contents
            BY <1>2, <2>5, <4>1 DEF CallRecord
          <5> QED
            BY <5>1, <5>2, SameContents
        <4>5. Writes(new, dev')
          <5>1. CASE c.k = WORDS
            BY <1>2, <2>3, <4>2, <4>4, <5>1 DEF Writes
          <5>2. CASE c.k # WORDS
            BY <1>2, <2>3, <4>2, <4>3, <5>2 DEF Writes
          <5> QED
            BY <5>1, <5>2
        <4>6. DriveInv(new, dev', regs', disk) /\ Running(dev') = "write"
          BY <4>2, <4>5 DEF DriveInv, Running
        <4> QED
          BY <1>1, <1>2, <2>3, <3>1, <4>6 DEF StepInv, CallInv
      <3> QED
        BY <3>2, <3>3
    <2>8. regs' \in Sector /\ got' \in [Actor -> {None} \cup AnswerRecord]
      BY <1>1, <1>2, <2>1 DEF TypeOK
    <2> QED
      BY <1>1, <2>1, <2>3, <2>4, <2>6, <2>7, <2>8, CallStep
  <1> QED
    BY <1>2, <1>5, <1>6, Constants

-----------------------------------------------------------------------------
(* The command and TAB begin their calls. *)

Begun(cmd, s, buf) == [Off EXCEPT !.pc = "reg", !.cmd = cmd, !.lba = s, !.buf = buf]

LEMMA BegunFields ==
    ASSUME NEW cmd \in {"read", "write", "identify"}, NEW s \in Sector, NEW buf \in Contents,
           cmd = "identify" => s = Zero
    PROVE  /\ CallOK(Begun(cmd, s, buf)) /\ Begun(cmd, s, buf).pc = "reg" /\ Begun(cmd, s, buf).k = 1
           /\ Begun(cmd, s, buf).cmd = cmd /\ Begun(cmd, s, buf).lba = s /\ Begun(cmd, s, buf).buf = buf
  <1>1. Off \in CallRecord /\ Off.k = 1
    BY OffOK DEF CallOK, Off
  <1>2. /\ Begun(cmd, s, buf) \in CallRecord /\ Begun(cmd, s, buf).pc = "reg" /\ Begun(cmd, s, buf).k = 1
        /\ Begun(cmd, s, buf).cmd = cmd /\ Begun(cmd, s, buf).lba = s /\ Begun(cmd, s, buf).buf = buf
    BY <1>1 DEF Begun, CallRecord, Place
  <1> QED
    BY <1>2, Constants DEF CallOK

(* The drive has done its work when no call runs.                            *)
LEMMA AtRest ==
    ASSUME AtaInv, torn = {}, cpu["main"].pc = "off", cpu["tab"].pc = "off"
    PROVE  TypeOK /\ Sound /\ dev.st = "idle" /\ cpu["main"].cmd = None
  <1>1. TypeOK /\ Sound /\ Active = "main"
    BY DEF AtaInv, Active
  <1>2. CallOK(cpu["main"]) /\ DriveInv(cpu["main"], dev, regs, disk)
    BY <1>1, ActorType DEF TypeOK, Sound
  <1>3. cpu["main"].cmd = None
    BY <1>2 DEF CallOK
  <1> QED
    BY <1>1, <1>2, <1>3 DEF DriveInv, Reads, Identifies, Writes, Flushes

LEMMA BeginType ==
    ASSUME TypeOK, NEW a \in Actor, NEW cmd, NEW s, NEW buf, Begin(a, cmd, s, buf),
           CallOK(Begun(cmd, s, buf)), a = "tab" => Begun(cmd, s, buf).cmd = "read",
           TaskOK', want' \in Contents, UNCHANGED <<disk, regs, dev, failed>>
    PROVE  /\ TypeOK' /\ cpu'[a] = Begun(cmd, s, buf) /\ \A b \in Actor : b # a => cpu'[b] = cpu[b]
           /\ got' = [got EXCEPT ![a] = None]
  <1> DEFINE new == Begun(cmd, s, buf)
  <1>1. cpu' = [cpu EXCEPT ![a] = new] /\ got' = [got EXCEPT ![a] = None]
    BY DEF Begin, Begun
  <1>2. new \in CallRecord
    BY DEF CallOK
  <1> HIDE DEF new
  <1>3. cpu' \in [Actor -> CallRecord] /\ cpu'[a] = new /\ \A b \in Actor : b # a => cpu'[b] = cpu[b]
    BY <1>1, <1>2 DEF TypeOK
  <1>4. \A b \in Actor : CallOK(cpu'[b])
    BY <1>3 DEF TypeOK, new
  <1>5. cpu'["tab"].cmd \in {None, "read"}
    BY <1>3, ActorType DEF TypeOK, new
  <1>6. got' \in [Actor -> {None} \cup AnswerRecord]
    BY <1>1 DEF TypeOK
  <1> QED
    BY <1>1, <1>3, <1>4, <1>5, <1>6 DEF TypeOK, new

(* A call of the command, if what it is about to write is sound.             *)
LEMMA BeginMain ==
    ASSUME AtaInv, At("main", "off"), NEW cmd \in {"read", "write", "identify"}, NEW s \in Sector,
           NEW buf \in Contents, Begin("main", cmd, s, buf), cmd = "identify" => s = Zero,
           TaskOK', UNCHANGED <<disk, regs, dev, want, failed, torn>>,
           torn = {} /\ Sound /\ cpu'["main"] = Begun(cmd, s, buf) => FatInv'
    PROVE  AtaInv'
  <1> DEFINE new == Begun(cmd, s, buf)
  <1>1. CallOK(new) /\ new.pc = "reg" /\ new.k = 1
    BY BegunFields
  <1>2. TypeOK' /\ cpu'["main"] = new /\ cpu'["tab"] = cpu["tab"]
    <2>1. TypeOK /\ want' \in Contents
      BY DEF AtaInv, TypeOK
    <2> QED
      BY <1>1, <2>1, BeginType, ActorType
  <1> SUFFICES ASSUME torn = {} PROVE Sound'
    BY <1>2 DEF AtaInv
  <1>3. Sound /\ dev.st = "idle" /\ cpu["tab"].pc = "off"
    BY AtRest DEF At
  <1>4. FatInv'
    BY <1>2, <1>3
  <1> HIDE DEF new
  <1>5. CallInv(new, CmdFor("main")', disk', regs', failed')
    <2>1. \A r \in 1..REGS : ~(r < 1)
      OBVIOUS
    <2> QED
      BY <1>1, <2>1 DEF CallInv
  <1>6. CallInv(cpu'["tab"], CmdFor("tab")', disk', regs', failed')
    <2>1. cpu["tab"].cmd = None
      BY <1>3, ActorType DEF AtaInv, TypeOK, CallOK
    <2> QED
      BY <1>2, <1>3, <2>1, Constants DEF CallInv
  <1>7. \A b \in Actor : CallInv(cpu'[b], CmdFor(b)', disk', regs', failed')
    BY <1>2, <1>5, <1>6, ActorType
  <1>8. DriveInv(cpu'[Active'], dev', regs', disk')
    BY <1>3 DEF DriveInv
  <1> QED
    BY <1>2, <1>3, <1>4, <1>7, <1>8 DEF Sound

(* fat_write_entry: the sector it writes back is the one it has read with    *)
(* the entry in it.                                                          *)
LEMMA EntryStepKeeps ==
    ASSUME AtaInv, EntryStep, UNCHANGED <<disk, want, failed>>
    PROVE  AtaInv'
  <1> DEFINE base == FatCopies[task.copy]
             c == cpu["main"]
  <1>1. TypeOK /\ At("main", "off") /\ task.stage \in {"read", "write"} /\ UNCHANGED <<regs, dev, torn>>
    BY DEF AtaInv, EntryStep
  <1>2. /\ task.copy \in 1..Len(FatCopies) /\ task.word \in Word /\ base \in Sector
        /\ task \in [stage : {"none", "read", "write"}, copy : Nat, word : Nat]
        /\ base \in FatSectors /\ Len(FatCopies) \in Nat
    <2>1. DOMAIN FatCopies = 1..Len(FatCopies)
      BY AtaAssumption
    <2> QED
      BY <1>1, <2>1, Constants DEF TypeOK, TaskOK, FatSectors
  <1>3. torn = {} => dev.st = "idle" /\ c.cmd = None
    BY <1>1, AtRest DEF At
  <1>4. CASE task.stage = "read"
    <2>1. /\ Begin("main", "read", base, All(Junk)) /\ task' = [task EXCEPT !.stage = "write"]
      BY <1>4 DEF EntryStep, Base
    <2>2. /\ task'.stage = "write" /\ task'.copy = task.copy /\ task'.word = task.word
          /\ task' \in [stage : {"none", "read", "write"}, copy : Nat, word : Nat]
      BY <1>2, <2>1
    <2>3. TaskOK'
      BY <1>2, <2>2 DEF TaskOK
    <2>4. All(Junk) \in Contents
      BY ConstantTypes
    <2>5. ASSUME torn = {}, Sound, cpu'["main"] = Begun("read", base, All(Junk)) PROVE FatInv'
      <3>1. cpu'["main"].cmd = "read" /\ cpu'["main"].lba = base
        BY <1>2, <2>4, <2>5, BegunFields
      <3>2. TaskInv'
        BY <1>4, <2>2, <2>5, <3>1, Constants DEF TaskInv, Sound, FatInv
      <3>3. ASSUME NEW s \in FatSectors, s \notin failed PROVE CopyInv(s)'
        <4>1. CopyInv(s)
          BY <2>5, <3>3 DEF Sound, FatInv
        <4>2. (ToCome(s)' <=> ToCome(s)) /\ ~IsWritten(s) /\ ~IsWritten(s)'
          BY <1>3, <1>4, <2>2, <2>5, <3>1, Constants DEF ToCome, IsWritten
        <4> QED
          BY <2>2, <4>1, <4>2 DEF CopyInv
      <3> QED
        BY <3>2, <3>3 DEF FatInv
    <2>6. UNCHANGED <<disk, regs, dev, want, failed, torn>>
      BY <1>1
    <2> QED
      BY <1>1, <1>2, <2>1, <2>3, <2>4, <2>5, <2>6, BeginMain
  <1>5. CASE task.stage = "write"
    <2> DEFINE changed == [c.buf EXCEPT ![task.word] = Entry]
    <2>1. PICK buf : buf = changed
      OBVIOUS
    <2>2. /\ Begin("main", "write", base, buf)
          /\ task' = IF task.copy = Len(FatCopies) THEN NoTask
                     ELSE [task EXCEPT !.stage = "read", !.copy = @ + 1]
      BY <1>5, <2>1 DEF EntryStep, Base
    <2>3. c.buf \in Contents
      BY <1>1, ActorType DEF TypeOK, CallRecord
    <2>4. /\ buf \in Contents /\ buf[task.word] = Entry
          /\ \A w \in Word : w # task.word => buf[w] = c.buf[w]
      BY <1>2, <2>1, <2>3 DEF Contents
    <2>5. \/ task'.stage = "none" /\ task.copy = Len(FatCopies)
          \/ /\ task'.stage = "read" /\ task'.copy = task.copy + 1 /\ task'.word = task.word
             /\ task.copy + 1 <= Len(FatCopies)
      BY <1>2, <2>2 DEF NoTask
    <2>6. task' \in [stage : {"none", "read", "write"}, copy : Nat, word : Nat]
      <3>1. NoTask \in [stage : {"none", "read", "write"}, copy : Nat, word : Nat]
        BY DEF NoTask
      <3>2. task.copy + 1 \in Nat
        BY <1>2
      <3> QED
        BY <1>2, <2>2, <3>1, <3>2
    <2>7. TaskOK'
      BY <1>2, <2>5, <2>6 DEF TaskOK
    <2>8. ASSUME torn = {}, Sound, cpu'["main"] = Begun("write", base, buf) PROVE FatInv'
      <3>1. cpu'["main"].cmd = "write" /\ cpu'["main"].lba = base /\ cpu'["main"].buf = buf
        BY <1>2, <2>4, <2>8, BegunFields
      <3>2. TaskInv'
        BY <1>5, <2>5, <2>8 DEF TaskInv, Sound, FatInv
      <3>3. ASSUME NEW s \in FatSectors, s \notin failed PROVE CopyInv(s)'
        <4>1. CopyInv(s) /\ ~IsWritten(s) /\ (IsWritten(s)' <=> s = base)
          BY <1>3, <2>8, <3>1, <3>3, Constants DEF Sound, FatInv, IsWritten
        <4>2. ToCome(s)' => ToCome(s) /\ task'.word = task.word
          BY <1>2, <1>5, <2>5 DEF ToCome
        <4>3. ToCome(s) => ToCome(s)' \/ s = base
          <5> SUFFICES ASSUME NEW i \in task.copy..Len(FatCopies), FatCopies[i] = s, s # base
                       PROVE  ToCome(s)'
            BY DEF ToCome
          <5>1. i \in (task.copy + 1)..Len(FatCopies)
            BY <1>2
          <5> QED
            BY <1>2, <2>5, <5>1 DEF ToCome
        <4>4. s = base => buf = want
          <5> SUFFICES ASSUME s = base PROVE buf = want
            OBVIOUS
          <5>1. c.buf = disk[s] /\ want[task.word] = Entry
            BY <1>3, <1>5, <2>8, <3>3 DEF Sound, FatInv, TaskInv
          <5>2. ToCome(s)
            BY <1>2, <1>5 DEF ToCome
          <5>3. \A w \in Word : buf[w] = want[w]
            BY <2>4, <4>1, <5>1, <5>2 DEF CopyInv
          <5> QED
            BY <1>1, <2>4, <5>3, SameContents DEF TypeOK
        <4>5. IsWritten(s)' => cpu'["main"].buf = want'
          BY <3>1, <4>1, <4>4
        <4>6. ToCome(s)' => \A w \in Word : w # task'.word => disk'[s][w] = want'[w]
          BY <4>1, <4>2 DEF CopyInv
        <4>7. ~ToCome(s)' /\ ~IsWritten(s)' => disk'[s] = want'
          BY <4>1, <4>3 DEF CopyInv
        <4> QED
          BY <4>5, <4>6, <4>7 DEF CopyInv
      <3> QED
        BY <3>2, <3>3 DEF FatInv
    <2>9. UNCHANGED <<disk, regs, dev, want, failed, torn>>
      BY <1>1
    <2> QED
      BY <1>1, <1>2, <2>2, <2>4, <2>7, <2>8, <2>9, BeginMain
  <1> QED
    BY <1>1, <1>4, <1>5

LEMMA CallKeeps ==
    ASSUME AtaInv, Call
    PROVE  AtaInv'
  <1>1. /\ At("main", "off") /\ task.stage = "none" /\ cpu["tab"].pc = "off" /\ cpu["main"].pc = "off"
        /\ UNCHANGED <<disk, regs, dev, failed>> /\ TypeOK
    BY DEF Call, Idle, At, AtaInv
  <1>2. torn = {} => Sound /\ dev.st = "idle" /\ cpu["main"].cmd = None
    BY <1>1, AtRest
  <1>3. ASSUME UNCHANGED <<task, want>>, NEW new, cpu'["main"] = new, torn = {}, Sound,
               new.cmd = "write" => new.lba \notin FatSectors
        PROVE  FatInv'
    <2>1. TaskInv'
      BY <1>1, <1>3 DEF TaskInv
    <2>2. ASSUME NEW s \in FatSectors, s \notin failed PROVE CopyInv(s)'
      <3>1. CopyInv(s) /\ ~IsWritten(s) /\ ~ToCome(s) /\ ~IsWritten(s)' /\ ~ToCome(s)'
        BY <1>1, <1>2, <1>3, <2>2, Constants DEF Sound, FatInv, IsWritten, ToCome
      <3> QED
        BY <1>1, <1>3, <3>1 DEF CopyInv
    <2> QED
      BY <1>1, <2>1, <2>2 DEF FatInv
  <1>4. ASSUME UNCHANGED <<task, want, torn>>, NEW cmd \in {"read", "write", "identify"}, NEW s \in Sector,
               NEW buf \in Contents, Begin("main", cmd, s, buf), cmd = "identify" => s = Zero,
               cmd = "write" => s \notin FatSectors
        PROVE  AtaInv'
    <2>1. TaskOK'
      BY <1>1, <1>4 DEF TypeOK, TaskOK
    <2>2. cpu'["main"] = Begun(cmd, s, buf) /\ torn = {} /\ Sound => FatInv'
      BY <1>3, <1>4, BegunFields
    <2>3. UNCHANGED <<disk, regs, dev, want, failed, torn>>
      BY <1>1, <1>4
    <2> QED
      BY <1>1, <1>4, <2>1, <2>2, <2>3, BeginMain
  <1>5. ASSUME NEW s \in Sector, Read(s) PROVE AtaInv'
    BY <1>4, <1>5, ConstantTypes DEF Read
  <1>6. ASSUME NEW s \in Sector, Write(s) PROVE AtaInv'
    BY <1>4, <1>6, ConstantTypes DEF Write
  <1>7. CASE Identify
    BY <1>4, <1>7, ConstantTypes DEF Identify
  <1>8. CASE Diskinfo
    <2> DEFINE new == [Off EXCEPT !.pc = "in", !.cmd = "identify"]
    <2>1. Off \in CallRecord /\ Off.lba = Zero /\ Off.k = 1
      BY OffOK DEF CallOK, Off
    <2>2. /\ new \in CallRecord /\ new.pc = "in" /\ new.cmd = "identify" /\ new.lba = Zero /\ new.k = 1
      BY <2>1 DEF CallRecord, Place
    <2>3. CallOK(new)
      BY <2>2, Constants DEF CallOK
    <2>4. cpu' = [cpu EXCEPT !["main"] = new] /\ torn' # {} /\ UNCHANGED <<task, got, want>>
      BY <1>8 DEF Diskinfo
    <2> HIDE DEF new
    <2>5. cpu' \in [Actor -> CallRecord] /\ cpu'["main"] = new /\ cpu'["tab"] = cpu["tab"]
      BY <1>1, <2>2, <2>4, ActorType DEF TypeOK
    <2>6. \A b \in Actor : CallOK(cpu'[b])
      BY <1>1, <2>3, <2>5, ActorType DEF TypeOK
    <2>7. TaskOK'
      BY <1>1, <2>4 DEF TypeOK, TaskOK
    <2> QED
      BY <1>1, <2>4, <2>5, <2>6, <2>7 DEF TypeOK, AtaInv
  <1>9. ASSUME NEW w \in Word, FatWriteEntry(w) PROVE AtaInv'
    <2>1. /\ task'.stage = "read" /\ task'.copy = 1 /\ task'.word = w
          /\ task' \in [stage : {"none", "read", "write"}, copy : Nat, word : Nat]
          /\ want' = [want EXCEPT ![w] = Entry] /\ UNCHANGED <<cpu, got, torn>>
      BY <1>9 DEF FatWriteEntry, Word
    <2>2. TaskOK'
      BY <2>1, Constants DEF TaskOK
    <2>3. want \in Contents
      BY <1>1 DEF TypeOK
    <2>4. want' \in Contents /\ want'[w] = Entry /\ \A v \in Word : v # w => want'[v] = want[v]
      BY <2>1, <2>3 DEF Contents
    <2>5. TypeOK'
      BY <1>1, <2>1, <2>2, <2>4 DEF TypeOK
    <2>6. ASSUME torn = {} PROVE Sound'
      <3>1. Sound /\ dev.st = "idle" /\ cpu["main"].cmd = None
        BY <1>2, <2>6
      <3>2. TaskInv'
        BY <2>1, <2>4 DEF TaskInv
      <3>3. ASSUME NEW s \in FatSectors, s \notin failed PROVE CopyInv(s)'
        <4>1. disk[s] = want
          BY <1>1, <3>1, <3>3, Constants DEF Sound, FatInv, CopyInv, IsWritten, ToCome
        <4>2. ~IsWritten(s)'
          BY <2>1, <3>1, Constants DEF IsWritten
        <4>3. ToCome(s)'
          <5>1. DOMAIN FatCopies = 1..Len(FatCopies)
            BY AtaAssumption
          <5> QED
            BY <2>1, <5>1 DEF ToCome, FatSectors
        <4> QED
          BY <1>1, <2>1, <2>4, <4>1, <4>2, <4>3 DEF CopyInv
      <3>4. FatInv'
        BY <1>1, <3>2, <3>3 DEF FatInv
      <3>5. Active' = Active /\ \A b \in Actor : CmdFor(b)' = CmdFor(b)
        BY <1>1, <2>1 DEF Active, CmdFor, Running
      <3> QED
        BY <1>1, <2>1, <3>1, <3>4, <3>5 DEF Sound
    <2> QED
      BY <2>1, <2>5, <2>6 DEF AtaInv
  <1> QED
    BY <1>5, <1>6, <1>7, <1>8, <1>9 DEF Call

(* TAB begins its call while the drive is at rest, with registers that agree *)
(* with those of the command, or tears it.                                   *)
LEMMA TabKeeps ==
    ASSUME AtaInv, NEW s \in Sector, Tab(s)
    PROVE  AtaInv'
  <1> DEFINE new == Begun("read", s, All(Junk))
             c == cpu["main"]
  <1>1. /\ TypeOK /\ cpu["tab"].pc = "off" /\ Begin("tab", "read", s, All(Junk))
        /\ UNCHANGED <<disk, regs, dev, task, want, failed>>
    BY DEF Tab, AtaInv
  <1>2. CallOK(new) /\ new.pc = "reg" /\ new.k = 1 /\ new.cmd = "read" /\ new.lba = s
    BY BegunFields, ConstantTypes
  <1>3. TaskOK' /\ want' \in Contents
    BY <1>1 DEF TypeOK, TaskOK
  <1>4. TypeOK' /\ cpu'["tab"] = new /\ cpu'["main"] = c
    BY <1>1, <1>2, <1>3, BeginType, ActorType
  <1> HIDE DEF new
  <1> SUFFICES ASSUME torn' = {} PROVE Sound'
    BY <1>4 DEF AtaInv
  <1>5. torn = {} /\ ~Tears(s)
    BY DEF Tab
  <1>6. Sound /\ dev.st = "idle" /\ Agree(c, REGS + 1, s)
    BY <1>5 DEF AtaInv, Tears, RegsTear, Agree
  <1>7. Active = "main" /\ Active' = "tab"
    BY <1>1, <1>2, <1>4 DEF Active
  <1>8. CallInv(c, None, disk, regs, failed)
    BY <1>6, <1>7, ActorType DEF Sound, CmdFor, Running
  <1>9. CallInv(new, None, disk, regs, failed)
    <2>1. \A r \in 1..REGS : ~(r < 1)
      OBVIOUS
    <2> QED
      BY <1>2, <2>1 DEF CallInv
  <1>10. CmdFor("main")' = None /\ CmdFor("tab")' = None
    BY <1>1, <1>6, <1>7 DEF CmdFor, Running
  <1>11. \A b \in Actor : CallInv(cpu'[b], CmdFor(b)', disk', regs', failed')
    BY <1>1, <1>4, <1>8, <1>9, <1>10, ActorType
  <1>12. DriveInv(cpu'[Active'], dev', regs', disk')
    BY <1>1, <1>6 DEF DriveInv
  <1>13. FatInv'
    BY <1>1, <1>4, <1>6, FatAside DEF Sound
  <1> QED
    BY <1>2, <1>4, <1>6, <1>11, <1>12, <1>13 DEF Sound

-----------------------------------------------------------------------------
(* The drive. *)

LEMMA DriveHere ==
    ASSUME AtaInv, torn = {}, dev.st = "busy"
    PROVE  /\ TypeOK /\ Sound /\ CallOK(cpu[Active]) /\ Active \in Actor
           /\ cpu[Active].pc \notin {"off", "reg"}
           /\ DriveInv(cpu[Active], dev, regs, disk) /\ CallInv(cpu[Active], dev.cmd, disk, regs, failed)
           /\ dev.cmd # "read" => Active = "main" /\ cpu["tab"].pc = "off" /\ cpu["tab"].cmd = None
           /\ \A b \in Actor : b # Active => CallInv(cpu[b], None, disk, regs, failed)
  <1>1. TypeOK /\ Sound /\ Active \in Actor
    BY ActorType DEF AtaInv, Active
  <1>2. CallOK(cpu[Active])
    BY <1>1 DEF TypeOK
  <1>3. DriveInv(cpu[Active], dev, regs, disk) /\ CallInv(cpu[Active], dev.cmd, disk, regs, failed)
    BY <1>1 DEF Sound, CmdFor, Running
  <1>4. cpu[Active].pc \notin {"off", "reg"}
    BY <1>2, <1>3 DEF DriveInv, Reads, Identifies, Writes, Flushes
  <1>5. dev.cmd # "read" => Active = "main" /\ cpu["tab"].pc = "off" /\ cpu["tab"].cmd = None
    <2>1. dev.cmd # "read" => cpu[Active].cmd \notin {None, "read"}
      BY <1>3, Constants DEF DriveInv, Reads, Identifies, Writes, Flushes
    <2>2. cpu["tab"].cmd \in {None, "read"} /\ CallOK(cpu["tab"])
      BY <1>1, ActorType DEF TypeOK
    <2> QED
      BY <2>1, <2>2 DEF Active, CallOK
  <1>6. \A b \in Actor : b # Active => CallInv(cpu[b], None, disk, regs, failed)
    BY <1>1 DEF Sound, CmdFor
  <1> QED
    BY <1>1, <1>2, <1>3, <1>4, <1>5, <1>6

(* The invariant after a step of the drive, from what it does to the call    *)
(* that runs.                                                                *)
LEMMA DriveStep ==
    ASSUME AtaInv, dev.st = "busy", UNCHANGED <<cpu, task, got, want, torn>>,
           DeviceOK(dev'), disk' \in [Sector -> Contents], regs' \in Sector, failed' \subseteq Sector,
           torn = {} =>
             /\ DriveInv(cpu[Active], dev', regs', disk')
             /\ CallInv(cpu[Active], Running(dev'), disk', regs', failed')
             /\ regs' # regs => Active = "main"
             /\ disk' # disk => Active = "main"
             /\ failed \subseteq failed'
             /\ FatInv'
    PROVE  AtaInv'
  <1>1. TypeOK'
    BY DEF AtaInv, TypeOK, TaskOK
  <1> SUFFICES ASSUME torn = {} PROVE Sound'
    BY <1>1 DEF AtaInv
  <1>2. /\ TypeOK /\ Sound /\ Active \in Actor
        /\ \A b \in Actor : b # Active => CallInv(cpu[b], None, disk, regs, failed)
    BY DriveHere
  <1>3. PICK a \in Actor : a = Active /\ a = Active'
    BY <1>2 DEF Active
  <1>4. CallInv(cpu[a], CmdFor(a)', disk', regs', failed')
    BY <1>3 DEF CmdFor, Running
  <1>5. ASSUME NEW b \in Actor, b # a PROVE CallInv(cpu[b], CmdFor(b)', disk', regs', failed')
    <2>1. CmdFor(b)' = None
      BY <1>3, <1>5 DEF CmdFor
    <2>2. CASE b = "main"
      <3>1. regs' = regs /\ disk' = disk /\ CallInv(cpu[b], None, disk, regs, failed)
        BY <1>2, <1>3, <1>5, <2>2
      <3> QED
        BY <2>1, <3>1 DEF CallInv
    <2>3. CASE b = "tab"
      <3>1. cpu[b].pc = "off"
        BY <1>3, <1>5, <2>3 DEF Active
      <3>2. cpu[b].cmd = None
        BY <1>2, <1>5, <3>1 DEF TypeOK, CallOK
      <3> QED
        BY <3>1, <3>2, Constants DEF CallInv
    <2> QED
      BY <2>2, <2>3, ActorType
  <1>6. \A b \in Actor : CallInv(cpu'[b], CmdFor(b)', disk', regs', failed')
    BY <1>4, <1>5
  <1>7. DriveInv(cpu'[Active'], dev', regs', disk')
    BY <1>3
  <1> QED
    BY <1>2, <1>6, <1>7 DEF Sound

LEMMA WorkKeeps ==
    ASSUME AtaInv, Work, UNCHANGED <<cpu, task, got, want, torn>>
    PROVE  AtaInv'
  <1> DEFINE c == cpu[Active]
             stores == dev.cmd = "write" /\ dev.pos > WORDS
  <1>1. /\ TypeOK /\ dev.st = "busy" /\ DeviceOK(dev) /\ dev \in DeviceRecord /\ UNCHANGED <<regs, failed>>
        /\ dev.err = FALSE
    BY DEF Work, AtaInv, TypeOK, DeviceOK, DeviceRecord
  <1>2. disk' = IF stores THEN [disk EXCEPT ![dev.lba] = dev.buf] ELSE disk
    BY DEF Work
  <1>3. disk' \in [Sector -> Contents]
    BY <1>1, <1>2 DEF TypeOK, DeviceRecord
  <1>4. /\ dev.cmd = "read" => dev' = [dev EXCEPT !.st = "drq", !.buf = disk[dev.lba]]
        /\ dev.cmd = "identify" => dev' = [dev EXCEPT !.st = "drq", !.buf = All(Identity)]
        /\ dev.cmd = "write" /\ dev.pos = 1 => dev' = [dev EXCEPT !.st = "drq"]
        /\ dev.cmd \notin {"read", "identify"} /\ ~(dev.cmd = "write" /\ dev.pos = 1) => dev' = Ready
    BY DEF Work
  <1>5. dev.pos = 1 => dev.pos <= WORDS
    BY Constants
  <1>6. DeviceOK(dev') /\ (stores => dev' = Ready)
    <2>1. All(Identity) \in Contents /\ disk[dev.lba] \in Contents
      BY <1>1, ConstantTypes DEF TypeOK, DeviceRecord
    <2>2. ASSUME NEW b \in Contents, dev' = [dev EXCEPT !.st = "drq", !.buf = b], dev.pos = 1
          PROVE  DeviceOK(dev')
      <3>1. /\ dev' \in DeviceRecord /\ dev'.st = "drq" /\ dev'.err = dev.err /\ dev'.cmd = dev.cmd
            /\ dev'.pos = 1
        BY <1>1, <2>2 DEF DeviceRecord
      <3> QED
        BY <1>1, <1>5, <2>2, <3>1 DEF DeviceOK
    <2>3. CASE dev.cmd \in {"read", "identify"}
      BY <1>1, <1>4, <2>1, <2>2, <2>3 DEF DeviceOK
    <2>4. CASE dev.cmd = "write" /\ dev.pos = 1
      <3>1. dev' = [dev EXCEPT !.st = "drq", !.buf = dev.buf] /\ dev.buf \in Contents
        BY <1>1, <1>4, <2>4 DEF DeviceRecord
      <3>2. PICK b \in Contents : b = dev.buf
        BY <3>1
      <3>3. DeviceOK(dev')
        BY <2>2, <2>4, <3>1, <3>2
      <3>4. ~stores
        BY <1>5, <2>4, Constants
      <3> QED
        BY <3>3, <3>4
    <2>5. CASE dev.cmd \notin {"read", "identify"} /\ ~(dev.cmd = "write" /\ dev.pos = 1)
      BY <1>4, <2>5, OffOK
    <2> QED
      BY <1>4, <1>5, <2>3, <2>4, <2>5, Constants DEF DeviceRecord
  <1>7. ASSUME torn = {}
        PROVE  /\ DriveInv(c, dev', regs', disk')
               /\ CallInv(c, Running(dev'), disk', regs', failed')
               /\ disk' # disk => Active = "main"
               /\ FatInv'
    <2>1. /\ Sound /\ CallOK(c) /\ c.pc \notin {"off", "reg"}
          /\ DriveInv(c, dev, regs, disk) /\ CallInv(c, dev.cmd, disk, regs, failed)
          /\ dev.cmd # "read" => Active = "main"
      BY <1>1, <1>7, DriveHere
    <2>2. CASE dev.cmd = "read"
      <3>1. Reads(c, dev, disk) /\ disk' = disk
        BY <1>1, <1>2, <2>1, <2>2 DEF DriveInv, Identifies, Writes, Flushes
      <3>2. /\ dev'.st = "drq" /\ dev'.buf = disk[dev.lba] /\ dev'.cmd = "read" /\ dev'.lba = dev.lba
            /\ dev'.pos = 1
        BY <1>1, <1>4, <2>2 DEF DeviceRecord, DeviceOK
      <3>3. DriveInv(c, dev', regs', disk') /\ Running(dev') = dev.cmd
        BY <1>1, <2>2, <3>1, <3>2 DEF DriveInv, Reads, Running
      <3>4. FatInv'
        BY <1>1, <2>1, <3>1, FatAside DEF Sound
      <3> QED
        BY <1>1, <2>1, <3>1, <3>3, <3>4
    <2>3. CASE dev.cmd = "identify"
      <3>1. Identifies(c, dev, regs) /\ disk' = disk
        BY <1>1, <1>2, <2>1, <2>3 DEF DriveInv, Reads, Writes, Flushes
      <3>2. /\ dev'.st = "drq" /\ dev'.buf = All(Identity) /\ dev'.cmd = "identify" /\ dev'.pos = 1
        BY <1>1, <1>4, <2>3 DEF DeviceRecord, DeviceOK
      <3>3. DriveInv(c, dev', regs', disk') /\ Running(dev') = dev.cmd
        BY <1>1, <2>3, <3>1, <3>2 DEF DriveInv, Identifies, Running
      <3>4. FatInv'
        BY <1>1, <2>1, <3>1, FatAside DEF Sound
      <3> QED
        BY <1>1, <2>1, <3>1, <3>3, <3>4
    <2>4. CASE dev.cmd = "write" /\ dev.pos = 1
      <3>1. Writes(c, dev) /\ disk' = disk
        BY <1>1, <1>2, <1>5, <2>1, <2>4, Constants DEF DriveInv, Reads, Identifies, Flushes
      <3>2. /\ dev'.st = "drq" /\ dev'.cmd = "write" /\ dev'.lba = dev.lba /\ dev'.pos = 1
        BY <1>1, <1>4, <2>4 DEF DeviceRecord
      <3>3. c.pc = "bsy"
        BY <1>1, <2>4, <3>1, Constants DEF Writes
      <3>4. \A w \in Word : ~(w < 1)
        BY DEF Word
      <3>5. DriveInv(c, dev', regs', disk') /\ Running(dev') = dev.cmd
        BY <1>1, <2>4, <3>1, <3>2, <3>3, <3>4 DEF DriveInv, Writes, Running
      <3>6. FatInv'
        BY <1>1, <2>1, <3>1, FatAside DEF Sound
      <3> QED
        BY <1>1, <2>1, <3>1, <3>5, <3>6
    <2>5. CASE dev.cmd = "write" /\ dev.pos # 1
      <3>1. /\ Writes(c, dev) /\ dev.pos = WORDS + 1 /\ dev.buf = c.buf /\ dev.lba = c.lba /\ c.cmd = "write"
            /\ c.pc \in {"out", "last"} /\ Active = "main"
        BY <1>1, <2>1, <2>5 DEF DriveInv, Reads, Identifies, Writes, Flushes
      <3>2. disk' = [disk EXCEPT ![c.lba] = c.buf]
        BY <1>2, <2>5, <3>1, Constants
      <3>3. c.lba \in Sector /\ disk'[c.lba] = c.buf /\ \A s \in Sector : s # c.lba => disk'[s] = disk[s]
        BY <1>1, <2>1, <3>2 DEF TypeOK, CallOK, CallRecord
      <3>4. dev' = Ready /\ dev'.st = "idle"
        BY <1>4, <2>5, OffOK
      <3>5. DriveInv(c, dev', regs', disk') /\ CallInv(c, Running(dev'), disk', regs', failed')
        BY <3>1, <3>3, <3>4 DEF DriveInv, CallInv
      <3>6. TaskInv'
        BY <2>1, <3>1, Constants DEF Sound, FatInv, TaskInv
      <3>7. ASSUME NEW s \in FatSectors, s \notin failed PROVE CopyInv(s)'
        <4>1. CopyInv(s) /\ (IsWritten(s) <=> s = c.lba) /\ s \in Sector
          BY <2>1, <3>1, <3>7, ConstantTypes DEF Sound, FatInv, IsWritten
        <4>2. IsWritten(s)' <=> IsWritten(s)
          BY DEF IsWritten
        <4>3. ToCome(s)' <=> ToCome(s)
          BY DEF ToCome
        <4>4. IsWritten(s) => disk'[s] = want
          BY <3>1, <3>3, <4>1 DEF CopyInv
        <4>5. ~IsWritten(s) => disk'[s] = disk[s]
          BY <3>3, <4>1
        <4> QED
          BY <4>1, <4>2, <4>3, <4>4, <4>5 DEF CopyInv
      <3>8. FatInv'
        BY <1>1, <3>6, <3>7 DEF FatInv
      <3> QED
        BY <3>1, <3>5, <3>8
    <2>6. CASE dev.cmd \notin {"read", "identify", "write"}
      <3>1. Flushes(c, dev) /\ disk' = disk
        BY <1>1, <1>2, <2>1, <2>6 DEF DriveInv, Reads, Identifies, Writes
      <3>2. dev' = Ready /\ dev'.st = "idle"
        BY <1>4, <2>6, OffOK
      <3>3. DriveInv(c, dev', regs', disk') /\ CallInv(c, Running(dev'), disk', regs', failed')
        BY <1>1, <2>1, <2>6, <3>1, <3>2 DEF DriveInv, CallInv, Flushes
      <3>4. FatInv'
        BY <1>1, <2>1, <3>1, FatAside DEF Sound
      <3> QED
        BY <3>1, <3>3, <3>4
    <2> QED
      BY <2>2, <2>3, <2>4, <2>5, <2>6
  <1>8. regs' \in Sector /\ failed' \subseteq Sector /\ failed \subseteq failed' /\ regs' = regs
    BY <1>1 DEF TypeOK
  <1> QED
    BY <1>1, <1>3, <1>6, <1>7, <1>8, DriveStep

LEMMA FailKeeps ==
    ASSUME AtaInv, Fail, UNCHANGED <<cpu, task, got, want, torn>>
    PROVE  AtaInv'
  <1> DEFINE c == cpu[Active]
  <1>1. /\ TypeOK /\ dev.st = "busy" /\ DeviceOK(dev) /\ dev \in DeviceRecord /\ disk' = disk
        /\ dev' = [Ready EXCEPT !.err = TRUE]
        /\ failed' = failed \cup (IF dev.cmd \in {"read", "write"} THEN {dev.lba} ELSE {})
    BY DEF Fail, AtaInv, TypeOK, DeviceOK
  <1>2. regs' \in Sector /\ (dev.cmd # "identify" => regs' = regs)
    BY <1>1 DEF Fail, TypeOK
  <1>3. DeviceOK(dev') /\ dev'.st = "idle"
    <2>1. Ready \in DeviceRecord /\ Ready.st = "idle"
      BY OffOK DEF DeviceOK
    <2>2. dev' \in DeviceRecord /\ dev'.st = "idle"
      BY <1>1, <2>1 DEF DeviceRecord
    <2> QED
      BY <2>2 DEF DeviceOK
  <1>4. failed \subseteq failed' /\ failed' \subseteq Sector
    BY <1>1 DEF TypeOK, DeviceRecord
  <1>5. ASSUME torn = {}
        PROVE  /\ DriveInv(c, dev', regs', disk')
               /\ CallInv(c, Running(dev'), disk', regs', failed')
               /\ regs' # regs => Active = "main"
               /\ FatInv'
    <2>1. /\ Sound /\ CallOK(c) /\ c.pc \notin {"off", "reg"}
          /\ DriveInv(c, dev, regs, disk) /\ CallInv(c, dev.cmd, disk, regs, failed)
          /\ dev.cmd # "read" => Active = "main"
      BY <1>1, <1>5, DriveHere
    <2>2. /\ dev.cmd = "read" => Reads(c, dev, disk)
          /\ dev.cmd = "identify" => Identifies(c, dev, regs)
          /\ dev.cmd = "write" => Writes(c, dev)
          /\ dev.cmd \notin {"read", "identify", "write"} => Flushes(c, dev)
      BY <1>1, <2>1 DEF DriveInv, Reads, Identifies, Writes, Flushes
    <2>3. dev.cmd \in {"read", "write"} => c.lba \in failed'
      BY <1>1, <2>2 DEF Reads, Writes
    <2>4. c.pc # "in"
      BY <1>1, <2>2 DEF Reads, Identifies, Writes, Flushes
    <2>5. CallInv(c, Running(dev'), disk', regs', failed')
      BY <1>1, <1>4, <2>1, <2>2, <2>3, <2>4 DEF CallInv, Reads, Identifies, Writes, Flushes
    <2>6. FatInv'
      <3>1. TaskInv'
        BY <1>1, <1>4, <2>1 DEF Sound, FatInv, TaskInv
      <3>2. ASSUME NEW s \in FatSectors, s \notin failed' PROVE CopyInv(s)'
        <4>1. CopyInv(s)
          BY <1>4, <2>1, <3>2 DEF Sound, FatInv
        <4>2. (IsWritten(s)' <=> IsWritten(s)) /\ (ToCome(s)' <=> ToCome(s))
          BY DEF IsWritten, ToCome
        <4> QED
          BY <1>1, <4>1, <4>2 DEF CopyInv
      <3> QED
        BY <3>1, <3>2 DEF FatInv
    <2> QED
      BY <1>2, <1>3, <2>1, <2>5, <2>6 DEF DriveInv
  <1>6. disk' \in [Sector -> Contents]
    BY <1>1 DEF TypeOK
  <1> QED
    BY <1>1, <1>2, <1>3, <1>4, <1>5, <1>6, DriveStep

-----------------------------------------------------------------------------
(* The invariant holds. *)

LEMMA AtaStarts == Init => AtaInv
  <1> SUFFICES ASSUME Init PROVE AtaInv
    OBVIOUS
  <1>1. /\ CallOK(Off) /\ Off \in CallRecord /\ Off.pc = "off" /\ Off.cmd = None
        /\ DeviceOK(Ready) /\ Ready.st = "idle"
    BY OffOK DEF CallOK
  <1>2. cpu \in [Actor -> CallRecord] /\ \A a \in Actor : cpu[a] = Off
    BY <1>1 DEF Init
  <1>3. disk \in [Sector -> Contents] /\ \A s \in FatSectors : disk[s] = want
    <2>1. \A s \in Sector : All(IF s \in FatSectors THEN Free ELSE s) \in Contents
      BY ConstantTypes
    <2> QED
      BY <2>1, ConstantTypes DEF Init
  <1>4. TaskOK /\ task.stage = "none"
    BY DEF Init, NoTask, TaskOK
  <1>5. got \in [Actor -> {None} \cup AnswerRecord] /\ want \in Contents /\ failed \subseteq Sector /\ regs \in Sector
    BY ConstantTypes DEF Init
  <1>6. TypeOK
    BY <1>1, <1>2, <1>3, <1>4, <1>5, ActorType DEF TypeOK, Init
  <1>7. DriveInv(cpu[Active], dev, regs, disk)
    BY <1>1 DEF DriveInv, Init
  <1>8. \A a \in Actor : CallInv(cpu[a], CmdFor(a), disk, regs, failed)
    BY <1>1, <1>2, Constants DEF CallInv
  <1>9. FatInv
    <2>1. TaskInv
      BY <1>4 DEF TaskInv
    <2>2. \A s \in FatSectors : CopyInv(s)
      BY <1>1, <1>2, <1>3, <1>4, ActorType, Constants DEF CopyInv, IsWritten, ToCome
    <2> QED
      BY <2>1, <2>2 DEF FatInv
  <1> QED
    BY <1>1, <1>2, <1>6, <1>7, <1>8, <1>9, ActorType DEF AtaInv, Sound

LEMMA AtaKeeps == AtaInv /\ [Next]_vars => AtaInv'
  <1> SUFFICES ASSUME AtaInv, [Next]_vars PROVE AtaInv'
    OBVIOUS
  <1>1. ASSUME EntryStep, UNCHANGED <<disk, want, failed, calls, tabs>> PROVE AtaInv'
    BY <1>1, EntryStepKeeps
  <1>2. ASSUME NEW a \in Actor, UNCHANGED <<disk, want, failed, calls, tabs>>,
               SetReg(a) \/ Command(a) \/ WaitBsy(a) \/ WaitDrq(a)
               \/ InWord(a) \/ OutWord(a) \/ LastWait(a) \/ IdentifyWait(a)
        PROVE  AtaInv'
    BY <1>2, SetRegStep, CommandStep, WaitBsyStep, WaitDrqStep, InWordStep, OutWordStep, LastWaitStep,
       IdentifyWaitStep
  <1>3. CASE Call
    BY <1>3, CallKeeps
  <1>4. ASSUME NEW s \in Sector, Tab(s) PROVE AtaInv'
    BY <1>4, TabKeeps
  <1>5. CASE (Work \/ Fail) /\ UNCHANGED <<cpu, task, got, want, torn, calls, tabs>>
    BY <1>5, WorkKeeps, FailKeeps
  <1>6. CASE UNCHANGED vars
    BY <1>6 DEF vars, AtaInv, TypeOK, TaskOK, Sound, Active, CmdFor, Running, FatInv, TaskInv, CopyInv,
       IsWritten, ToCome
  <1> QED
    BY <1>1, <1>2, <1>3, <1>4, <1>5, <1>6 DEF Next, Step

(* As long as no window of Tears was hit, no wait has given up on a drive at *)
(* work and diskinfo has not run, the drive works for the call that runs.    *)
THEOREM AtaInductive == Spec => []AtaInv
  BY AtaStarts, AtaKeeps, PTL DEF Spec

(* Every variable of the driver keeps its type, and a call its place.        *)
THEOREM AtaTypeCorrect == Spec => []TypeOK
  <1>1. AtaInv => TypeOK
    BY DEF AtaInv
  <1> QED
    BY <1>1, AtaInductive, PTL

(* After fat_write_entry every copy of the FAT holds the new entry and still *)
(* all others, but those the drive reported an error for.                    *)
THEOREM AtaEntriesKept == Spec => []EntriesKept
  <1>1. AtaInv => EntriesKept
    <2> SUFFICES ASSUME AtaInv, Idle, torn = {}, NEW s \in FatSectors, s \notin failed
                 PROVE  disk[s] = want
      BY DEF EntriesKept
    <2>1. Sound /\ cpu["main"].cmd = None
      BY AtRest DEF Idle
    <2> QED
      BY <2>1, Constants DEF Sound, FatInv, CopyInv, IsWritten, ToCome, Idle
  <1> QED
    BY <1>1, AtaInductive, PTL

-----------------------------------------------------------------------------
(* Sectors are read and written whole. *)

Requested(c) == IF c.cmd = "write" THEN [to |-> c.lba, data |-> c.buf] ELSE None

(* What a step shows of the driver: a step of SectorDisk, or nothing.        *)
Shown ==
    \/ Sectors!Next
    \/ disk' = disk /\ Requested(cpu'["main"]) = Requested(cpu["main"]) /\ got' = got

LEMMA RequestType ==
    ASSUME TypeOK
    PROVE  /\ cpu["main"].cmd = "write" =>
                 /\ Requested(cpu["main"]) \in [to : Sector, data : Contents]
                 /\ Requested(cpu["main"]) # None
                 /\ Requested(cpu["main"]).to = cpu["main"].lba /\ Requested(cpu["main"]).data = cpu["main"].buf
           /\ cpu["main"].cmd # "write" => Requested(cpu["main"]) = None
  <1>1. cpu["main"] \in CallRecord
    BY ActorType DEF TypeOK
  <1>2. cpu["main"].lba \in Sector /\ cpu["main"].buf \in Contents
    BY <1>1 DEF CallRecord
  <1>3. cpu["main"].cmd = "write" => Requested(cpu["main"]) \in [to : Sector, data : Contents]
    BY <1>2 DEF Requested
  <1> QED
    BY <1>3, NoneIsNoRequest DEF Requested

LEMMA AnswerShown ==
    ASSUME torn = {}, torn' = {}, NEW a \in Actor, NEW new \in Sectors!Answers(a),
           got' = [got EXCEPT ![a] = new], disk' = disk,
           Requested(cpu'["main"]) = Requested(cpu["main"])
    PROVE  Shown
  BY DEF Shown, Sectors!Next, Sectors!Answer, Requested

LEMMA SilentStep ==
    ASSUME TypeOK, NEW a \in Actor, NEW new, cpu' = [cpu EXCEPT ![a] = new], got' = got, disk' = disk,
           new.cmd = cpu[a].cmd, new.lba = cpu[a].lba, cpu[a].cmd = "write" => new.buf = cpu[a].buf
    PROVE  Shown
  <1>1. cpu'[a] = new /\ \A b \in Actor : b # a => cpu'[b] = cpu[b]
    BY DEF TypeOK
  <1>2. Requested(cpu'["main"]) = Requested(cpu["main"])
    BY <1>1, ActorType DEF Requested
  <1> QED
    BY <1>2 DEF Shown

LEMMA OnToShown ==
    ASSUME TypeOK, NEW a \in Actor, NEW where \in Place, OnTo(a, where), disk' = disk
    PROVE  Shown
  <1>1. cpu[a] \in CallRecord /\ cpu' = [cpu EXCEPT ![a] = Moved(cpu[a], where)] /\ got' = got
    BY OnToCall DEF TypeOK
  <1>2. PICK new : new = Moved(cpu[a], where)
    OBVIOUS
  <1>3. new.cmd = cpu[a].cmd /\ new.lba = cpu[a].lba /\ new.buf = cpu[a].buf
    BY <1>1, <1>2, MovedFields
  <1> QED
    BY <1>1, <1>2, <1>3, SilentStep

LEMMA PollShown ==
    ASSUME TypeOK, NEW a \in Actor, Poll(a), got' = got, disk' = disk
    PROVE  Shown
  <1>1. PICK new : new = [cpu[a] EXCEPT !.polls = @ - 1]
    OBVIOUS
  <1>2. cpu' = [cpu EXCEPT ![a] = new] /\ cpu[a] \in CallRecord
    BY <1>1 DEF Poll, TypeOK
  <1>3. new.cmd = cpu[a].cmd /\ new.lba = cpu[a].lba /\ new.buf = cpu[a].buf
    BY <1>1, <1>2 DEF CallRecord
  <1> QED
    BY <1>2, <1>3, SilentStep

(* A call that is over without an answer: a write, or a read that failed.    *)
LEMMA ReturnShown ==
    ASSUME TypeOK, torn = {}, torn' = {}, NEW a \in Actor, Return(a, FALSE), disk' = disk
    PROVE  Shown
  <1>1. PICK buf \in Contents :
              /\ cpu' = [cpu EXCEPT ![a] = Ended(buf)]
              /\ got' = [got EXCEPT ![a] = @]
    BY ReturnCall
  <1>2. got' = got
    BY <1>1 DEF TypeOK
  <1>3. cpu'[a] = Ended(buf) /\ Ended(buf).cmd = None /\ \A b \in Actor : b # a => cpu'[b] = cpu[b]
    BY <1>1, EndedFields DEF TypeOK
  <1>4. CASE a = "main"
    <2>1. Requested(cpu'["main"]) = None
      BY <1>3, <1>4, Constants DEF Requested
    <2> QED
      BY <1>2, <2>1 DEF Shown, Sectors!Next, Sectors!Over, Requested
  <1>5. CASE a # "main"
    BY <1>2, <1>3, <1>5, ActorType DEF Shown
  <1> QED
    BY <1>4, <1>5

(* A read that reports success has the contents of its sector.               *)
LEMMA AnsweredShown ==
    ASSUME AtaInv, torn = {}, torn' = {}, NEW a \in Actor, InWord(a), cpu[a].k > WORDS, disk' = disk
    PROVE  Shown
  <1> DEFINE c == cpu[a]
  <1>1. /\ c.pc = "in" /\ (a = "main" => cpu["tab"].pc = "off") /\ Return(a, TRUE)
    BY DEF InWord, At
  <1>2. /\ TypeOK /\ CallOK(c) /\ c \in CallRecord /\ c.cmd \in {"read", "identify"}
        /\ c.k \in 1..(WORDS + 1)
        /\ CallInv(c, Running(dev), disk, regs, failed)
    BY <1>1, Here DEF CallOK, CallRecord
  <1>3. \A w \in Word : c.buf[w] = IF c.cmd = "read" THEN disk[c.lba][w] ELSE Identity
    BY <1>1, <1>2, Constants DEF CallInv, Word
  <1>4. c.buf \in Contents /\ c.lba \in Sector /\ disk[c.lba] \in Contents /\ All(Identity) \in Contents
    BY <1>2, ConstantTypes DEF TypeOK, CallRecord
  <1>5. c.cmd = "read" => c.buf = disk[c.lba]
    BY <1>3, <1>4, SameContents
  <1>6. c.cmd = "identify" => c.buf = All(Identity)
    <2>1. \A w \in Word : All(Identity)[w] = Identity
      BY DEF All
    <2> QED
      BY <1>3, <1>4, <2>1, SameContents
  <1>7. PICK buf \in Contents :
              /\ cpu' = [cpu EXCEPT ![a] = Ended(buf)]
              /\ got' = [got EXCEPT ![a] = [from |-> IF c.cmd = "identify" THEN Drive ELSE c.lba,
                                            data |-> c.buf]]
    BY <1>1, <1>2, ReturnCall
  <1>8. PICK new : new = [from |-> IF c.cmd = "identify" THEN Drive ELSE c.lba, data |-> c.buf]
    OBVIOUS
  <1>9. new \in Sectors!Answers(a)
    BY <1>2, <1>4, <1>5, <1>6, <1>8 DEF Sectors!Answers
  <1>10. Requested(cpu'["main"]) = Requested(cpu["main"])
    <2>1. cpu'[a] = Ended(buf) /\ Ended(buf).cmd = None /\ \A b \in Actor : b # a => cpu'[b] = cpu[b]
      BY <1>2, <1>7, EndedFields DEF TypeOK
    <2> QED
      BY <1>2, <2>1, ActorType, Constants DEF Requested
  <1> QED
    BY <1>7, <1>8, <1>9, <1>10, AnswerShown

LEMMA UnreadyShown ==
    ASSUME TypeOK, torn = {}, torn' = {}, NEW a \in Actor, NEW where \in Place, Unready(a, where),
           disk' = disk
    PROVE  Shown
  BY ReturnShown, OnToShown DEF Unready

LEMMA StepShown ==
    ASSUME AtaInv, torn = {}, torn' = {}, NEW a \in Actor, disk' = disk,
           SetReg(a) \/ Command(a) \/ WaitBsy(a) \/ WaitDrq(a)
           \/ InWord(a) \/ OutWord(a) \/ LastWait(a) \/ IdentifyWait(a)
    PROVE  Shown
  <1>1. TypeOK /\ cpu[a] \in CallRecord
    BY DEF AtaInv, TypeOK
  <1>2. \A where \in {"drq", "in", "out", "last", "idbsy", "iddrq", "bsy"} : where \in Place
    BY DEF Place
  <1>3. CASE SetReg(a)
    <2>1. PICK new : new = [cpu[a] EXCEPT !.k = @ + 1]
      OBVIOUS
    <2>2. cpu' = [cpu EXCEPT ![a] = new] /\ got' = got
      BY <1>3, <2>1 DEF SetReg
    <2>3. new.cmd = cpu[a].cmd /\ new.lba = cpu[a].lba /\ new.buf = cpu[a].buf
      BY <1>1, <2>1 DEF CallRecord
    <2> QED
      BY <1>1, <2>2, <2>3, SilentStep
  <1>4. CASE Command(a)
    <2>1. OnTo(a, "idbsy") \/ OnTo(a, "bsy")
      BY <1>4 DEF Command
    <2> QED
      BY <1>1, <1>2, <2>1, OnToShown
  <1>5. CASE WaitBsy(a)
    <2>1. OnTo(a, "drq") \/ (Poll(a) /\ got' = got) \/ Unready(a, "drq")
      BY <1>5 DEF WaitBsy, Wait
    <2> QED
      BY <1>1, <1>2, <2>1, OnToShown, PollShown, UnreadyShown
  <1>6. CASE WaitDrq(a)
    <2>1. OnTo(a, "in") \/ OnTo(a, "out") \/ (Poll(a) /\ got' = got) \/ Unready(a, "out")
      BY <1>6 DEF WaitDrq, Wait
    <2> QED
      BY <1>1, <1>2, <2>1, OnToShown, PollShown, UnreadyShown
  <1>7. CASE InWord(a)
    <2>1. CASE cpu[a].k > WORDS
      BY <1>7, <2>1, AnsweredShown
    <2>2. CASE ~(cpu[a].k > WORDS)
      <3>1. PICK x : cpu' = [cpu EXCEPT ![a].buf[cpu[a].k] = x, ![a].k = @ + 1]
        BY <1>7, <2>2 DEF InWord
      <3>2. PICK new : new = [cpu[a] EXCEPT !.buf[cpu[a].k] = x, !.k = @ + 1]
        OBVIOUS
      <3>3. cpu' = [cpu EXCEPT ![a] = new] /\ got' = got
        BY <1>1, <1>7, <2>2, <3>1, <3>2 DEF InWord, TypeOK, CallRecord
      <3>4. new.cmd = cpu[a].cmd /\ new.lba = cpu[a].lba /\ cpu[a].cmd # "write"
        <4>1. cpu[a].cmd \in {"read", "identify"}
          BY <1>1, <1>7 DEF InWord, At, TypeOK, CallOK
        <4> QED
          BY <1>1, <3>2, <4>1 DEF CallRecord
      <3> QED
        BY <1>1, <3>3, <3>4, SilentStep
    <2> QED
      BY <2>1, <2>2
  <1>8. CASE OutWord(a)
    <2>1. CASE cpu[a].k > WORDS
      BY <1>1, <1>2, <1>8, <2>1, OnToShown DEF OutWord
    <2>2. CASE ~(cpu[a].k > WORDS)
      <3>1. PICK new : new = [cpu[a] EXCEPT !.k = @ + 1]
        OBVIOUS
      <3>2. cpu' = [cpu EXCEPT ![a] = new] /\ got' = got
        BY <1>8, <2>2, <3>1 DEF OutWord
      <3>3. new.cmd = cpu[a].cmd /\ new.lba = cpu[a].lba /\ new.buf = cpu[a].buf
        BY <1>1, <3>1 DEF CallRecord
      <3> QED
        BY <1>1, <3>2, <3>3, SilentStep
    <2> QED
      BY <2>1, <2>2
  <1>9. CASE LastWait(a)
    <2>1. Return(a, FALSE) \/ (Poll(a) /\ got' = got)
      BY <1>9 DEF LastWait, Wait
    <2> QED
      BY <1>1, <2>1, ReturnShown, PollShown
  <1>10. CASE IdentifyWait(a)
    <2>1. OnTo(a, "iddrq") \/ OnTo(a, "in") \/ Return(a, FALSE)
      BY <1>10 DEF IdentifyWait
    <2> QED
      BY <1>1, <1>2, <2>1, OnToShown, ReturnShown
  <1> QED
    BY <1>3, <1>4, <1>5, <1>6, <1>7, <1>8, <1>9, <1>10

(* A call that begins: a write is requested, and the answer to the call      *)
(* before is forgotten.                                                      *)
LEMMA BeginShown ==
    ASSUME TypeOK, torn = {}, torn' = {}, NEW a \in Actor, cpu[a].pc = "off",
           NEW cmd \in {"read", "write", "identify"}, NEW s \in Sector, NEW buf \in Contents,
           Begin(a, cmd, s, buf), cmd = "identify" => s = Zero, a = "tab" => cmd = "read", disk' = disk
    PROVE  Shown
  <1> DEFINE new == Begun(cmd, s, buf)
  <1>1. /\ CallOK(new) /\ new \in CallRecord /\ new.cmd = cmd /\ new.lba = s /\ new.buf = buf
    BY BegunFields DEF CallOK
  <1>2. cpu' = [cpu EXCEPT ![a] = new] /\ got' = [got EXCEPT ![a] = None]
    BY DEF Begin, Begun
  <1> HIDE DEF new
  <1>3. cpu'[a] = new /\ \A b \in Actor : b # a => cpu'[b] = cpu[b]
    BY <1>2 DEF TypeOK
  <1>4. None \in Sectors!Answers(a)
    BY DEF Sectors!Answers
  <1>5. CASE a = "tab"
    <2>1. Requested(cpu'["main"]) = Requested(cpu["main"])
      BY <1>3, <1>5, ActorType
    <2> QED
      BY <1>2, <1>4, <2>1, AnswerShown
  <1>6. CASE a = "main"
    <2>1. cpu["main"].cmd = None
      BY <1>6 DEF TypeOK, CallOK
    <2>2. Requested(cpu["main"]) = None
      BY <2>1, Constants DEF Requested
    <2>3. CASE cmd # "write"
      <3>1. Requested(cpu'["main"]) = None
        BY <1>1, <1>3, <1>6, <2>3 DEF Requested
      <3> QED
        BY <1>2, <1>4, <2>2, <3>1, AnswerShown
    <2>4. CASE cmd = "write"
      <3>1. Requested(cpu'["main"]) \in [to : Sector, data : Contents]
        BY <1>1, <1>3, <1>6, <2>4 DEF Requested
      <3> QED
        BY <1>2, <1>6, <2>2, <3>1, ActorType DEF Shown, Sectors!Next, Sectors!Request, Requested
    <2> QED
      BY <2>3, <2>4
  <1> QED
    BY <1>5, <1>6, ActorType

LEMMA EntryShown ==
    ASSUME AtaInv, torn = {}, torn' = {}, EntryStep, disk' = disk
    PROVE  Shown
  <1>1. /\ TypeOK /\ cpu["main"].pc = "off" /\ task.stage \in {"read", "write"}
    BY DEF EntryStep, At, AtaInv
  <1>2. FatCopies[task.copy] \in Sector /\ task.word \in Word
    BY <1>1, Constants DEF TypeOK, TaskOK
  <1>3. PICK s \in Sector : s = FatCopies[task.copy]
    BY <1>2
  <1>4. CASE task.stage = "read"
    BY <1>1, <1>3, <1>4, BeginShown, ConstantTypes, ActorType DEF EntryStep, Base
  <1>5. CASE task.stage = "write"
    <2>1. [cpu["main"].buf EXCEPT ![task.word] = Entry] \in Contents
      BY <1>1, WordChanged, ActorType DEF TypeOK, CallRecord
    <2>2. PICK buf \in Contents : buf = [cpu["main"].buf EXCEPT ![task.word] = Entry]
      BY <2>1
    <2> QED
      BY <1>1, <1>3, <1>5, <2>2, BeginShown, ActorType DEF EntryStep, Base
  <1> QED
    BY <1>1, <1>4, <1>5

LEMMA CallShown ==
    ASSUME AtaInv, torn = {}, torn' = {}, Call
    PROVE  Shown
  <1>1. TypeOK /\ cpu["main"].pc = "off" /\ disk' = disk /\ All(Junk) \in Contents /\ All(Fresh) \in Contents
        /\ Zero \in Sector
    BY ConstantTypes DEF Call, Idle, AtaInv
  <1>2. ASSUME NEW s \in Sector, Read(s) \/ Write(s) PROVE Shown
    BY <1>1, <1>2, BeginShown, ActorType DEF Read, Write
  <1>3. CASE Identify
    BY <1>1, <1>3, BeginShown, ActorType DEF Identify
  <1>4. ASSUME NEW w \in Word, FatWriteEntry(w) PROVE Shown
    BY <1>1, <1>4 DEF FatWriteEntry, Shown
  <1>5. ~Diskinfo
    BY DEF Diskinfo
  <1> QED
    BY <1>2, <1>3, <1>4, <1>5 DEF Call

(* The drive stores what was requested, where it was requested.              *)
LEMMA WorkShown ==
    ASSUME AtaInv, torn = {}, torn' = {}, Work, UNCHANGED <<cpu, got>>
    PROVE  Shown
  <1>1. /\ TypeOK /\ dev.st = "busy"
        /\ disk' = IF dev.cmd = "write" /\ dev.pos > WORDS THEN [disk EXCEPT ![dev.lba] = dev.buf] ELSE disk
    BY DEF Work, AtaInv
  <1>2. CASE dev.cmd = "write" /\ dev.pos > WORDS
    <2>1. Active = "main" /\ DriveInv(cpu["main"], dev, regs, disk)
      <3>1. DriveInv(cpu[Active], dev, regs, disk) /\ (dev.cmd # "read" => Active = "main")
        BY <1>1, DriveHere
      <3> QED
        BY <1>2, <3>1
    <2>2. Writes(cpu["main"], dev)
      BY <1>1, <1>2, <2>1 DEF DriveInv, Reads, Identifies, Flushes
    <2>3. /\ cpu["main"].cmd = "write" /\ dev.lba = cpu["main"].lba /\ dev.buf = cpu["main"].buf
      BY <1>1, <1>2, <2>2, Constants DEF Writes
    <2>4. /\ Requested(cpu["main"]) # None
          /\ disk' = [disk EXCEPT ![Requested(cpu["main"]).to] = Requested(cpu["main"]).data]
      BY <1>1, <1>2, <2>3, RequestType
    <2> QED
      BY <2>4 DEF Shown, Sectors!Next, Sectors!Apply, Requested
  <1>3. CASE ~(dev.cmd = "write" /\ dev.pos > WORDS)
    BY <1>1, <1>3 DEF Shown
  <1> QED
    BY <1>2, <1>3

LEMMA TornStays ==
    ASSUME [Next]_vars, torn' = {}
    PROVE  torn = {}
  <1>1. ASSUME NEW a \in Actor,
               SetReg(a) \/ Command(a) \/ WaitBsy(a) \/ WaitDrq(a)
               \/ InWord(a) \/ OutWord(a) \/ LastWait(a) \/ IdentifyWait(a)
        PROVE  torn \subseteq torn'
    BY <1>1 DEF SetReg, Command, WaitBsy, WaitDrq, Wait, InWord, OutWord, LastWait, IdentifyWait
  <1>2. EntryStep => torn \subseteq torn'
    BY DEF EntryStep
  <1>3. Call => torn \subseteq torn'
    BY DEF Call, Read, Write, Identify, Diskinfo, FatWriteEntry
  <1>4. \A s \in Sector : Tab(s) => torn \subseteq torn'
    BY DEF Tab
  <1> QED
    BY <1>1, <1>2, <1>3, <1>4 DEF Next, Step, vars

(* Sectors are read and written whole, of the command and of TAB alike,      *)
(* until the first window of Tears is hit.                                   *)
THEOREM AtaImplementsSectors == Spec => ImplementsSectors
  <1>1. Init => Sectors!Init
    <2> SUFFICES ASSUME Init PROVE Sectors!Init
      OBVIOUS
    <2>1. AtaInv
      BY AtaStarts
    <2>2. cpu["main"].cmd = None
      BY OffOK, ActorType DEF Init
    <2> QED
      BY <2>1, <2>2, Constants DEF AtaInv, TypeOK, Init, Sectors!Init
  <1>2. AtaInv /\ [Next]_vars =>
          [Sectors!Next]_<<disk, IF cpu["main"].cmd = "write"
                                 THEN [to |-> cpu["main"].lba, data |-> cpu["main"].buf] ELSE None,
                           got, torn = {}>>
    <2> SUFFICES ASSUME AtaInv, [Next]_vars
                 PROVE  Sectors!Next \/ UNCHANGED <<disk, Requested(cpu["main"]), got, torn = {}>>
      BY DEF Requested
    <2>1. CASE torn' # {}
      BY <2>1 DEF Sectors!Next
    <2>2. CASE torn' = {}
      <3>1. torn = {}
        BY <2>2, TornStays
      <3> SUFFICES Shown
        BY <2>2, <3>1 DEF Shown
      <3>2. ASSUME EntryStep, UNCHANGED disk PROVE Shown
        BY <2>2, <3>1, <3>2, EntryShown
      <3>3. ASSUME NEW a \in Actor, UNCHANGED disk,
                   SetReg(a) \/ Command(a) \/ WaitBsy(a) \/ WaitDrq(a)
                   \/ InWord(a) \/ OutWord(a) \/ LastWait(a) \/ IdentifyWait(a)
            PROVE  Shown
        BY <2>2, <3>1, <3>3, StepShown
      <3>4. CASE Call
        BY <2>2, <3>1, <3>4, CallShown
      <3>5. ASSUME NEW s \in Sector, Tab(s) PROVE Shown
        BY <2>2, <3>1, <3>5, BeginShown, ConstantTypes, ActorType DEF Tab, AtaInv
      <3>6. CASE (Work \/ Fail) /\ UNCHANGED <<cpu, task, got, want, torn, calls, tabs>>
        BY <2>2, <3>1, <3>6, WorkShown DEF Fail, Shown
      <3>7. CASE UNCHANGED vars
        BY <3>7 DEF vars, Shown
      <3> QED
        BY <3>2, <3>3, <3>4, <3>5, <3>6, <3>7 DEF Next, Step
    <2> QED
      BY <2>1, <2>2
  <1> QED
    BY <1>1, <1>2, AtaInductive, PTL DEF Spec, ImplementsSectors, Sectors!Spec

=============================================================================
