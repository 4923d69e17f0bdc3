------------------------------ MODULE Keyboard ------------------------------
(***************************************************************************)
(* Line input: keyboard_callback, which runs in the keyboard interrupt, and *)
(* sconf, which the shell and ncat wait in (src/src/drivers/keyboard.c).    *)
(* The two share input_buffer, input_size and ready without any locking:    *)
(* an interrupt falls between any two statements of sconf, and between any  *)
(* two characters it copies, while itself it is not interrupted.            *)
(*                                                                         *)
(* Left out: shift and caps lock (which letter a key stands for), the keys  *)
(* of the 3D demo and of GUI mode, and the echo (module Console).           *)
(***************************************************************************)
EXTENDS Integers, Sequences, SequencesExt, FiniteSetsExt

CONSTANTS
    Letters,        \* what the keys type, Space and Slash among them
    Space, Slash,
    Nul,            \* the terminator
    Cap,            \* sizeof(input_buffer): 256 in the code
    Commands,       \* names of commands
    Files, Dirs,    \* names in the current directory
    MaxKeys         \* bound: bytes the keyboard sends

ASSUME KeyboardAssumption ==
    /\ {Space, Slash} \subseteq Letters /\ Nul \notin Letters
    /\ Cap \in Nat \ {0} /\ MaxKeys \in Nat
    /\ Commands \cup Files \cup Dirs \subseteq Seq(Letters \ {Space, Slash})

VARIABLES
    input_buffer, input_size, ready, extended,
    pc,             \* where the main loop is
    i, line,        \* sconf: the characters copied so far
    keys,           \* bytes the keyboard has sent
    typed,          \* history: what the user typed since the last line
    entered,        \* history: what it was when ENTER was hit
    hurried,        \* history: a key was hit between ENTER and the end of sconf
    enters, lines   \* history: lines ended, lines handed over

kbd == <<input_buffer, input_size, ready, extended>>
main == <<pc, i, line>>
hist == <<typed, entered, hurried, enters, lines>>
vars == <<kbd, main, keys, hist>>

Init ==
    /\ input_buffer = [n \in 0..(Cap - 1) |-> Nul]
    /\ input_size = 0 /\ ready = FALSE /\ extended = FALSE
    /\ pc = "spin" /\ i = 0 /\ line = <<>> /\ keys = 0
    /\ typed = <<>> /\ entered = <<>> /\ hurried = FALSE
    /\ enters = 0 /\ lines = 0

-----------------------------------------------------------------------------
(* The interrupt handler. *)

(* The text in the buffer, and a text put there. *)
Text == [n \in 1..input_size |-> input_buffer[n - 1]]
Put(t) ==
    /\ input_size' = Len(t)
    /\ input_buffer' = [n \in 0..(Cap - 1) |-> IF n < Len(t) THEN t[n + 1] ELSE input_buffer[n]]

(* Mutant of LetterText: the last byte of the buffer is taken as well.       *)
LetterTextToEnd(t, c) == IF Len(t) < Cap THEN Append(t, c) ELSE t

LetterText(t, c) == IF Len(t) < Cap - 1 THEN Append(t, c) ELSE t

(* handle_tab.  The word starts behind the last space; what the names are     *)
(* compared with is not the word but all that stands in the buffer from      *)
(* there to the next terminator, old input behind input_size included.       *)
WordStart == Max({0} \cup {n \in 1..input_size : Text[n] = Space})
Pattern ==
    LET end == Min({n \in WordStart..(Cap - 1) : input_buffer[n] = Nul} \cup {Cap})
    IN  [n \in 1..(end - WordStart) |-> input_buffer[WordStart + n - 1]]

(* The names that continue a word, each with what is put behind it.          *)
Completions(first, word) ==
    LET fits(names) == {name \in names : IsPrefix(word, name)}
    IN  IF first
        THEN {name \o <<Space>> : name \in fits(Commands)}
        ELSE fits(Files) \cup {name \o <<Slash>> : name \in fits(Dirs)}

(* The text with a completion in the place of the word, as far as it fits.   *)
Complete(c) ==
    LET full == SubSeq(Text, 1, WordStart) \o c
    IN  SubSeq(full, 1, Min({Len(full), Cap - 1}))

(* One name takes the place of the word; several are listed on the screen.   *)
TabText ==
    LET found == Completions(WordStart = 0, Pattern)
    IN  IF input_size > 0 /\ Cardinality(found) = 1
        THEN Complete(CHOOSE c \in found : TRUE) ELSE Text

(* Mutant of BackspaceText: the last letter stays.                           *)
BackspaceTextLast(t) == IF Len(t) > 1 THEN Front(t) ELSE t

BackspaceText(t) == IF t = <<>> THEN t ELSE Front(t)

(* A byte comes from the keyboard: 0xE0, which makes the handler skip the    *)
(* next byte, ENTER, or a key that edits the text.                           *)
Hit ==
    /\ keys < MaxKeys /\ keys' = keys + 1
    /\ UNCHANGED <<main, lines>>

Busy == ready \/ pc \in {"copy", "reset", "clear"}

Prefix ==
    /\ Hit
    /\ extended' = TRUE
    /\ UNCHANGED <<input_buffer, input_size, ready, typed, entered, hurried, enters>>

Skip ==
    /\ Hit
    /\ extended /\ extended' = FALSE
    /\ UNCHANGED <<input_buffer, input_size, ready, typed, entered, hurried, enters>>

Edit(old, new) ==
    /\ Hit
    /\ ~extended
    /\ Put(new) /\ typed' = old
    /\ hurried' = (hurried \/ Busy)
    /\ UNCHANGED <<ready, extended, entered, enters>>

Letter(c) == Edit(LetterText(typed, c), LetterText(Text, c))
Backspace == Edit(IF typed = <<>> THEN typed ELSE Front(typed), BackspaceText(Text))
Tab == Edit(TabText, TabText)

(* Mutant of Enter: no terminator. *)
EnterUnterminated ==
    /\ Hit
    /\ ~extended
    /\ ready' = TRUE
    /\ entered' = IF Busy THEN entered ELSE typed
    /\ hurried' = (hurried \/ Busy)
    /\ enters' = enters + 1
    /\ UNCHANGED <<input_buffer, input_size, extended, typed>>

Enter ==
    /\ Hit
    /\ ~extended
    /\ input_buffer' = [input_buffer EXCEPT ![input_size] = Nul]
    /\ ready' = TRUE
    /\ entered' = IF Busy THEN entered ELSE typed
    /\ hurried' = (hurried \/ Busy)
    /\ enters' = enters + 1
    /\ UNCHANGED <<input_size, extended, typed>>

-----------------------------------------------------------------------------
(* sconf, statement by statement, and its caller. *)

(* Mutant of Spin: an empty line does not count. *)
SpinNonEmpty ==
    /\ pc = "spin" /\ ready /\ input_size > 0
    /\ pc' = "copy" /\ i' = 0 /\ line' = <<>>
    /\ UNCHANGED <<kbd, keys, hist>>

Spin ==
    /\ pc = "spin" /\ ready
    /\ pc' = "copy" /\ i' = 0 /\ line' = <<>>
    /\ UNCHANGED <<kbd, keys, hist>>

Copy ==
    /\ pc = "copy"
    /\ i \in 0..(Cap - 1)
    /\ IF input_buffer[i] = Nul
       THEN pc' = "reset" /\ UNCHANGED <<i, line>>
       ELSE i' = i + 1 /\ line' = Append(line, input_buffer[i]) /\ UNCHANGED pc
    /\ UNCHANGED <<kbd, keys, hist>>

Reset ==
    /\ pc = "reset"
    /\ input_size' = 0
    /\ pc' = "clear"
    /\ UNCHANGED <<input_buffer, ready, extended, i, line, keys, hist>>

(* sconf returns: from here on the user types the next line.                 *)
Returned ==
    /\ pc = "clear" /\ pc' = "run"
    /\ typed' = IF hurried THEN Text ELSE <<>>
    /\ hurried' = FALSE
    /\ lines' = lines + 1
    /\ UNCHANGED <<input_buffer, input_size, extended, i, line, keys, entered, enters>>

(* Mutant of Clear: ready stays. *)
ClearNothing == Returned /\ UNCHANGED ready

Clear == Returned /\ ready' = FALSE

(* The command is over. *)
Run ==
    /\ pc = "run" /\ pc' = "spin"
    /\ i' = 0 /\ line' = <<>>
    /\ UNCHANGED <<kbd, keys, hist>>

-----------------------------------------------------------------------------
Interrupt == Prefix \/ Skip \/ (\E c \in Letters : Letter(c)) \/ Backspace \/ Tab \/ Enter
Main == Spin \/ Copy \/ Reset \/ Clear \/ Run

Next == Interrupt \/ Main

(* The processor goes on with the main loop when the handler returns. *)
Spec == Init /\ [][Next]_vars /\ WF_vars(Main)

-----------------------------------------------------------------------------
(* Type correctness. *)
TypeOK ==
    /\ input_buffer \in [0..(Cap - 1) -> Letters \cup {Nul}]
    /\ input_size \in 0..(Cap - 1)
    /\ {ready, extended, hurried} \subseteq BOOLEAN
    /\ pc \in {"spin", "copy", "reset", "clear", "run"}
    /\ i \in 0..Cap /\ line \in Seq(Letters)
    /\ typed \in Seq(Letters) /\ entered \in Seq(Letters)
    /\ enters \in 0..MaxKeys /\ lines \in Nat

(* A command gets the line as it was when ENTER was hit, typed ahead during  *)
(* the last command or not and edited as it may be, if no key was hit from   *)
(* then until sconf returned.                                                *)
LineIsTyped == pc = "clear" /\ ~hurried => line = entered

(* What the handler works on is what the user has typed since the last line. *)
BufferIsTyped == ~hurried /\ pc \notin {"reset", "clear"} => Text = typed

(* However the handler interferes with it, the copy finds a terminator       *)
(* inside the buffer.                                                        *)
CopyStops == pc = "copy" => \E n \in i..(Cap - 1) : input_buffer[n] = Nul

(* No command runs that the user did not end with ENTER. *)
NoPhantomLine == lines <= enters

(* A line that was ended is handed over. *)
HandedOver == ready ~> pc = "run"

(* keyboard.c:53 looks for "the word being typed" and line 90 replaces "the   *)
(* partial token" if there is one match: TAB completes the word if exactly   *)
(* one name continues it.                                                    *)
Word == SubSeq(Text, WordStart + 1, input_size)
TabCompletesWord ==
    [][Tab /\ input_size > 0 =>
          LET names == Completions(WordStart = 0, Word)
          IN  Text' = IF Cardinality(names) = 1
                      THEN Complete(CHOOSE c \in names : TRUE) ELSE Text]_vars
=============================================================================
