------------------------------ MODULE Console ------------------------------
(***************************************************************************)
(* The text console (src/src/drivers/vga.c): a command prints characters    *)
(* and clears the screen, statement by statement, while the keyboard         *)
(* interrupt echoes what is typed (src/src/drivers/keyboard.c) and the timer *)
(* interrupt blinks the cursor, each between any two statements of it.  Text *)
(* goes to the framebuffer (screen) and to screen_buf, the cursor only to    *)
(* the framebuffer, on top of whatever is there.                             *)
(***************************************************************************)
EXTENDS Integers, FiniteSets, Sequences

CONSTANTS
    ROWS, COLS,     \* MAX_ROWS and MAX_COLS
    MaxPrints,      \* bound: characters and clears of the commands
    MaxStrokes,     \* bound: keys
    MaxTicks,       \* bound: timer interrupts that blink
    MaxInput        \* the letters that fit in input_buffer: 255 in the code

ASSUME ConsoleAssumption ==
    /\ ROWS \in Nat /\ COLS \in Nat /\ ROWS >= 2 /\ COLS >= 2
    /\ {MaxPrints, MaxStrokes, MaxTicks} \subseteq Nat
    /\ MaxInput \in Nat \ {0} /\ 2 * MaxInput <= (ROWS - 1) * COLS

Blank == " "
Cursor == "_"
Junk == "?"         \* a glyph that is shifted by a scanline
Newline == "\n"
Output == "o"       \* a letter a command prints
Typed == "t"        \* one that is typed
Colour == "\\"
Bar == "="          \* the background of the title, and its text
Headline == "T"

Cell == (0..ROWS-1) \X (0..COLS-1)
None == <<>>

VARIABLES
    tty,        \* screen, buf, x, y, blink and drawn: the globals of vga.c
    job,        \* the command's print_char or clear: its next statement
    entry,      \* input_buffer, ready, and whether a command is running
    page,       \* history: the text on an endless page, its first line on
                \* the screen, and the letters typed last that end at its end
    torn,       \* history: one of the windows below was hit
    prints, strokes, ticks

consoleVars == <<tty, job, entry, page, torn, prints, strokes, ticks>>

-----------------------------------------------------------------------------
(* The statements of vga.c.  A glyph is drawn at once: an interrupt in the    *)
(* middle of it counts as one behind it.  A glyph right of the last column   *)
(* lands in the first one, a scanline lower; one below the last row is off   *)
(* the screen.                                                               *)
DrawChar(t, at, glyph) ==
    [t EXCEPT !.screen = IF at \in Cell THEN [@ EXCEPT ![at] = glyph]
                         ELSE IF at[1] < ROWS THEN [@ EXCEPT ![<<at[1], 0>>] = Junk] ELSE @,
              !.drawn = IF @ = at THEN None ELSE @]
Here(t) == <<t.y, t.x>>

Up(rows) == [c \in Cell |-> IF c[1] = ROWS - 1 THEN Blank ELSE rows[<<c[1] + 1, c[2]>>]]
ScrollBuffer(t) == [t EXCEPT !.buf = Up(@)]
ScrollFramebuffer(t) == [t EXCEPT !.screen = Up(@)]

(* Mutant of Scrub: the cursor scrolls with the text. *)
ScrubNot(t) == [t EXCEPT !.drawn = None]

Scrub(t) ==
    IF t.drawn \in Cell THEN DrawChar(t, t.drawn, t.buf[t.drawn]) ELSE [t EXCEPT !.drawn = None]

(* Mutant of Full: the line has room for one more. *)
FullLate(t) == t.x > COLS

Full(t) == t.x >= COLS
Feed(t) == [t EXCEPT !.x = 0, !.y = @ + 1]
Bottom(t) == [t EXCEPT !.y = ROWS - 1]
Store(t, c) == [t EXCEPT !.buf[Here(t)] = c]
Advance(t) == [t EXCEPT !.x = @ + 1]

(* print_char in an interrupt handler, all at once. *)
PrintChar(t, c) ==
    LET fed == IF c = Newline \/ Full(t) THEN Feed(t) ELSE t
        up  == IF fed.y >= ROWS THEN Bottom(ScrollFramebuffer(ScrollBuffer(Scrub(fed)))) ELSE fed
    IN  IF c = Newline THEN up ELSE Advance(DrawChar(Store(up, c), Here(up), c))

DoBackspace(t) ==
    LET back == IF t.x > 0 THEN [t EXCEPT !.x = @ - 1] ELSE [t EXCEPT !.y = @ - 1, !.x = COLS - 1]
        bare == DrawChar(DrawChar(back, Here(t), Blank), Here(back), Blank)
    IN  IF Here(t) = <<0, 0>> THEN t
        ELSE IF t.blink THEN DrawChar(bare, Here(back), Cursor) ELSE bare

DoClearCursor(t) == [DrawChar(t, Here(t), Blank) EXCEPT !.blink = FALSE]

BlinkCursor(t) ==
    IF t.blink THEN [DrawChar(t, Here(t), Blank) EXCEPT !.blink = FALSE, !.drawn = None]
    ELSE [DrawChar(t, Here(t), Cursor) EXCEPT !.blink = TRUE, !.drawn = Here(t)]

-----------------------------------------------------------------------------
(* The endless page: lines of at most COLS letters.  Output ends the run of   *)
(* typed letters.                                                            *)
LastLine(p) == p.lines[Len(p.lines)]
Below(p, ln) ==
    [p EXCEPT !.lines = Append(@, ln), !.top = IF Len(p.lines) >= @ + ROWS THEN @ + 1 ELSE @]
Write(p, c) ==
    LET q == [p EXCEPT !.tail = IF c = Typed THEN @ + 1 ELSE 0]
    IN  IF c = Newline THEN Below(q, <<>>)
        ELSE IF Len(LastLine(q)) = COLS THEN Below(q, <<c>>)
        ELSE [q EXCEPT !.lines[Len(q.lines)] = Append(@, c)]
Erase(p) ==
    LET kept == IF LastLine(p) = <<>> THEN SubSeq(p.lines, 1, Len(p.lines) - 1) ELSE p.lines
        ln   == kept[Len(kept)]
    IN  [p EXCEPT !.lines = [kept EXCEPT ![Len(kept)] = SubSeq(ln, 1, Len(ln) - 1)], !.tail = @ - 1]

(* A text that is printed in an interrupt handler, and written on the page. *)
Echo(t, p, text) ==
    LET upTo[n \in 0..Len(text)] ==
          IF n = 0 THEN [tty |-> t, page |-> p]
          ELSE [tty |-> PrintChar(upTo[n - 1].tty, text[n]), page |-> Write(upTo[n - 1].page, text[n])]
    IN  upTo[Len(text)]

-----------------------------------------------------------------------------
(* print_char, of the command. *)
Printing == job.pc # "idle"
Goes(from, to, t) == job.pc = from /\ job' = [job EXCEPT !.pc = to] /\ tty' = t
Printed == IF job.ch = Newline THEN "idle" ELSE "store"

(* A newline leaves a visible cursor behind, unless the line is the last one *)
(* and print_char knows of the cursor, to scrub it.                          *)
CursorLeft ==
    /\ job.ch = Newline /\ Here(tty) \in Cell /\ tty.screen[Here(tty)] = Cursor
    /\ ~(tty.y = ROWS - 1 /\ tty.drawn = Here(tty))

(* do_backspace erases the letter on the screen and not in screen_buf, which *)
(* is what is shown again where the cursor was.                              *)
ScrubsErased == tty.y >= ROWS /\ tty.drawn \in Cell /\ tty.buf[tty.drawn] # Blank

PrintStep ==
    \/ Goes("test", IF job.ch = Newline \/ Full(tty) THEN "return" ELSE "check", tty) /\ UNCHANGED <<page, torn>>
    \/ /\ Goes("return", "feed", [tty EXCEPT !.x = 0])
       /\ torn' = (torn \/ CursorLeft) /\ UNCHANGED page
    \/ /\ Goes("feed", "check", [tty EXCEPT !.y = @ + 1])
       /\ IF job.ch = Newline THEN page' = Write(page, Newline) ELSE UNCHANGED page
       /\ UNCHANGED torn
    \/ Goes("check", IF tty.y >= ROWS THEN "scrub" ELSE Printed, tty) /\ UNCHANGED <<page, torn>>
    \/ Goes("scrub", "scroll buffer", Scrub(tty)) /\ torn' = (torn \/ ScrubsErased) /\ UNCHANGED page
    \/ Goes("scroll buffer", "scroll", ScrollBuffer(tty)) /\ UNCHANGED <<page, torn>>
    \/ Goes("scroll", "bottom", ScrollFramebuffer(tty)) /\ UNCHANGED <<page, torn>>
    \/ Goes("bottom", Printed, Bottom(tty)) /\ UNCHANGED <<page, torn>>
    \/ Goes("store", "draw", Store(tty, job.ch)) /\ page' = Write(page, job.ch) /\ UNCHANGED torn
    \/ Goes("draw", "advance", DrawChar(tty, Here(tty), job.ch)) /\ UNCHANGED <<page, torn>>
    \/ Goes("advance", "idle", Advance(tty)) /\ UNCHANGED <<page, torn>>

(* clear: screen_clear, then print_center of the title in the first row.     *)
Place(k) == <<(k - 1) \div COLS, (k - 1) % COLS>>
TitleAt == <<0, (COLS - 1) \div 2>>
Barred(c) == IF c = TitleAt[2] THEN Headline ELSE Bar


Home == [tty EXCEPT !.y = 0]

ScreenClear ==
    \/ /\ job.pc = "clear"
       /\ IF job.k > ROWS * COLS THEN tty' = tty /\ job' = [job EXCEPT !.pc = "redraw", !.k = 1]
          ELSE tty' = [tty EXCEPT !.buf[Place(job.k)] = Blank] /\ job' = [job EXCEPT !.k = @ + 1]
    \/ /\ job.pc = "redraw"
       /\ IF job.k > ROWS * COLS THEN tty' = tty /\ job' = [job EXCEPT !.pc = "home", !.k = 1]
          ELSE tty' = DrawChar(tty, Place(job.k), tty.buf[Place(job.k)]) /\ job' = [job EXCEPT !.k = @ + 1]
    \/ Goes("home", "top", [tty EXCEPT !.x = 0])
    \/ Goes("top", "center", Home)

PrintCenter ==
    \/ /\ job.pc = "center"
       /\ IF job.k <= COLS THEN tty' = DrawChar(tty, <<tty.y, job.k - 1>>, Bar) /\ job' = [job EXCEPT !.k = @ + 1]
          ELSE tty' = DrawChar(tty, TitleAt, Headline) /\ job' = [job EXCEPT !.pc = "under"]
       /\ UNCHANGED page
    \/ /\ Goes("under", "idle", Feed(tty))
       /\ page' = [lines |-> <<[k \in 1..COLS |-> Barred(k - 1)], <<>>>>, top |-> 0, tail |-> 0]

-----------------------------------------------------------------------------
(* The command and sconf. *)
Begin ==
    /\ ~Printing /\ entry.running /\ prints < MaxPrints /\ prints' = prints + 1
    /\ \/ \E c \in {Output, Newline} : job' = [pc |-> "test", ch |-> c, k |-> 1]
       \/ job' = [pc |-> "clear", ch |-> Blank, k |-> 1]
    /\ UNCHANGED <<tty, entry, page, torn, strokes, ticks>>

Sconf ==
    /\ ~Printing
    /\ \/ entry.running /\ entry' = [entry EXCEPT !.running = FALSE]
       \/ ~entry.running /\ entry.ready /\ entry' = [input |-> <<>>, ready |-> FALSE, running |-> TRUE]
    /\ UNCHANGED <<tty, job, page, torn, prints, strokes, ticks>>

-----------------------------------------------------------------------------
(* The interrupts and when they damage the text. *)

(* The cell of a blink is one the command has just filled, is about to leave *)
(* or will not draw again, or there is none as the line is full; or the      *)
(* command is about to scrub a cursor the blink makes it forget.             *)
BlinkTears ==
    \/ tty.x = COLS
    \/ job.pc \in {"feed", "advance", "home", "top", "under"}
    \/ job.pc \in {"check", "scrub"} /\ tty.y = ROWS /\ tty.drawn \in Cell
    \/ job.pc \in {"redraw", "center"} /\ \E k \in 1..job.k - 1 : Place(k) = Here(tty)

Blink ==
    /\ ticks < MaxTicks /\ ticks' = ticks + 1
    /\ tty' = BlinkCursor(tty)
    /\ torn' = (torn \/ BlinkTears)
    /\ UNCHANGED <<job, entry, page, prints, strokes>>

(* A key comes between a test of the cursor's place and its use, or while    *)
(* the screen is being cleared.                                              *)
KeyTears ==
    \/ job.pc \in {"feed", "scrub", "scroll buffer", "scroll", "bottom", "draw", "advance"}
    \/ job.pc = "return" /\ job.ch # Newline
    \/ job.pc = "check" /\ ScrubsErased
    \/ job.pc \in {"redraw", "home", "top", "center", "under"}
    \/ job.pc = "clear" /\ job.k > 1

(* The command has fed a line for a letter it has not stored yet, or has not *)
(* scrolled for it.                                                          *)
HasFed ==
    /\ job.pc \in {"check", "store"}
    /\ tty.y = ROWS \/ (tty.x = 0 /\ Len(LastLine(page)) = COLS)

EraseTears == page.tail = 0 \/ tty.x = COLS \/ HasFed
FeedTears == tty.x = COLS \/ HasFed
FillsLine == job.pc \in {"check", "store"} /\ job.ch # Newline /\ tty'.x = COLS

(* A letter that does not fit in input_buffer is dropped. *)
EchoLetter ==
    /\ Len(entry.input) < MaxInput
    /\ entry' = [entry EXCEPT !.input = Append(@, Typed)]
    /\ tty' = PrintChar(tty, Typed)
    /\ page' = Write(page, Typed)
    /\ torn' = (torn \/ KeyTears \/ FillsLine)

(* It starts a colour for print, which shows nothing; a later BACKSPACE      *)
(* erases the letter before it.                                              *)
EchoBackslash ==
    /\ Len(entry.input) < MaxInput
    /\ entry' = [entry EXCEPT !.input = Append(@, Colour)] /\ page' = [page EXCEPT !.tail = 0]
    /\ UNCHANGED <<tty, torn>>

Rubbed == SubSeq(entry.input, 1, Len(entry.input) - 1)
Erased == IF page.tail > 0 THEN Erase(page) ELSE page

EchoBackspace ==
    /\ entry.input # <<>> /\ entry' = [entry EXCEPT !.input = Rubbed]
    /\ tty' = DoBackspace(tty)
    /\ page' = Erased
    /\ torn' = (torn \/ KeyTears \/ EraseTears)

(* TAB replaces a word of one letter by one of two, or what fits of it, or    *)
(* lists the matches and shows the prompt and the line again.                *)
Typing(n) == [k \in 1..n |-> Typed]
Completed == Typing(IF Len(entry.input) < MaxInput THEN 2 ELSE 1)

EchoCompletion ==
    /\ entry.input # <<>> /\ entry' = [entry EXCEPT !.input = Rubbed \o Completed]
    /\ LET shown == Echo(DoBackspace(tty), Erased, Completed)
       IN  tty' = shown.tty /\ page' = shown.page
    /\ torn' = (torn \/ KeyTears \/ EraseTears \/ FillsLine)

Listing == <<Newline, Output, Newline, Output>>
Shown(s) == Typing(Cardinality({k \in DOMAIN s : s[k] = Typed}))
LastRun(s) == Cardinality({k \in DOMAIN s : \A l \in k..Len(s) : s[l] = Typed})

EchoList ==
    /\ entry.input # <<>> /\ UNCHANGED entry
    /\ LET shown == Echo(DoClearCursor(tty), page, Listing \o Shown(entry.input))
       IN  tty' = shown.tty /\ page' = [shown.page EXCEPT !.tail = LastRun(entry.input)]
    /\ torn' = (torn \/ KeyTears \/ FeedTears \/ FillsLine)

EchoEnter ==
    /\ entry' = [entry EXCEPT !.ready = TRUE]
    /\ tty' = PrintChar(DoClearCursor(tty), Newline)
    /\ page' = Write(page, Newline)
    /\ torn' = (torn \/ KeyTears \/ FeedTears)

Key ==
    /\ strokes < MaxStrokes /\ strokes' = strokes + 1
    /\ EchoLetter \/ EchoBackslash \/ EchoBackspace \/ EchoCompletion \/ EchoList \/ EchoEnter
    /\ UNCHANGED <<job, prints, ticks>>

-----------------------------------------------------------------------------
ConsoleInit ==
    /\ tty = [screen |-> [c \in Cell |-> Blank], buf |-> [c \in Cell |-> Blank],
              x |-> 0, y |-> 0, blink |-> FALSE, drawn |-> None]
    /\ job = [pc |-> "idle", ch |-> Blank, k |-> 1]
    /\ entry = [input |-> <<>>, ready |-> FALSE, running |-> TRUE]
    /\ page = [lines |-> << <<>> >>, top |-> 0, tail |-> 0]
    /\ torn = FALSE /\ prints = 0 /\ strokes = 0 /\ ticks = 0

ConsoleNext ==
    \/ PrintStep /\ UNCHANGED <<entry, prints, strokes, ticks>>
    \/ ScreenClear /\ UNCHANGED <<page, entry, torn, prints, strokes, ticks>>
    \/ PrintCenter /\ UNCHANGED <<entry, torn, prints, strokes, ticks>>
    \/ Begin \/ Sconf \/ Blink \/ Key

ConsoleSpec == ConsoleInit /\ [][ConsoleNext]_consoleVars

-----------------------------------------------------------------------------
(* The letter of the page at a cell of the screen, whose first line is the   *)
(* one after `above`.                                                        *)
TextAt(text, above, c) ==
    LET n == above + c[1] + 1
    IN  IF n <= Len(text) /\ c[2] < Len(text[n]) THEN text[n][c[2] + 1] ELSE Blank

(* Between two characters of the command the screen shows the end of what     *)
(* has been written and not erased, and the cursor, or nothing, after it: no  *)
(* stray cursor, no letter lost to a blink, an echo, a scroll or a clear      *)
(* (print_char, do_backspace, timer_vga_callback), up to the windows above.   *)
TextIsShown ==
    ~Printing /\ ~torn =>
      /\ Here(tty) = <<Len(page.lines) - page.top - 1, Len(LastLine(page))>>
      /\ \A c \in Cell : \/ tty.screen[c] = TextAt(page.lines, page.top, c)
                         \/ c = Here(tty) /\ tty.screen[c] = Cursor

(* print_char stores within screen_buf: nothing an interrupt does between    *)
(* its tests and the store moves the cursor out of it, but the echo of a     *)
(* letter in the last column.                                                *)
StoresInside == job.pc = "store" /\ ~torn => Here(tty) \in Cell
=============================================================================
