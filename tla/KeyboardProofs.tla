--------------------------- MODULE KeyboardProofs ---------------------------
(***************************************************************************)
(* Proofs about the keyboard's two sides.  Module Keyboard, for every       *)
(* alphabet, every size of the buffer, every set of names and any number of *)
(* keys: what sconf hands over however the handler comes between its        *)
(* statements.  Module Console, for every size of the screen and any number *)
(* of characters, keys and blinks: what the screen shows of it.             *)
(***************************************************************************)
EXTENDS Keyboard, Console, SequenceTheorems, FiniteSetTheorems, WellFoundedInduction, TLAPS

-----------------------------------------------------------------------------
(* Sequences of letters. *)

LEMMA PrefixSeq ==
    ASSUME NEW t \in Seq(Letters), NEW m \in 0..Len(t)
    PROVE  SubSeq(t, 1, m) \in Seq(Letters)
  OBVIOUS

LEMMA PrefixLen ==
    ASSUME NEW t \in Seq(Letters), NEW m \in 0..Len(t)
    PROVE  Len(SubSeq(t, 1, m)) = m
  OBVIOUS

LEMMA FrontType ==
    ASSUME NEW t \in Seq(Letters), t # <<>>
    PROVE  /\ Front(t) \in Seq(Letters)
           /\ Len(t) \in Nat \ {0} /\ Len(Front(t)) = Len(t) - 1
  <1>1. Len(t) \in Nat \ {0}
    BY EmptySeq
  <1>2. Len(t) - 1 \in 0..Len(t)
    BY <1>1
  <1> QED
    BY <1>1, <1>2, PrefixSeq, PrefixLen DEF Front

LEMMA LessIsWellFounded == \A x, y \in Nat : x < y => <<x, y>> \in OpToRel(<, Nat)
  BY DEF OpToRel

LEMMA MaxInSet ==
    ASSUME NEW n \in Nat, NEW S \in SUBSET (0..n), S # {}
    PROVE  Max(S) \in S
  <1> DEFINE Gap == {g \in 0..n : n - g \in S}
  <1>1. PICK x \in S : x \in 0..n
    OBVIOUS
  <1>2. n - x \in 0..n /\ n - (n - x) = x
    BY <1>1
  <1>3. Gap \subseteq Nat /\ n - x \in Gap
    BY <1>1, <1>2
  <1>4. PICK g \in Gap : \A h \in Gap : ~(<<h, g>> \in OpToRel(<, Nat))
    BY <1>3, NatLessThanWellFounded, WFMin
  <1>5. \A h \in Gap : ~(h < g)
    BY <1>3, <1>4, LessIsWellFounded
  <1>6. \A y \in S : y <= n - g
    <2> SUFFICES ASSUME NEW y \in S PROVE y <= n - g
      OBVIOUS
    <2>1. y \in 0..n /\ n - y \in 0..n /\ n - (n - y) = y
      OBVIOUS
    <2>2. ~(n - y < g)
      BY <1>5, <2>1
    <2> QED
      BY <2>1, <2>2
  <1> QED
    BY <1>4, <1>6 DEF Max

LEMMA MinOfTwo ==
    ASSUME NEW a \in Nat, NEW b \in Nat
    PROVE  Min({a, b}) \in {a, b} /\ Min({a, b}) <= a /\ Min({a, b}) <= b
  BY DEF Min
-----------------------------------------------------------------------------
(* The buffer. *)

(* The letters below input_size are letters, and the last byte ends the rest. *)
BufferInv ==
    /\ \A n \in 0..(input_size - 1) : input_buffer[n] \in Letters
    /\ input_buffer[Cap - 1] = Nul

LEMMA TextType ==
    ASSUME TypeOK, BufferInv
    PROVE  Text \in Seq(Letters) /\ Len(Text) = input_size
  <1>1. Text \in [1..input_size -> Letters] /\ input_size \in Nat
    BY DEF TypeOK, BufferInv, Text
  <1> QED
    BY <1>1

LEMMA LetterType ==
    ASSUME NEW t \in Seq(Letters), NEW c \in Letters
    PROVE  /\ LetterText(t, c) \in Seq(Letters)
           /\ Len(t) <= Cap - 1 => Len(LetterText(t, c)) <= Cap - 1
  BY KeyboardAssumption DEF LetterText

LEMMA BackspaceType ==
    ASSUME NEW t \in Seq(Letters)
    PROVE  /\ BackspaceText(t) \in Seq(Letters)
           /\ Len(t) <= Cap - 1 => Len(BackspaceText(t)) <= Cap - 1
  <1>1. CASE t = <<>>
    BY <1>1 DEF BackspaceText
  <1>2. CASE t # <<>>
    BY <1>2, FrontType, KeyboardAssumption DEF BackspaceText
  <1> QED
    BY <1>1, <1>2

LEMMA WordStartType ==
    ASSUME TypeOK
    PROVE  WordStart \in 0..input_size
  <1> DEFINE S == {0} \cup {n \in 1..input_size : Text[n] = Space}
  <1>1. input_size \in Nat /\ S \in SUBSET (0..input_size) /\ S # {}
    BY DEF TypeOK
  <1> HIDE DEF S
  <1>2. Max(S) \in S
    BY <1>1, MaxInSet
  <1> QED
    BY <1>1, <1>2 DEF WordStart, S

LEMMA CompletionsType ==
    ASSUME NEW first, NEW word, NEW c \in Completions(first, word)
    PROVE  c \in Seq(Letters)
  <1>1. Space \in Letters /\ Slash \in Letters
    BY KeyboardAssumption
  <1>2. \A name \in Commands \cup Files \cup Dirs : name \in Seq(Letters)
    BY KeyboardAssumption
  <1>3. \A name \in Seq(Letters) : /\ name \o <<Space>> \in Seq(Letters)
                                   /\ name \o <<Slash>> \in Seq(Letters)
    BY <1>1
  <1>4. CASE first
    BY <1>2, <1>3, <1>4 DEF Completions
  <1>5. CASE ~first
    BY <1>2, <1>3, <1>5 DEF Completions
  <1> QED
    BY <1>4, <1>5

LEMMA CompleteType ==
    ASSUME TypeOK, BufferInv, NEW c \in Seq(Letters)
    PROVE  Complete(c) \in Seq(Letters) /\ Len(Complete(c)) <= Cap - 1
  <1> DEFINE full == SubSeq(Text, 1, WordStart) \o c
             m == Min({Len(full), Cap - 1})
  <1>1. SubSeq(Text, 1, WordStart) \in Seq(Letters)
    BY TextType, WordStartType, PrefixSeq
  <1>2. full \in Seq(Letters) /\ Len(full) \in Nat /\ Cap - 1 \in Nat
    BY <1>1, KeyboardAssumption
  <1> HIDE DEF full
  <1>3. m \in {Len(full), Cap - 1} /\ m <= Len(full) /\ m <= Cap - 1
    BY <1>2, MinOfTwo
  <1> HIDE DEF m
  <1>4. m \in 0..Len(full)
    BY <1>2, <1>3
  <1>5. SubSeq(full, 1, m) \in Seq(Letters) /\ Len(SubSeq(full, 1, m)) = m
    BY <1>2, <1>4, PrefixSeq, PrefixLen
  <1>6. Complete(c) = SubSeq(full, 1, m)
    BY DEF Complete, full, m
  <1> QED
    BY <1>3, <1>5, <1>6

LEMMA TabType ==
    ASSUME TypeOK, BufferInv
    PROVE  TabText \in Seq(Letters) /\ Len(TabText) <= Cap - 1
  <1> DEFINE found == Completions(WordStart = 0, Pattern)
  <1>1. CASE input_size > 0 /\ Cardinality(found) = 1
    <2>1. found # {}
      BY <1>1, FS_EmptySet
    <2>2. (CHOOSE c \in found : TRUE) \in found
      BY <2>1
    <2>3. (CHOOSE c \in found : TRUE) \in Seq(Letters)
      BY <2>2, CompletionsType
    <2> QED
      BY <1>1, <2>3, CompleteType DEF TabText
  <1>2. CASE ~(input_size > 0 /\ Cardinality(found) = 1)
    BY <1>2, TextType DEF TabText, TypeOK
  <1> QED
    BY <1>1, <1>2

-----------------------------------------------------------------------------
(* The inductive invariant. *)

(* Every line handed over, or about to be, was ended by a key that was hit.   *)
CountInv ==
    /\ keys \in 0..MaxKeys /\ enters <= keys
    /\ lines + (IF Busy THEN 1 ELSE 0) <= enters

(* As long as no key was hit between ENTER and the end of sconf, the buffer   *)
(* holds what was typed; once ENTER was hit, with a terminator behind it; and *)
(* the copy has taken that text up to i.                                     *)
TextInv ==
    ~hurried =>
        /\ pc \notin {"reset", "clear"} => Text = typed
        /\ pc = "clear" => input_size = 0
        /\ Busy /\ pc \in {"spin", "run", "copy"} =>
               /\ entered = typed
               /\ input_buffer[input_size] = Nul
        /\ pc = "copy" =>
               /\ i <= input_size /\ Len(line) = i
               /\ \A n \in 1..i : line[n] = input_buffer[n - 1]
        /\ pc \in {"reset", "clear"} => line = entered

KeyboardInv ==
    /\ TypeOK /\ BufferInv /\ CountInv /\ TextInv
    /\ pc = "copy" => i <= Cap - 1

LEMMA KeyboardInit == Init => KeyboardInv
  <1> SUFFICES ASSUME Init PROVE KeyboardInv
    OBVIOUS
  <1> USE KeyboardAssumption DEF Init
  <1>1. TypeOK
    <2>1. <<>> \in Seq(Letters)
      OBVIOUS
    <2>2. input_buffer \in [0..(Cap - 1) -> Letters \cup {Nul}]
      OBVIOUS
    <2>3. input_size \in 0..(Cap - 1) /\ i \in 0..Cap
      OBVIOUS
    <2>4. enters \in 0..MaxKeys /\ lines \in Nat
      OBVIOUS
    <2>5. /\ {ready, extended, hurried} \subseteq BOOLEAN
          /\ pc \in {"spin", "copy", "reset", "clear", "run"}
      OBVIOUS
    <2> QED
      BY <2>1, <2>2, <2>3, <2>4, <2>5 DEF TypeOK
  <1>2. BufferInv
    BY DEF BufferInv
  <1>3. CountInv
    BY DEF CountInv, Busy
  <1>4. TextInv
    BY DEF TextInv, Text, Busy
  <1> QED
    BY <1>1, <1>2, <1>3, <1>4 DEF KeyboardInv

(* A text that fits, put into the buffer, is the text in the buffer.          *)
LEMMA PutText ==
    ASSUME TypeOK, BufferInv, NEW t \in Seq(Letters), Len(t) <= Cap - 1, Put(t)
    PROVE  /\ input_buffer' \in [0..(Cap - 1) -> Letters \cup {Nul}]
           /\ input_size' \in 0..(Cap - 1)
           /\ BufferInv' /\ Text' = t
  <1> USE KeyboardAssumption DEF Put
  <1>1. \A n \in 0..(Len(t) - 1) : t[n + 1] \in Letters
    BY ElementOfSeq
  <1>2. \A n \in 0..(Cap - 1) : n < Len(t) => input_buffer'[n] = t[n + 1]
    OBVIOUS
  <1>3. input_buffer' \in [0..(Cap - 1) -> Letters \cup {Nul}]
    BY <1>1 DEF TypeOK
  <1>4. BufferInv'
    BY <1>1, <1>2 DEF BufferInv
  <1>5. Text' = t
    <2>1. \A n \in 1..Len(t) : input_buffer'[n - 1] = t[n]
      BY <1>2
    <2>2. Text' = [n \in 1..Len(t) |-> t[n]]
      BY <2>1 DEF Text
    <2> QED
      BY <2>2
  <1> QED
    BY <1>3, <1>4, <1>5

(* A key that edits: what the handler makes of the buffer and what the user   *)
(* has typed stay the same, unless a line is under way.                      *)
LEMMA EditStep ==
    ASSUME KeyboardInv,
           NEW old \in Seq(Letters), NEW new \in Seq(Letters), Len(new) <= Cap - 1,
           ~hurried /\ pc \notin {"reset", "clear"} => old = new,
           Edit(old, new)
    PROVE  KeyboardInv'
  <1> USE DEF KeyboardInv
  <1>1. Put(new) /\ TypeOK /\ BufferInv
    BY DEF Edit
  <1>2. /\ input_buffer' \in [0..(Cap - 1) -> Letters \cup {Nul}]
        /\ input_size' \in 0..(Cap - 1) /\ BufferInv' /\ Text' = new
    BY <1>1, PutText
  <1>3. /\ UNCHANGED <<pc, i, line, ready, extended, entered, enters, lines>>
        /\ keys < MaxKeys /\ keys' = keys + 1
        /\ typed' = old /\ hurried' = (hurried \/ Busy)
    BY DEF Edit, Hit, main
  <1>4. TypeOK'
    BY <1>2, <1>3 DEF TypeOK
  <1>5. CountInv'
    BY <1>3, KeyboardAssumption DEF CountInv, TypeOK, Busy
  <1>6. TextInv'
    <2> SUFFICES ASSUME ~hurried' PROVE TextInv'
      BY DEF TextInv
    <2>1. ~hurried /\ ~Busy /\ Busy' = Busy
      BY <1>3 DEF Busy
    <2>2. pc \notin {"copy", "reset", "clear"}
      BY <2>1 DEF Busy
    <2>3. typed' = new
      BY <1>3, <2>1, <2>2
    <2> QED
      BY <1>2, <1>3, <2>1, <2>2, <2>3 DEF TextInv
  <1> QED
    BY <1>2, <1>3, <1>4, <1>5, <1>6

LEMMA LetterStep ==
    ASSUME KeyboardInv, NEW c \in Letters, Letter(c)
    PROVE  KeyboardInv'
  <1>1. Text \in Seq(Letters) /\ Len(Text) <= Cap - 1 /\ typed \in Seq(Letters)
    BY TextType DEF KeyboardInv, TypeOK
  <1>2. /\ LetterText(typed, c) \in Seq(Letters)
        /\ LetterText(Text, c) \in Seq(Letters) /\ Len(LetterText(Text, c)) <= Cap - 1
    BY <1>1, LetterType
  <1>3. ~hurried /\ pc \notin {"reset", "clear"} => typed = Text
    BY DEF KeyboardInv, TextInv
  <1>4. Edit(LetterText(typed, c), LetterText(Text, c))
    BY DEF Letter
  <1> QED
    BY <1>2, <1>3, <1>4, EditStep

LEMMA BackspaceStep ==
    ASSUME KeyboardInv, Backspace
    PROVE  KeyboardInv'
  <1>1. Text \in Seq(Letters) /\ Len(Text) <= Cap - 1 /\ typed \in Seq(Letters)
    BY TextType DEF KeyboardInv, TypeOK
  <1> DEFINE old == IF typed = <<>> THEN typed ELSE Front(typed)
  <1>2. old \in Seq(Letters)
    BY <1>1, FrontType
  <1>3. BackspaceText(Text) \in Seq(Letters) /\ Len(BackspaceText(Text)) <= Cap - 1
    BY <1>1, BackspaceType
  <1>4. ~hurried /\ pc \notin {"reset", "clear"} => old = BackspaceText(Text)
    BY DEF KeyboardInv, TextInv, BackspaceText
  <1>5. Edit(old, BackspaceText(Text))
    BY DEF Backspace
  <1> HIDE DEF old
  <1> QED
    BY <1>2, <1>3, <1>4, <1>5, EditStep

LEMMA TabStep ==
    ASSUME KeyboardInv, Tab
    PROVE  KeyboardInv'
  <1>1. TabText \in Seq(Letters) /\ Len(TabText) <= Cap - 1
    BY TabType DEF KeyboardInv
  <1>2. Edit(TabText, TabText)
    BY DEF Tab
  <1> QED
    BY <1>1, <1>2, EditStep

(* ENTER puts the terminator behind the text, and nothing into it.            *)
LEMMA EnterStep ==
    ASSUME KeyboardInv, Enter
    PROVE  KeyboardInv'
  <1> USE KeyboardAssumption DEF KeyboardInv
  <1>1. /\ UNCHANGED <<pc, i, line, input_size, extended, typed, lines>>
        /\ keys < MaxKeys /\ keys' = keys + 1 /\ enters' = enters + 1
        /\ ready' = TRUE /\ hurried' = (hurried \/ Busy)
        /\ entered' = IF Busy THEN entered ELSE typed
        /\ input_buffer' = [input_buffer EXCEPT ![input_size] = Nul]
    BY DEF Enter, Hit, main
  <1>2. /\ input_size \in 0..(Cap - 1)
        /\ \A n \in 0..(Cap - 1) :
               input_buffer'[n] = IF n = input_size THEN Nul ELSE input_buffer[n]
    BY <1>1 DEF TypeOK
  <1>3. TypeOK'
    BY <1>1 DEF TypeOK, CountInv
  <1>4. BufferInv'
    BY <1>1, <1>2 DEF BufferInv
  <1>5. CountInv'
    BY <1>1 DEF CountInv, TypeOK, Busy
  <1>6. Text' = Text
    BY <1>1, <1>2 DEF Text
  <1>7. TextInv'
    <2> SUFFICES ASSUME ~hurried' PROVE TextInv'
      BY DEF TextInv
    <2>1. ~hurried /\ ~Busy
      BY <1>1
    <2>2. pc \notin {"copy", "reset", "clear"}
      BY <2>1 DEF Busy
    <2>3. entered' = typed' /\ input_buffer'[input_size'] = Nul
      BY <1>1, <1>2, <2>1
    <2> QED
      BY <1>1, <1>6, <2>1, <2>2, <2>3 DEF TextInv
  <1> QED
    BY <1>1, <1>3, <1>4, <1>5, <1>7

LEMMA PrefixStep ==
    ASSUME KeyboardInv, Prefix \/ Skip
    PROVE  KeyboardInv'
  <1> USE DEF KeyboardInv
  <1>1. /\ UNCHANGED <<main, input_buffer, input_size, ready, hist>>
        /\ keys < MaxKeys /\ keys' = keys + 1 /\ extended' \in BOOLEAN
    BY DEF Prefix, Skip, Hit, hist
  <1>2. TypeOK'
    BY <1>1 DEF TypeOK, main, hist
  <1>3. BufferInv'
    BY <1>1 DEF BufferInv
  <1>4. CountInv'
    <2>1. /\ UNCHANGED <<enters, lines>> /\ Busy' = Busy
          /\ enters \in Nat /\ MaxKeys \in Nat
      BY <1>1, KeyboardAssumption DEF Busy, main, hist, TypeOK
    <2> QED
      BY <1>1, <2>1 DEF CountInv
  <1>5. TextInv'
    BY <1>1 DEF TextInv, Text, Busy, main, hist
  <1> QED
    BY <1>1, <1>2, <1>3, <1>4, <1>5 DEF main

LEMMA SpinStep ==
    ASSUME KeyboardInv, Spin
    PROVE  KeyboardInv'
  <1> USE KeyboardAssumption DEF KeyboardInv
  <1>1. /\ UNCHANGED <<input_buffer, input_size, ready, extended, keys>>
        /\ UNCHANGED <<typed, entered, hurried, enters, lines>>
        /\ pc = "spin" /\ ready /\ pc' = "copy" /\ i' = 0 /\ line' = <<>>
    BY DEF Spin, kbd, hist
  <1>2. TypeOK'
    <2>1. <<>> \in Seq(Letters)
      OBVIOUS
    <2>2. 0 \in 0..Cap
      OBVIOUS
    <2> QED
      BY <1>1, <2>1, <2>2 DEF TypeOK
  <1>3. BufferInv'
    BY <1>1 DEF BufferInv
  <1>4. CountInv'
    BY <1>1 DEF CountInv, Busy
  <1>5. TextInv'
    <2>1. Text' = Text /\ Busy
      BY <1>1 DEF Text, Busy
    <2>2. 0 <= input_size /\ Len(<<>>) = 0
      BY DEF TypeOK
    <2> QED
      BY <1>1, <2>1, <2>2 DEF TextInv
  <1> QED
    BY <1>1, <1>2, <1>3, <1>4, <1>5

(* The copy stops at the terminator behind the text, with all of the text, or *)
(* takes one more letter of it.                                              *)
LEMMA CopyStep ==
    ASSUME KeyboardInv, Copy
    PROVE  KeyboardInv'
  <1> USE KeyboardAssumption DEF KeyboardInv
  <1>1. /\ UNCHANGED <<input_buffer, input_size, ready, extended, keys>>
        /\ UNCHANGED <<typed, entered, hurried, enters, lines>>
        /\ pc = "copy" /\ i \in 0..(Cap - 1)
        /\ input_size \in 0..(Cap - 1) /\ line \in Seq(Letters)
    BY DEF Copy, kbd, hist, TypeOK
  <1>2. BufferInv' /\ Text' = Text
    BY <1>1 DEF BufferInv, Text
  <1>3. CASE input_buffer[i] = Nul
    <2>1. pc' = "reset" /\ UNCHANGED <<i, line>>
      BY <1>3 DEF Copy
    <2>2. TypeOK'
      BY <1>1, <2>1 DEF TypeOK
    <2>3. CountInv'
      BY <1>1, <2>1 DEF CountInv, Busy
    <2>4. ~hurried => line = entered
      <3> SUFFICES ASSUME ~hurried PROVE line = Text
        BY <1>1 DEF TextInv, Busy
      <3>1. /\ i <= input_size /\ Len(line) = i
            /\ \A n \in 1..i : line[n] = input_buffer[n - 1]
        BY <1>1 DEF TextInv
      <3>2. i = input_size
        <4> SUFFICES ASSUME i < input_size PROVE FALSE
          BY <1>1, <3>1
        <4>1. input_buffer[i] \in Letters
          BY <1>1 DEF BufferInv
        <4> QED
          BY <1>3, <4>1
      <3>3. line = [n \in 1..i |-> line[n]]
        BY <1>1, <3>1
      <3>4. Text = [n \in 1..i |-> input_buffer[n - 1]]
        BY <3>2 DEF Text
      <3> QED
        BY <3>1, <3>3, <3>4
    <2>5. TextInv'
      BY <1>1, <1>2, <2>1, <2>4 DEF TextInv
    <2> QED
      BY <1>2, <2>1, <2>2, <2>3, <2>5
  <1>4. CASE input_buffer[i] # Nul
    <2>1. /\ pc' = pc /\ i' = i + 1 /\ line' = Append(line, input_buffer[i])
      BY <1>4 DEF Copy
    <2>2. input_buffer[i] \in Letters
      BY <1>1, <1>4 DEF TypeOK
    <2>3. i < Cap - 1
      BY <1>1, <1>4 DEF BufferInv
    <2>4. /\ line' \in Seq(Letters) /\ Len(line') = Len(line) + 1
          /\ \A n \in 1..Len(line) : line'[n] = line[n]
          /\ line'[Len(line) + 1] = input_buffer[i]
      BY <1>1, <2>1, <2>2
    <2>5. TypeOK'
      BY <1>1, <2>1, <2>3, <2>4 DEF TypeOK
    <2>6. CountInv'
      BY <1>1, <2>1 DEF CountInv, Busy
    <2>7. TextInv'
      <3> SUFFICES ASSUME ~hurried PROVE TextInv'
        BY <1>1 DEF TextInv
      <3>1. /\ i <= input_size /\ Len(line) = i
            /\ \A n \in 1..i : line[n] = input_buffer[n - 1]
            /\ entered = typed /\ input_buffer[input_size] = Nul /\ Text = typed
        BY <1>1 DEF TextInv, Busy
      <3>2. i' <= input_size
        BY <1>1, <1>4, <2>1, <3>1
      <3>3. Len(line') = i' /\ \A n \in 1..i' : line'[n] = input_buffer[n - 1]
        BY <1>1, <2>1, <2>4, <3>1
      <3> QED
        BY <1>1, <1>2, <2>1, <3>1, <3>2, <3>3 DEF TextInv
    <2> QED
      BY <1>1, <1>2, <2>1, <2>3, <2>5, <2>6, <2>7
  <1> QED
    BY <1>3, <1>4

LEMMA ResetStep ==
    ASSUME KeyboardInv, Reset
    PROVE  KeyboardInv'
  <1> USE KeyboardAssumption DEF KeyboardInv
  <1>1. /\ UNCHANGED <<input_buffer, ready, extended, i, line, keys>>
        /\ UNCHANGED <<typed, entered, hurried, enters, lines>>
        /\ pc = "reset" /\ pc' = "clear" /\ input_size' = 0
    BY DEF Reset, hist
  <1>2. TypeOK'
    BY <1>1 DEF TypeOK
  <1>3. BufferInv'
    BY <1>1 DEF BufferInv
  <1>4. CountInv'
    BY <1>1 DEF CountInv, Busy
  <1>5. TextInv'
    BY <1>1 DEF TextInv
  <1> QED
    BY <1>1, <1>2, <1>3, <1>4, <1>5

(* When sconf returns, nothing of the line is left in the buffer.             *)
LEMMA ClearStep ==
    ASSUME KeyboardInv, Clear
    PROVE  KeyboardInv'
  <1> USE KeyboardAssumption DEF KeyboardInv
  <1>1. /\ UNCHANGED <<input_buffer, input_size, extended, i, line, keys, entered, enters>>
        /\ pc = "clear" /\ pc' = "run" /\ ready' = FALSE /\ hurried' = FALSE
        /\ typed' = (IF hurried THEN Text ELSE <<>>) /\ lines' = lines + 1
    BY DEF Clear, Returned
  <1>2. Text \in Seq(Letters) /\ <<>> \in Seq(Letters)
    BY TextType
  <1>3. TypeOK'
    <2>1. typed' \in Seq(Letters) /\ lines' \in Nat
      BY <1>1, <1>2 DEF TypeOK
    <2>2. {ready', extended', hurried'} \subseteq BOOLEAN
      BY <1>1 DEF TypeOK
    <2> QED
      BY <1>1, <2>1, <2>2 DEF TypeOK
  <1>4. BufferInv'
    BY <1>1 DEF BufferInv
  <1>5. CountInv'
    BY <1>1 DEF CountInv, TypeOK, Busy
  <1>6. Text' = typed'
    <2>1. Text' = Text
      BY <1>1 DEF Text
    <2>2. ~hurried => Text = <<>>
      BY <1>1 DEF TextInv, Text
    <2> QED
      BY <1>1, <2>1, <2>2
  <1>7. TextInv'
    BY <1>1, <1>6 DEF TextInv, Busy
  <1> QED
    BY <1>1, <1>3, <1>4, <1>5, <1>7

LEMMA RunStep ==
    ASSUME KeyboardInv, Run
    PROVE  KeyboardInv'
  <1> USE KeyboardAssumption DEF KeyboardInv
  <1>1. /\ UNCHANGED <<input_buffer, input_size, ready, extended, keys>>
        /\ UNCHANGED <<typed, entered, hurried, enters, lines>>
        /\ pc = "run" /\ pc' = "spin" /\ i' = 0 /\ line' = <<>>
    BY DEF Run, kbd, hist
  <1>2. TypeOK'
    <2>1. <<>> \in Seq(Letters)
      OBVIOUS
    <2>2. 0 \in 0..Cap
      OBVIOUS
    <2> QED
      BY <1>1, <2>1, <2>2 DEF TypeOK
  <1>3. BufferInv'
    BY <1>1 DEF BufferInv
  <1>4. CountInv'
    BY <1>1 DEF CountInv, Busy
  <1>5. TextInv'
    BY <1>1 DEF TextInv, Text, Busy
  <1> QED
    BY <1>1, <1>2, <1>3, <1>4, <1>5

LEMMA KeyboardNext == KeyboardInv /\ [Next]_vars => KeyboardInv'
  <1> SUFFICES ASSUME KeyboardInv, [Next]_vars PROVE KeyboardInv'
    OBVIOUS
  <1>1. CASE Prefix \/ Skip
    BY <1>1, PrefixStep
  <1>2. CASE \E c \in Letters : Letter(c)
    BY <1>2, LetterStep
  <1>3. CASE Backspace
    BY <1>3, BackspaceStep
  <1>4. CASE Tab
    BY <1>4, TabStep
  <1>5. CASE Enter
    BY <1>5, EnterStep
  <1>6. CASE Spin
    BY <1>6, SpinStep
  <1>7. CASE Copy
    BY <1>7, CopyStep
  <1>8. CASE Reset
    BY <1>8, ResetStep
  <1>9. CASE Clear
    BY <1>9, ClearStep
  <1>10. CASE Run
    BY <1>10, RunStep
  <1>11. CASE UNCHANGED vars
    <2>1. /\ UNCHANGED <<input_buffer, input_size, ready, extended, pc, i, line, keys>>
          /\ UNCHANGED <<typed, entered, hurried, enters, lines>>
      BY <1>11 DEF vars, kbd, main, hist
    <2> QED
      BY <2>1 DEF KeyboardInv, TypeOK, BufferInv, CountInv, TextInv, Text, Busy
  <1> QED
    BY <1>1, <1>2, <1>3, <1>4, <1>5, <1>6, <1>7, <1>8, <1>9, <1>10, <1>11
       DEF Next, Interrupt, Main

-----------------------------------------------------------------------------
(* The results. *)

(* The invariant holds in every state the program reaches.                    *)
THEOREM KeyboardInductive == Spec => []KeyboardInv
  BY KeyboardInit, KeyboardNext, PTL DEF Spec

(* The handler's and sconf's variables have their types: input_size leaves    *)
(* room for a terminator, whatever is typed and completed, and i stays        *)
(* inside the buffer.                                                        *)
THEOREM KeyboardTypeCorrect == Spec => []TypeOK
  <1>1. KeyboardInv => TypeOK
    BY DEF KeyboardInv
  <1> QED
    BY <1>1, KeyboardInductive, PTL

(* Wherever the handler comes between the statements of sconf, there is a     *)
(* terminator ahead of the copy.                                             *)
THEOREM KeyboardCopyStops == Spec => []CopyStops
  <1>1. KeyboardInv => CopyStops
    <2> SUFFICES ASSUME KeyboardInv, pc = "copy"
                 PROVE  \E n \in i..(Cap - 1) : input_buffer[n] = Nul
      BY DEF CopyStops
    <2>1. /\ Cap - 1 \in i..(Cap - 1) /\ input_buffer[Cap - 1] = Nul
      BY KeyboardAssumption DEF KeyboardInv, TypeOK, BufferInv
    <2> QED
      BY <2>1
  <1> QED
    BY <1>1, KeyboardInductive, PTL

(* No line reaches a command that was not ended with ENTER.                   *)
THEOREM KeyboardNoPhantomLine == Spec => []NoPhantomLine
  <1>1. KeyboardInv => NoPhantomLine
    BY DEF KeyboardInv, CountInv, TypeOK, NoPhantomLine
  <1> QED
    BY <1>1, KeyboardInductive, PTL

(* The handler works on what was typed since the last line.                   *)
THEOREM KeyboardBufferIsTyped == Spec => []BufferIsTyped
  <1>1. KeyboardInv => BufferIsTyped
    BY DEF KeyboardInv, TextInv, BufferIsTyped
  <1> QED
    BY <1>1, KeyboardInductive, PTL

(* A command gets the line as it stood when ENTER was hit.                    *)
THEOREM KeyboardLineIsTyped == Spec => []LineIsTyped
  <1>1. KeyboardInv => LineIsTyped
    BY DEF KeyboardInv, TextInv, LineIsTyped
  <1> QED
    BY <1>1, KeyboardInductive, PTL

-----------------------------------------------------------------------------
(* The console: what its states look like. *)

(* The letters of the page, what a cell shows, and where a cursor is not in a *)
(* cell of the screen.                                                       *)
Ink == {Output, Typed, Bar, Headline}
Glyph == Ink \cup {Blank, Cursor}
Nowhere == {None, <<ROWS, 0>>}
Terminal ==
    [screen : [Cell -> Glyph], buf : [Cell -> Glyph], x : 0..COLS, y : 0..ROWS,
     blink : BOOLEAN, drawn : Cell \cup Nowhere]
Paper == [lines : Seq(Seq(Ink)), top : Nat, tail : Nat]

(* A page whose last line is on the screen. *)
PageOK(p) ==
    /\ p \in Paper
    /\ p.top < Len(p.lines) /\ Len(p.lines) <= p.top + ROWS
    /\ \A n \in 1..Len(p.lines) : Len(p.lines[n]) <= COLS

(* The cells of n lines. *)
Cells(n) == n * COLS

(* The letters typed last are on the screen, in lines without a gap. *)
TailOK(p) ==
    LET n == Len(p.lines)
        e == Len(p.lines[n])
    IN  /\ p.tail <= Cells(n - p.top - 1) + e
        /\ \A j \in 1..n-1 : e + Cells(j - 1) < p.tail => Len(p.lines[n - j]) = COLS

(* The screen shows the page, but for cursors in a set of cells. *)
Lit(t, text, above, S) ==
    \A c \in Cell : \/ t.screen[c] = TextAt(text, above, c)
                    \/ c \in S /\ t.screen[c] = Cursor /\ TextAt(text, above, c) = Blank

(* The driver knows of no cursor but the one that is shown at S. *)
Known(t, S) == t.drawn \in Nowhere \/ (t.drawn \in S \cap Cell /\ t.screen[t.drawn] = Cursor)

(* Between two characters: the cursor is behind the text, and nothing but it   *)
(* and the text is shown.                                                    *)
AtEnd(t, p) == t.y = Len(p.lines) - p.top - 1 /\ t.x = Len(LastLine(p))

Good(t, p) == AtEnd(t, p) /\ Lit(t, p.lines, p.top, {Here(t)}) /\ Known(t, {Here(t)})

(* The cursor is back in the first column. *)
FedReturn(t, p, newline) ==
    /\ t.x = 0 /\ t.y = Len(p.lines) - p.top - 1
    /\ Lit(t, p.lines, p.top, {t.drawn}) /\ Known(t, {t.drawn})
    /\ t.drawn \in Nowhere \/ (newline /\ t.y = ROWS - 1)
    /\ newline \/ Len(LastLine(p)) = COLS

(* The line is full and the next one has begun, on the screen and not on the page. *)
Fed(t, p) ==
    LET n == Len(p.lines)
    IN  /\ t.x = 0 /\ Len(LastLine(p)) = COLS
        /\ t.y = n - p.top \/ (t.y = ROWS - 1 /\ n - p.top = ROWS)
        /\ Lit(t, p.lines, n - t.y, {Here(t)}) /\ Known(t, {Here(t)})

(* A line has begun below the screen. *)
Fallen(t, p) ==
    /\ t.x = 0 /\ t.y = ROWS /\ p.top > 0 /\ Len(p.lines) = p.top + ROWS /\ LastLine(p) = <<>>
    /\ Lit(t, p.lines, p.top - 1, {t.drawn}) /\ Known(t, {t.drawn})

(* A line has begun below the screen, and the scroll is as far as `above`.      *)
Scrolled(t, p, newline, above) ==
    /\ t.x = 0 /\ t.y = ROWS /\ Len(p.lines) = p.top + ROWS
    /\ Len(LastLine(p)) = IF newline THEN 0 ELSE COLS
    /\ Lit(t, p.lines, IF newline THEN above - 1 ELSE above, {}) /\ t.drawn \in Nowhere

(* The last letter of the page is about to be drawn, and has been drawn. *)
AtLast(t, p) == t.y = Len(p.lines) - p.top - 1 /\ t.x = Len(LastLine(p)) - 1

Drawing(t, p, c) ==
    /\ AtLast(t, p) /\ LastLine(p)[Len(LastLine(p))] = c
    /\ \A a \in Cell : a = Here(t) \/ t.screen[a] = TextAt(p.lines, p.top, a)
    /\ t.drawn \in Nowhere \cup {Here(t)}

Drawn(t, p) == AtLast(t, p) /\ Lit(t, p.lines, p.top, {}) /\ t.drawn \in Nowhere

(* clear has emptied k - 1 cells; drawn k - 1 of them again, all of them; drawn *)
(* k - 1 cells of the bar; drawn the title.                                  *)
Emptied(t, k) ==
    /\ k \in 1..ROWS * COLS + 1
    /\ \A n \in 1..k - 1 : t.buf[Place(n)] = Blank

Redrawn(t, k) ==
    /\ t.y < ROWS
    /\ \A c \in Cell : t.buf[c] = Blank
    /\ k \in 1..ROWS * COLS + 1
    /\ \A n \in 1..k - 1 : t.screen[Place(n)] = Blank
    /\ t.drawn \in Nowhere \/ (t.drawn = Here(t) /\ \A n \in 1..k - 1 : Place(n) # t.drawn)

Cleared(t) == (\A c \in Cell : t.screen[c] = Blank) /\ t.drawn \in Nowhere

Ruled(t, k) ==
    /\ t.x = 0 /\ t.y = 0 /\ k \in 1..COLS + 1
    /\ \A c \in Cell : \/ t.screen[c] = IF c[1] = 0 /\ c[2] < k - 1 THEN Bar ELSE Blank
                       \/ c = <<0, 0>> /\ k = 1
    /\ t.drawn \in Nowhere \/ (t.drawn = <<0, 0>> /\ k = 1)

Titled(t) ==
    /\ t.x = 0 /\ t.y = 0 /\ t.drawn \in Nowhere
    /\ \A c \in Cell : t.screen[c] = IF c[1] = 0 THEN Barred(c[2]) ELSE Blank

(* What holds at each statement of the command. *)
Statement(t, p, j) ==
    LET newline == j.ch = Newline
    IN  /\ j.pc \in {"idle", "test", "return", "clear"} => Good(t, p)
        /\ j.pc = "return" => newline \/ t.x = COLS
        /\ j.pc = "feed" => FedReturn(t, p, newline)
        /\ j.pc = "check" => IF newline THEN Good(t, p) \/ Fallen(t, p)
                             ELSE (Good(t, p) /\ t.x < COLS) \/ (Fed(t, p) /\ t.y = Len(p.lines) - p.top)
        /\ j.pc = "scrub" => IF newline THEN Fallen(t, p) ELSE Fed(t, p) /\ t.y = ROWS
        /\ j.pc \in {"scroll buffer", "scroll"} => Scrolled(t, p, newline, p.top)
        /\ j.pc = "bottom" => Scrolled(t, p, newline, p.top + 1)
        /\ j.pc = "store" => ~newline /\ ((Good(t, p) /\ t.x < COLS) \/ (Fed(t, p) /\ t.y < ROWS))
        /\ j.pc = "draw" => ~newline /\ Drawing(t, p, j.ch)
        /\ j.pc = "advance" => ~newline /\ Drawn(t, p)
        /\ j.pc = "clear" => Emptied(t, j.k)
        /\ j.pc = "redraw" => Redrawn(t, j.k)
        /\ j.pc \in {"home", "top"} => Cleared(t)
        /\ j.pc = "top" => t.x = 0
        /\ j.pc = "home" => j.k = 1
        /\ j.pc = "top" => j.k = 1
        /\ j.pc = "center" => Ruled(t, j.k)
        /\ j.pc = "under" => Titled(t)

(* The places of the command.                                                *)
PrintPlaces == {"test", "return", "feed", "check", "scrub", "scroll buffer", "scroll", "bottom",
                "store", "draw", "advance"}
ClearPlaces == {"clear", "redraw", "home", "top", "center", "under"}
JobOK(j) ==
    /\ j \in [pc : PrintPlaces \cup ClearPlaces \cup {"idle"}, ch : {Output, Newline, Blank}, k : Nat]
    /\ j.pc \in PrintPlaces => j.ch # Blank

(* No more was typed than the input line and the one before it hold.           *)
EntryOK(e, p) ==
    /\ e \in [input : Seq({Typed, Colour}), ready : BOOLEAN, running : BOOLEAN]
    /\ Len(e.input) <= MaxInput
    /\ p.tail <= Len(e.input) + (IF e.ready THEN 0 ELSE MaxInput)

Consistent(t, p, j) ==
    t \in Terminal /\ PageOK(p) /\ TailOK(p) /\ JobOK(j) /\ Statement(t, p, j)

(* The inductive invariant, until a window is hit.                             *)
ConsoleInv == ~torn => Consistent(tty, page, job) /\ EntryOK(entry, page)

-----------------------------------------------------------------------------
(* Cells and glyphs. *)

LEMMA ScreenSize == ROWS \in Nat /\ COLS \in Nat /\ ROWS >= 2 /\ COLS >= 2
  BY ConsoleAssumption

LEMMA GlyphsApart ==
    /\ Cursor \notin Ink /\ Blank \notin Ink /\ Blank # Cursor
    /\ Newline \notin Ink /\ Output # Typed /\ Output \in Ink /\ Typed \in Ink
    /\ Newline # Blank /\ Colour # Typed
  BY DEF Ink, Cursor, Blank, Newline, Output, Typed, Bar, Headline, Colour

LEMMA CellIs ==
    ASSUME NEW r, NEW k
    PROVE  <<r, k>> \in Cell <=> r \in 0..ROWS-1 /\ k \in 0..COLS-1
  BY DEF Cell

LEMMA CellPair ==
    ASSUME NEW c \in Cell
    PROVE  /\ c = <<c[1], c[2]>> /\ c[1] \in 0..ROWS-1 /\ c[2] \in 0..COLS-1
           /\ c # None /\ c # <<ROWS, 0>>
  <1>1. PICK r \in 0..ROWS-1, k \in 0..COLS-1 : c = <<r, k>>
    BY DEF Cell
  <1>2. c[1] = r /\ c[2] = k
    BY <1>1
  <1>3. r # ROWS
    BY ScreenSize
  <1> QED
    BY <1>1, <1>2, <1>3 DEF None

LEMMA OffScreen == <<ROWS, 0>> \notin Cell /\ None \notin Cell /\ <<ROWS, 0>> # None
  <1>1. \A c \in Cell : c # None /\ c # <<ROWS, 0>>
    BY CellPair
  <1> QED
    BY <1>1 DEF None

-----------------------------------------------------------------------------
(* The page. *)

LEMMA PageType ==
    ASSUME NEW p, PageOK(p)
    PROVE  /\ p \in Paper /\ p.lines \in Seq(Seq(Ink)) /\ p.top \in Nat /\ p.tail \in Nat
           /\ Len(p.lines) \in Nat \ {0} /\ Len(p.lines) - p.top \in 1..ROWS
           /\ LastLine(p) \in Seq(Ink) /\ Len(LastLine(p)) \in 0..COLS
  <1>1. /\ p \in Paper /\ p.lines \in Seq(Seq(Ink)) /\ p.top \in Nat /\ p.tail \in Nat
    BY DEF PageOK, Paper
  <1>2. Len(p.lines) \in Nat \ {0} /\ Len(p.lines) - p.top \in 1..ROWS
    BY <1>1, ScreenSize DEF PageOK
  <1>3. Len(p.lines) \in 1..Len(p.lines)
    BY <1>2
  <1>4. LastLine(p) \in Seq(Ink) /\ Len(LastLine(p)) \in 0..COLS
    BY <1>1, <1>3, ScreenSize DEF PageOK, LastLine
  <1> QED
    BY <1>1, <1>2, <1>4

PaperWith(p, text, top) == [p EXCEPT !.lines = text, !.top = top]

LEMMA PaperChange ==
    ASSUME NEW p \in Paper, NEW x \in Seq(Seq(Ink)), NEW y \in Nat
    PROVE  LET q == PaperWith(p, x, y)
           IN  q \in Paper /\ q.lines = x /\ q.top = y /\ q.tail = p.tail
  BY DEF Paper, PaperWith

LEMMA BelowIs ==
    ASSUME NEW p \in Paper, NEW ln \in Seq(Ink), p.lines # <<>>
    PROVE  LET q == Below(p, ln)
           IN  /\ q \in Paper /\ q.lines = Append(p.lines, ln) /\ q.tail = p.tail
               /\ q.top = IF Len(p.lines) >= p.top + ROWS THEN p.top + 1 ELSE p.top
               /\ Len(q.lines) = Len(p.lines) + 1 /\ LastLine(q) = ln
               /\ \A n \in 1..Len(p.lines) : q.lines[n] = p.lines[n]
  <1> DEFINE new == Append(p.lines, ln)
             up == IF Len(p.lines) >= p.top + ROWS THEN p.top + 1 ELSE p.top
  <1>1. p.lines \in Seq(Seq(Ink)) /\ p.top \in Nat /\ p.tail \in Nat
    BY DEF Paper
  <1>2. new \in Seq(Seq(Ink)) /\ up \in Nat
    BY <1>1
  <1>3. /\ Len(new) = Len(p.lines) + 1 /\ new[Len(new)] = ln
        /\ \A n \in 1..Len(p.lines) : new[n] = p.lines[n]
    BY <1>1
  <1>4. Below(p, ln) = PaperWith(p, new, up)
    BY DEF Below, PaperWith
  <1> HIDE DEF new, up
  <1>5. /\ Below(p, ln) \in Paper /\ Below(p, ln).lines = new
        /\ Below(p, ln).top = up /\ Below(p, ln).tail = p.tail
    BY <1>2, <1>4, PaperChange
  <1> QED
    BY <1>3, <1>5 DEF new, up, LastLine

(* What printing a character does to the page. *)
LEMMA WriteIs ==
    ASSUME NEW p, PageOK(p), NEW c \in {Newline, Output, Typed}
    PROVE  LET q == Write(p, c)
               n == Len(p.lines)
           IN  /\ q \in Paper /\ q.tail = IF c = Typed THEN p.tail + 1 ELSE 0
               /\ IF c = Newline \/ Len(LastLine(p)) = COLS
                  THEN /\ Len(q.lines) = n + 1
                       /\ q.top = IF n = p.top + ROWS THEN p.top + 1 ELSE p.top
                       /\ LastLine(q) = IF c = Newline THEN <<>> ELSE <<c>>
                       /\ \A k \in 1..n : q.lines[k] = p.lines[k]
                  ELSE /\ Len(q.lines) = n /\ q.top = p.top
                       /\ LastLine(q) = Append(LastLine(p), c)
                       /\ \A k \in 1..n-1 : q.lines[k] = p.lines[k]
  <1> DEFINE m == [p EXCEPT !.tail = IF c = Typed THEN @ + 1 ELSE 0]
             n == Len(p.lines)
  <1>1. /\ p \in Paper /\ p.lines \in Seq(Seq(Ink)) /\ p.top \in Nat /\ p.tail \in Nat
        /\ n \in Nat \ {0} /\ n - p.top \in 1..ROWS /\ LastLine(p) \in Seq(Ink)
    BY PageType
  <1>2. m \in Paper /\ m.lines = p.lines /\ m.top = p.top /\ m.tail = IF c = Typed THEN p.tail + 1 ELSE 0
    BY <1>1 DEF Paper
  <1>3. LastLine(m) = LastLine(p)
    BY <1>2 DEF LastLine
  <1>4. p.lines # <<>>
    BY <1>1
  <1>5. c = Newline \/ c \in Ink
    BY GlyphsApart
  <1>6. <<>> \in Seq(Ink) /\ (c \in Ink => <<c>> \in Seq(Ink))
    OBVIOUS
  <1>7. Len(p.lines) >= p.top + ROWS <=> n = p.top + ROWS
    <2>1. n \in Nat /\ p.top \in Nat /\ n - p.top \in 1..ROWS
      BY <1>1
    <2> HIDE DEF n, m
    <2>2. n >= p.top + ROWS <=> n = p.top + ROWS
      BY <2>1, ScreenSize
    <2> QED
      BY <2>2 DEF n
  <1>8. Write(p, c) = IF c = Newline THEN Below(m, <<>>)
                      ELSE IF Len(LastLine(p)) = COLS THEN Below(m, <<c>>)
                      ELSE [m EXCEPT !.lines[n] = Append(@, c)]
    BY <1>2, <1>3 DEF Write
  <1> HIDE DEF m
  <1>12. ASSUME NEW ln \in Seq(Ink)
         PROVE  LET q == Below(m, ln)
                IN  /\ q \in Paper /\ q.tail = m.tail
                    /\ q.top = IF n = p.top + ROWS THEN p.top + 1 ELSE p.top
                    /\ Len(q.lines) = n + 1 /\ LastLine(q) = ln
                    /\ \A k \in 1..n : q.lines[k] = p.lines[k]
    BY <1>2, <1>4, <1>7, BelowIs
  <1>9. CASE c = Newline
    <2>1. Write(p, c) = Below(m, <<>>)
      BY <1>8, <1>9
    <2> HIDE DEF n
    <2> QED
      BY <1>2, <1>6, <1>9, <1>12, <2>1 DEF n
  <1>10. CASE c # Newline /\ Len(LastLine(p)) = COLS
    <2>1. Write(p, c) = Below(m, <<c>>)
      BY <1>8, <1>10
    <2>2. <<c>> \in Seq(Ink)
      BY <1>5, <1>6, <1>10
    <2> QED
      BY <1>2, <1>10, <1>12, <2>1, <2>2
  <1>11. CASE c # Newline /\ Len(LastLine(p)) # COLS
    <2> DEFINE ls == [p.lines EXCEPT ![n] = Append(LastLine(p), c)]
    <2>1. Write(p, c) = PaperWith(m, ls, p.top)
      <3>1. Write(p, c) = [m EXCEPT !.lines = ls]
        BY <1>2, <1>8, <1>11 DEF LastLine, Paper
      <3> HIDE DEF ls
      <3> QED
        BY <1>2, <3>1 DEF Paper, PaperWith
    <2>2. /\ Append(LastLine(p), c) \in Seq(Ink) /\ n \in 1..n
      BY <1>1, <1>5, <1>11
    <2>3. ls \in Seq(Seq(Ink)) /\ Len(ls) = n /\ ls[n] = Append(LastLine(p), c) /\ \A k \in 1..n-1 : ls[k] = p.lines[k]
      BY <1>1, <2>2
    <2> HIDE DEF ls
    <2>4. /\ Write(p, c) \in Paper /\ Write(p, c).lines = ls
          /\ Write(p, c).top = p.top /\ Write(p, c).tail = m.tail
      <3>1. p.top \in Nat
        BY <1>1
      <3> QED
        <4>1. m \in Paper
          BY <1>2
        <4>2. ls \in Seq(Seq(Ink))
          BY <2>3
        <4> QED
          BY <2>1, <3>1, <4>1, <4>2, PaperChange
    <2>5. c # Newline /\ Len(LastLine(p)) # COLS
      BY <1>11
    <2> QED
      BY <1>2, <2>3, <2>4, <2>5 DEF LastLine
  <1> QED
    BY <1>9, <1>10, <1>11

LEMMA WritePage ==
    ASSUME NEW p, PageOK(p), NEW c \in {Newline, Output, Typed}
    PROVE  PageOK(Write(p, c))
  <1> DEFINE q == Write(p, c)
             n == Len(p.lines)
  <1>1. /\ p.top \in Nat /\ n \in Nat \ {0} /\ n - p.top \in 1..ROWS
        /\ LastLine(p) \in Seq(Ink) /\ Len(LastLine(p)) \in 0..COLS
        /\ \A k \in 1..n : Len(p.lines[k]) <= COLS
    BY PageType DEF PageOK
  <1>2. /\ q \in Paper
        /\ IF c = Newline \/ Len(LastLine(p)) = COLS
           THEN /\ Len(q.lines) = n + 1
                /\ q.top = IF n = p.top + ROWS THEN p.top + 1 ELSE p.top
                /\ LastLine(q) = IF c = Newline THEN <<>> ELSE <<c>>
                /\ \A k \in 1..n : q.lines[k] = p.lines[k]
           ELSE /\ Len(q.lines) = n /\ q.top = p.top
                /\ LastLine(q) = Append(LastLine(p), c)
                /\ \A k \in 1..n-1 : q.lines[k] = p.lines[k]
    BY WriteIs
  <1> HIDE DEF q
  <1>3. Len(LastLine(q)) <= COLS
    <2>1. CASE c = Newline \/ Len(LastLine(p)) = COLS
      <3>1. LastLine(q) = <<>> \/ LastLine(q) = <<c>>
        BY <1>2, <2>1
      <3>2. Len(LastLine(q)) \in {0, 1}
        BY <3>1
      <3> QED
        BY <3>2, ScreenSize
    <2>2. CASE ~(c = Newline \/ Len(LastLine(p)) = COLS)
      <3>1. Len(LastLine(q)) = Len(LastLine(p)) + 1
        BY <1>1, <1>2, <2>2
      <3> QED
        BY <1>1, <2>2, <3>1, ScreenSize
    <2> QED
      BY <2>1, <2>2
  <1>4. \A k \in 1..Len(q.lines) : k # Len(q.lines) => Len(q.lines[k]) <= COLS
    <2>1. CASE c = Newline \/ Len(LastLine(p)) = COLS
      <3>1. Len(q.lines) = n + 1 /\ \A k \in 1..n : q.lines[k] = p.lines[k]
        BY <1>2, <2>1
      <3> HIDE DEF n
      <3>2. n \in Nat
        BY <1>1
      <3>3. \A k \in 1..Len(q.lines) : k # Len(q.lines) => k \in 1..n /\ q.lines[k] = p.lines[k]
        BY <3>1, <3>2
      <3> QED
        BY <1>1, <3>3
    <2>2. CASE ~(c = Newline \/ Len(LastLine(p)) = COLS)
      <3>1. Len(q.lines) = n /\ \A k \in 1..n-1 : q.lines[k] = p.lines[k]
        BY <1>2, <2>2
      <3> HIDE DEF n
      <3>2. n \in Nat
        BY <1>1
      <3>3. \A k \in 1..Len(q.lines) : k # Len(q.lines) => k \in 1..n /\ q.lines[k] = p.lines[k]
        BY <3>1, <3>2
      <3> QED
        BY <1>1, <3>3
    <2> QED
      BY <2>1, <2>2
  <1>5. q.top < Len(q.lines) /\ Len(q.lines) <= q.top + ROWS
    BY <1>1, <1>2, ScreenSize
  <1>6. \A k \in 1..Len(q.lines) : Len(q.lines[k]) <= COLS
    BY <1>3, <1>4 DEF LastLine
  <1> QED
    BY <1>2, <1>5, <1>6 DEF PageOK, q

LEMMA CellsOf ==
    /\ \A a \in Int : /\ Cells(a) \in Int /\ (a >= 0 => Cells(a) >= 0)
                      /\ Cells(a + 1) = Cells(a) + COLS
    /\ Cells(0) = 0
  <1>1. COLS \in Nat
    BY ScreenSize
  <1>2. ASSUME NEW a \in Int
        PROVE  /\ a * COLS \in Int /\ (a >= 0 => a * COLS >= 0)
               /\ (a + 1) * COLS = a * COLS + COLS
    BY <1>1
  <1> QED
    BY <1>1, <1>2 DEF Cells

LEMMA InputFits == MaxInput \in Nat /\ 2 * MaxInput <= Cells(ROWS - 1)
  BY ConsoleAssumption DEF Cells

LEMMA WriteTail ==
    ASSUME NEW p, PageOK(p), TailOK(p), NEW c \in {Newline, Output, Typed},
           c = Typed => p.tail < 2 * MaxInput
    PROVE  TailOK(Write(p, c))
  <1> DEFINE q == Write(p, c)
  <1>1. PICK n : n = Len(p.lines)
    OBVIOUS
  <1>2. PICK e : e = Len(LastLine(p))
    OBVIOUS
  <1>3. /\ p.top \in Nat /\ p.tail \in Nat /\ n \in Nat \ {0} /\ n - p.top \in 1..ROWS
        /\ LastLine(p) \in Seq(Ink) /\ e \in 0..COLS
    BY <1>1, <1>2, PageType
  <1>4. /\ p.tail <= Cells(n - p.top - 1) + e
        /\ \A j \in 1..n-1 : e + Cells(j - 1) < p.tail => Len(p.lines[n - j]) = COLS
    BY <1>1, <1>2 DEF TailOK, LastLine
  <1>5. /\ q.tail = IF c = Typed THEN p.tail + 1 ELSE 0
        /\ IF c = Newline \/ e = COLS
           THEN /\ Len(q.lines) = n + 1
                /\ q.top = IF n = p.top + ROWS THEN p.top + 1 ELSE p.top
                /\ LastLine(q) = IF c = Newline THEN <<>> ELSE <<c>>
                /\ \A k \in 1..n : q.lines[k] = p.lines[k]
           ELSE /\ Len(q.lines) = n /\ q.top = p.top
                /\ LastLine(q) = Append(LastLine(p), c)
                /\ \A k \in 1..n-1 : q.lines[k] = p.lines[k]
    BY <1>1, <1>2, WriteIs
  <1>6. PICK m : m = Len(q.lines)
    OBVIOUS
  <1>7. PICK f : f = Len(LastLine(q))
    OBVIOUS
  <1>8. PageOK(q)
    BY WritePage
  <1> HIDE DEF q
  <1>9. /\ m \in Nat \ {0} /\ q.top \in Nat /\ m - q.top \in 1..ROWS /\ f \in 0..COLS
    BY <1>6, <1>7, <1>8, PageType
  <1> SUFFICES /\ q.tail <= Cells(m - q.top - 1) + f
               /\ \A j \in 1..m-1 : f + Cells(j - 1) < q.tail => Len(q.lines[m - j]) = COLS
    BY <1>6, <1>7 DEF TailOK, LastLine, q
  <1>10. CASE c # Typed
    <2>1. q.tail = 0
      BY <1>5, <1>10
    <2>2. Cells(m - q.top - 1) >= 0 /\ Cells(m - q.top - 1) \in Int
      BY <1>9, CellsOf
    <2>3. \A j \in 1..m-1 : Cells(j - 1) >= 0 /\ Cells(j - 1) \in Int
      BY <1>9, CellsOf
    <2> QED
      BY <1>9, <2>1, <2>2, <2>3
  <1>11. CASE c = Typed /\ e # COLS
    <2>1. m = n /\ q.top = p.top /\ q.tail = p.tail + 1 /\ \A k \in 1..n-1 : q.lines[k] = p.lines[k]
      BY <1>5, <1>6, <1>11, GlyphsApart
    <2>2. f = e + 1
      <3>1. LastLine(q) = Append(LastLine(p), c)
        BY <1>5, <1>11, GlyphsApart
      <3> QED
        BY <1>2, <1>3, <1>7, <3>1
    <2>3. Cells(n - p.top - 1) \in Int /\ \A j \in 1..n-1 : Cells(j - 1) \in Int
      <3>1. n - p.top - 1 \in Int /\ \A j \in 1..n-1 : j - 1 \in Int
        BY <1>3
      <3> QED
        BY <3>1, CellsOf
    <2>4. \A j \in 1..n-1 : n - j \in 1..n-1
      BY <1>3
    <2>5. q.tail <= Cells(m - q.top - 1) + f
      BY <1>3, <1>4, <2>1, <2>2, <2>3
    <2>6. ASSUME NEW j \in 1..m-1, f + Cells(j - 1) < q.tail
          PROVE  Len(q.lines[m - j]) = COLS
      <3>1. j \in 1..n-1 /\ n - j \in 1..n-1
        BY <2>1, <2>4
      <3>2. Cells(j - 1) \in Int
        BY <2>3, <3>1
      <3>3. e + Cells(j - 1) < p.tail
        BY <1>3, <2>1, <2>2, <2>6, <3>2
      <3>4. Len(p.lines[n - j]) = COLS
        BY <1>4, <3>1, <3>3
      <3> QED
        BY <2>1, <3>1, <3>4
    <2> QED
      BY <2>5, <2>6
  <1>12. CASE c = Typed /\ e = COLS
    <2>1. /\ m = n + 1 /\ q.tail = p.tail + 1 /\ \A k \in 1..n : q.lines[k] = p.lines[k]
          /\ q.top = IF n = p.top + ROWS THEN p.top + 1 ELSE p.top
      BY <1>5, <1>6, <1>12
    <2>2. f = 1
      <3>1. LastLine(q) = <<c>>
        BY <1>5, <1>12, GlyphsApart
      <3> QED
        BY <1>7, <3>1
    <2>3. q.tail <= Cells(m - q.top - 1) + f
      <3>1. CASE n = p.top + ROWS
        <4>1. m - q.top - 1 = ROWS - 1
          BY <1>3, <2>1, <3>1, ScreenSize
        <4>2. Cells(ROWS - 1) \in Int
          BY ScreenSize, CellsOf
        <4>3. p.tail < 2 * MaxInput
          BY <1>12
        <4> HIDE <1>4
        <4> QED
          BY <1>3, <2>1, <2>2, <4>1, <4>2, <4>3, InputFits
      <3>2. CASE n # p.top + ROWS
        <4>1. m - q.top - 1 = (n - p.top - 1) + 1
          BY <1>3, <2>1, <3>2
        <4>2. /\ Cells(n - p.top - 1) \in Int
              /\ Cells((n - p.top - 1) + 1) = Cells(n - p.top - 1) + COLS
          <5>1. n - p.top - 1 \in Int
            BY <1>3
          <5> QED
            BY <5>1, CellsOf
        <4>3. Cells(m - q.top - 1) = Cells(n - p.top - 1) + COLS
          BY <4>1, <4>2
        <4> QED
          BY <1>3, <1>4, <1>12, <2>1, <2>2, <4>2, <4>3, ScreenSize
      <3> QED
        BY <3>1, <3>2
    <2>4. ASSUME NEW j \in 1..m-1, f + Cells(j - 1) < q.tail
          PROVE  Len(q.lines[m - j]) = COLS
      <3>1. j \in Int /\ j >= 1 /\ j <= n /\ m - j \in 1..n
        BY <1>3, <2>1
      <3>2. CASE j = 1
        <4>1. m - j = n /\ n \in 1..n
          BY <1>3, <2>1, <3>2
        <4> QED
          BY <1>1, <1>2, <1>12, <2>1, <4>1 DEF LastLine
      <3>3. CASE j # 1
        <4>1. j - 1 \in 1..n-1 /\ n - (j - 1) = m - j
          BY <1>3, <2>1, <3>1, <3>3
        <4>2. Cells(j - 1) \in Int /\ Cells((j - 1) - 1) = Cells(j - 1) - COLS
          <5>1. (j - 1) - 1 \in Int /\ j - 1 \in Int /\ j - 1 = ((j - 1) - 1) + 1
            BY <3>1
          <5>2. Cells(j - 1) = Cells((j - 1) - 1) + COLS /\ Cells((j - 1) - 1) \in Int
            BY <5>1, CellsOf
          <5> QED
            BY <5>2, ScreenSize
        <4>3. e + Cells((j - 1) - 1) < p.tail
          BY <1>3, <1>12, <2>1, <2>2, <2>4, <4>2, ScreenSize
        <4>4. Len(p.lines[n - (j - 1)]) = COLS
          BY <1>4, <4>1, <4>3
        <4> QED
          BY <2>1, <3>1, <4>1, <4>4
      <3> QED
        BY <3>2, <3>3
    <2> QED
      BY <2>3, <2>4
  <1> QED
    BY <1>10, <1>11, <1>12

(* BACKSPACE takes the last letter off the page. *)
LEMMA EraseIs ==
    ASSUME NEW p, PageOK(p), TailOK(p), p.tail > 0
    PROVE  LET q == Erase(p)
               n == Len(p.lines)
               e == Len(LastLine(p))
               m == IF e = 0 THEN n - 1 ELSE n
               f == IF e = 0 THEN COLS ELSE e
           IN  /\ q \in Paper /\ q.tail = p.tail - 1 /\ q.top = p.top
               /\ m \in Nat \ {0} /\ m > p.top /\ f \in 1..COLS
               /\ p.lines[m] \in Seq(Ink) /\ Len(p.lines[m]) = f
               /\ Len(q.lines) = m /\ LastLine(q) = SubSeq(p.lines[m], 1, f - 1)
               /\ \A k \in 1..m-1 : q.lines[k] = p.lines[k]
  <1> DEFINE q == Erase(p)
             n == Len(p.lines)
             e == Len(LastLine(p))
             m == IF e = 0 THEN n - 1 ELSE n
             f == IF e = 0 THEN COLS ELSE e
             kept == IF LastLine(p) = <<>> THEN SubSeq(p.lines, 1, n - 1) ELSE p.lines
             ls == [kept EXCEPT ![m] = SubSeq(p.lines[m], 1, f - 1)]
  <1>1. /\ p \in Paper /\ p.lines \in Seq(Seq(Ink)) /\ p.top \in Nat /\ p.tail \in Nat
        /\ LastLine(p) \in Seq(Ink)
    BY PageType
  <1>2. n \in Nat \ {0} /\ n - p.top \in 1..ROWS /\ e \in 0..COLS /\ n > p.top
    <2>1. n \in Nat \ {0} /\ n - p.top \in 1..ROWS /\ e \in 0..COLS
      BY PageType
    <2> HIDE DEF n, e
    <2> QED
      BY <1>1, <2>1
  <1>3. LastLine(p) = <<>> <=> e = 0
    BY <1>1
  <1>4. e = 0 => n - 1 > p.top /\ Len(p.lines[n - 1]) = COLS
    <2> SUFFICES ASSUME e = 0 PROVE n - 1 > p.top /\ Len(p.lines[n - 1]) = COLS
      OBVIOUS
    <2>1. p.tail <= Cells(n - p.top - 1)
      <3>1. p.tail <= Cells(n - p.top - 1) + e
        BY DEF TailOK, LastLine
      <3>2. Cells(n - p.top - 1) \in Int
        BY <1>1, <1>2, CellsOf
      <3> HIDE DEF n, e
      <3> QED
        BY <1>1, <1>2, <3>1, <3>2
    <2>2. n - 1 # p.top
      <3>1. SUFFICES ASSUME n - p.top - 1 = 0 PROVE FALSE
        BY <1>1, <1>2
      <3>2. p.tail <= 0
        BY <2>1, <3>1, CellsOf
      <3> QED
        BY <1>1, <3>2
    <2>3. n - 1 > p.top /\ 1 \in 1..n-1
      <3> HIDE DEF n
      <3> QED
        BY <1>1, <1>2, <2>2
    <2>4. e + Cells(1 - 1) < p.tail
      <3>1. 1 - 1 = 0 /\ Cells(0) = 0
        BY CellsOf
      <3> QED
        BY <1>1, <3>1
    <2>5. \A j \in 1..n-1 : e + Cells(j - 1) < p.tail => Len(p.lines[n - j]) = COLS
      BY DEF TailOK, LastLine
    <2> QED
      BY <2>3, <2>4, <2>5
  <1>5. m \in Nat \ {0} /\ m > p.top /\ f \in 1..COLS /\ m <= n
    <2> HIDE DEF n, e
    <2> QED
      BY <1>1, <1>2, <1>4, ScreenSize
  <1>6. p.lines[m] \in Seq(Ink) /\ Len(p.lines[m]) = f
    <2>1. m \in 1..n
      <3> HIDE DEF m, n
      <3> QED
        BY <1>2, <1>5
    <2>2. p.lines[m] \in Seq(Ink)
      BY <1>1, <2>1
    <2> QED
      BY <1>4, <2>2 DEF LastLine
  <1>7. kept \in Seq(Seq(Ink)) /\ Len(kept) = m /\ \A k \in 1..m : kept[k] = p.lines[k]
    <2>1. CASE e = 0
      <3>1. kept = SubSeq(p.lines, 1, n - 1) /\ m = n - 1 /\ n - 1 \in Nat
        BY <1>2, <1>3, <2>1
      <3> QED
        BY <1>1, <3>1
    <2>2. CASE e # 0
      BY <1>1, <1>3, <2>2
    <2> QED
      BY <2>1, <2>2
  <1>8. SubSeq(p.lines[m], 1, f - 1) \in Seq(Ink)
    <2>1. f - 1 \in 0..f
      BY <1>5
    <2> HIDE DEF f, m
    <2> QED
      BY <1>5, <1>6, <2>1
  <1>13. q = [p EXCEPT !.lines = ls, !.tail = p.tail - 1]
    <2>1. q = [p EXCEPT !.lines = [kept EXCEPT ![Len(kept)] = SubSeq(kept[Len(kept)], 1, Len(kept[Len(kept)]) - 1)],
                        !.tail = p.tail - 1]
      BY DEF Erase
    <2>2. Len(kept) = m /\ kept[m] = p.lines[m] /\ Len(kept[m]) = f
      <3>1. m \in 1..m
        <4> HIDE DEF m
        <4> QED
          BY <1>5
      <3> HIDE DEF m, kept, f
      <3> QED
        BY <1>6, <1>7, <3>1
    <2> HIDE DEF kept, m, f, q
    <2> QED
      BY <2>1, <2>2
  <1>9. q.lines = ls /\ q.top = p.top /\ q.tail = p.tail - 1 /\ DOMAIN q = {"lines", "top", "tail"}
    <2> HIDE DEF ls, q
    <2> QED
      BY <1>1, <1>13 DEF Paper
  <1>10. ls \in Seq(Seq(Ink)) /\ Len(ls) = m /\ ls[m] = SubSeq(p.lines[m], 1, f - 1) /\ \A k \in 1..m-1 : ls[k] = p.lines[k]
    <2> HIDE DEF kept, m, f, n, e
    <2>1. m \in 1..m
      BY <1>5
    <2> QED
      BY <1>5, <1>7, <1>8, <2>1
  <1>11. q \in Paper
    <2>1. p.tail - 1 \in Nat
      BY <1>1
    <2> HIDE DEF ls, q
    <2> QED
      BY <1>1, <1>10, <1>13, <2>1 DEF Paper
  <1> HIDE DEF q, ls, m, f
  <1>12. Len(q.lines) = m /\ LastLine(q) = SubSeq(p.lines[m], 1, f - 1) /\ \A k \in 1..m-1 : q.lines[k] = p.lines[k]
    BY <1>9, <1>10 DEF LastLine
  <1> QED
    BY <1>5, <1>6, <1>9, <1>11, <1>12 DEF q, m, f

LEMMA ErasePage ==
    ASSUME NEW p, PageOK(p), TailOK(p), p.tail > 0
    PROVE  PageOK(Erase(p)) /\ TailOK(Erase(p))
  <1> DEFINE q == Erase(p)
  <1>1. PICK n : n = Len(p.lines)
    OBVIOUS
  <1>2. PICK e : e = Len(LastLine(p))
    OBVIOUS
  <1>3. PICK m : m = IF e = 0 THEN n - 1 ELSE n
    OBVIOUS
  <1>4. PICK f : f = IF e = 0 THEN COLS ELSE e
    OBVIOUS
  <1>5. /\ p.top \in Nat /\ p.tail \in Nat /\ n \in Nat \ {0} /\ n - p.top \in 1..ROWS
        /\ LastLine(p) \in Seq(Ink) /\ e \in 0..COLS
    BY <1>1, <1>2, PageType
  <1>6. /\ q \in Paper /\ q.tail = p.tail - 1 /\ q.top = p.top
        /\ m \in Nat \ {0} /\ m > p.top /\ f \in 1..COLS
        /\ p.lines[m] \in Seq(Ink) /\ Len(p.lines[m]) = f
        /\ Len(q.lines) = m /\ LastLine(q) = SubSeq(p.lines[m], 1, f - 1)
        /\ \A k \in 1..m-1 : q.lines[k] = p.lines[k]
    BY <1>1, <1>2, <1>3, <1>4, EraseIs
  <1> HIDE DEF q
  <1>7. Len(LastLine(q)) = f - 1
    <2>1. f - 1 \in 0..f
      BY <1>6
    <2> QED
      BY <1>6, <2>1
  <1>8. PageOK(q)
    <2>1. \A k \in 1..n : Len(p.lines[k]) <= COLS
      BY <1>1 DEF PageOK
    <2>2. m <= n
      BY <1>3, <1>5
    <2>3. ASSUME NEW k \in 1..m PROVE Len(q.lines[k]) <= COLS
      <3>1. CASE k = m
        <4>1. q.lines[k] = LastLine(q)
          BY <1>6, <3>1 DEF LastLine
        <4> QED
          BY <1>6, <1>7, <4>1, ScreenSize
      <3>2. CASE k # m
        <4>1. k \in 1..m-1 /\ k \in 1..n
          BY <1>5, <1>6, <2>2, <3>2
        <4> QED
          BY <1>6, <2>1, <4>1
      <3> QED
        BY <3>1, <3>2
    <2>4. m <= p.top + ROWS
      BY <1>5, <2>2, <1>6, ScreenSize
    <2> QED
      BY <1>6, <2>3, <2>4 DEF PageOK
  <1>9. /\ p.tail <= Cells(n - p.top - 1) + e
        /\ \A j \in 1..n-1 : e + Cells(j - 1) < p.tail => Len(p.lines[n - j]) = COLS
    BY <1>1, <1>2 DEF TailOK, LastLine
  <1>10. /\ q.tail <= Cells(m - q.top - 1) + (f - 1)
         /\ \A j \in 1..m-1 : (f - 1) + Cells(j - 1) < q.tail => Len(q.lines[m - j]) = COLS
    <2>1. CASE e # 0
      <3>1. m = n /\ f = e /\ q.tail = p.tail - 1 /\ q.top = p.top
        BY <1>3, <1>4, <1>6, <2>1
      <3>2. n - p.top - 1 \in Int /\ Cells(n - p.top - 1) \in Int
        <4>1. n - p.top - 1 \in Int
          BY <1>5
        <4> QED
          BY <4>1, CellsOf
      <3>3. q.tail <= Cells(m - q.top - 1) + (f - 1)
        BY <1>5, <1>9, <3>1, <3>2
      <3>4. ASSUME NEW j \in 1..m-1, (f - 1) + Cells(j - 1) < q.tail
            PROVE  Len(q.lines[m - j]) = COLS
        <4>1. j \in 1..n-1 /\ m - j \in 1..m-1 /\ m - j = n - j /\ j - 1 \in Int
          BY <1>5, <3>1
        <4>2. Cells(j - 1) \in Int
          BY <4>1, CellsOf
        <4>3. e + Cells(j - 1) < p.tail
          BY <1>5, <3>1, <3>4, <4>2
        <4>4. Len(p.lines[n - j]) = COLS
          BY <1>9, <4>1, <4>3
        <4> QED
          BY <1>6, <4>1, <4>4
      <3> QED
        BY <3>3, <3>4
    <2>2. CASE e = 0
      <3>1. m = n - 1 /\ f = COLS /\ q.tail = p.tail - 1 /\ q.top = p.top
        BY <1>3, <1>4, <1>6, <2>2
      <3>2. /\ n - p.top - 1 = (m - p.top - 1) + 1 /\ Cells(m - p.top - 1) \in Int
            /\ Cells(n - p.top - 1) = Cells(m - p.top - 1) + COLS
        <4>1. m - p.top - 1 \in Int /\ n - p.top - 1 = (m - p.top - 1) + 1
          BY <1>5, <1>6, <3>1
        <4> QED
          BY <4>1, CellsOf
      <3>3. q.tail <= Cells(m - q.top - 1) + (f - 1)
        BY <1>5, <1>9, <2>2, <3>1, <3>2, ScreenSize
      <3>4. ASSUME NEW j \in 1..m-1, (f - 1) + Cells(j - 1) < q.tail
            PROVE  Len(q.lines[m - j]) = COLS
        <4>1. j + 1 \in 1..n-1 /\ m - j \in 1..m-1 /\ m - j = n - (j + 1)
          BY <1>5, <1>6, <3>1
        <4>2. j - 1 \in Int /\ (j - 1) + 1 = j /\ (j + 1) - 1 = j
          BY <1>6
        <4>3. Cells(j - 1) \in Int /\ Cells(j) = Cells(j - 1) + COLS
          BY <4>2, CellsOf
        <4>4. e + Cells(j) < p.tail
          BY <1>5, <2>2, <3>1, <3>4, <4>3, ScreenSize
        <4>5. Len(p.lines[n - (j + 1)]) = COLS
          BY <1>9, <4>1, <4>2, <4>4
        <4> QED
          BY <1>6, <4>1, <4>5
      <3> QED
        BY <3>3, <3>4
    <2> QED
      BY <2>1, <2>2
  <1>11. TailOK(q)
    BY <1>6, <1>7, <1>10 DEF TailOK, LastLine
  <1> QED
    BY <1>8, <1>11 DEF q

-----------------------------------------------------------------------------
(* The text of a page on the screen. *)

LEMMA PageTextType ==
    ASSUME NEW p, PageOK(p), NEW above \in Nat, NEW c \in Cell
    PROVE  TextAt(p.lines, above, c) \in Ink \cup {Blank}
  <1>1. p.lines \in Seq(Seq(Ink)) /\ c[1] \in Nat /\ c[2] \in Nat
    BY PageType, CellPair, ScreenSize
  <1>2. PICK n : n = above + c[1] + 1
    OBVIOUS
  <1>3. n \in Nat \ {0}
    BY <1>1, <1>2
  <1>4. CASE n <= Len(p.lines) /\ c[2] < Len(p.lines[n])
    <2>1. p.lines[n] \in Seq(Ink)
      BY <1>1, <1>3, <1>4
    <2>2. c[2] + 1 \in 1..Len(p.lines[n])
      BY <1>1, <1>4, <2>1
    <2>3. p.lines[n][c[2] + 1] \in Ink
      BY <2>1, <2>2
    <2> QED
      BY <1>2, <1>4, <2>3 DEF TextAt
  <1>5. CASE ~(n <= Len(p.lines) /\ c[2] < Len(p.lines[n]))
    BY <1>2, <1>5 DEF TextAt
  <1> QED
    BY <1>4, <1>5

(* Printing adds a letter at the end of the page, and nothing else. *)
LEMMA WriteText ==
    ASSUME NEW p, PageOK(p), NEW c \in {Newline, Output, Typed}, NEW above \in Nat, NEW a \in Cell
    PROVE  LET q == Write(p, c)
           IN  TextAt(q.lines, above, a) =
                 IF c # Newline /\ a = <<Len(q.lines) - 1 - above, Len(LastLine(q)) - 1>> THEN c
                 ELSE TextAt(p.lines, above, a)
  <1> DEFINE q == Write(p, c)
  <1>1. PICK n : n = Len(p.lines)
    OBVIOUS
  <1>2. PICK e : e = Len(LastLine(p))
    OBVIOUS
  <1>3. PICK m : m = Len(q.lines)
    OBVIOUS
  <1>4. PICK f : f = Len(LastLine(q))
    OBVIOUS
  <1>5. n \in Nat \ {0} /\ LastLine(p) \in Seq(Ink) /\ e \in 0..COLS
    BY <1>1, <1>2, PageType
  <1>6. IF c = Newline \/ e = COLS
        THEN /\ m = n + 1 /\ LastLine(q) = IF c = Newline THEN <<>> ELSE <<c>>
             /\ \A k \in 1..n : q.lines[k] = p.lines[k]
        ELSE /\ m = n /\ LastLine(q) = Append(LastLine(p), c)
             /\ \A k \in 1..n-1 : q.lines[k] = p.lines[k]
    BY <1>1, <1>2, <1>3, WriteIs
  <1>7. a[1] \in Nat /\ a[2] \in Nat /\ a = <<a[1], a[2]>>
    BY CellPair, ScreenSize
  <1>8. PICK r : r = above + a[1] + 1
    OBVIOUS
  <1>9. r \in Nat \ {0}
    BY <1>7, <1>8
  <1>10. q.lines[m] = LastLine(q) /\ p.lines[n] = LastLine(p)
    BY <1>1, <1>3 DEF LastLine
  <1> HIDE DEF q
  <1>11. TextAt(q.lines, above, a) = IF r <= m /\ a[2] < Len(q.lines[r]) THEN q.lines[r][a[2] + 1] ELSE Blank
    BY <1>3, <1>8 DEF TextAt
  <1>12. TextAt(p.lines, above, a) = IF r <= n /\ a[2] < Len(p.lines[r]) THEN p.lines[r][a[2] + 1] ELSE Blank
    BY <1>1, <1>8 DEF TextAt
  <1>13. CASE c = Newline
    <2>1. m = n + 1 /\ LastLine(q) = <<>> /\ \A k \in 1..n : q.lines[k] = p.lines[k]
      BY <1>6, <1>13
    <2>2. CASE r <= n
      <3>1. q.lines[r] = p.lines[r] /\ r <= m
        BY <1>5, <1>9, <2>1, <2>2
      <3> QED
        BY <1>11, <1>12, <1>13, <2>2, <3>1 DEF q
    <2>3. CASE r = m
      <3>1. Len(q.lines[r]) = 0 /\ ~(r <= n)
        BY <1>5, <1>10, <2>1, <2>3
      <3> QED
        BY <1>7, <1>11, <1>12, <1>13, <3>1 DEF q
    <2>4. CASE r > m
      <3>1. ~(r <= n) /\ ~(r <= m)
        BY <1>5, <1>9, <2>1, <2>4
      <3> QED
        BY <1>11, <1>12, <1>13, <3>1 DEF q
    <2>5. r <= n \/ r = m \/ r > m
      BY <1>5, <1>9, <2>1
    <2> QED
      BY <2>2, <2>3, <2>4, <2>5
  <1>14. CASE c # Newline
    <2>1. a = <<m - 1 - above, f - 1>> <=> r = m /\ a[2] = f - 1
      <3>1. m \in Nat /\ f \in Nat
        <4>1. m \in Nat
          BY <1>5, <1>6, <1>14
        <4>2. LastLine(q) \in {<<c>>, Append(LastLine(p), c)}
          BY <1>6, <1>14
        <4>3. f \in Nat
          BY <1>4, <1>5, <4>2
        <4> QED
          BY <4>1, <4>3
      <3>2. a = <<m - 1 - above, f - 1>> <=> a[1] = m - 1 - above /\ a[2] = f - 1
        BY <1>7
      <3> QED
        BY <1>7, <1>8, <3>1, <3>2
    <2>2. CASE e = COLS
      <3>1. m = n + 1 /\ LastLine(q) = <<c>> /\ \A k \in 1..n : q.lines[k] = p.lines[k]
        BY <1>6, <1>14, <2>2
      <3>2. f = 1 /\ LastLine(q)[1] = c
        BY <1>4, <3>1
      <3>3. CASE r <= n
        <4>1. q.lines[r] = p.lines[r] /\ r <= m /\ r # m
          BY <1>5, <1>9, <3>1, <3>3
        <4> QED
          BY <1>3, <1>4, <1>11, <1>12, <2>1, <3>3, <4>1 DEF q
      <3>4. CASE r = m
        <4>1. ~(r <= n)
          BY <1>5, <3>1, <3>4
        <4>2. Len(q.lines[r]) = 1 /\ q.lines[r][1] = c
          BY <1>10, <3>1, <3>2, <3>4
        <4>3. TextAt(q.lines, above, a) = IF a[2] = 0 THEN c ELSE Blank
          BY <1>5, <1>7, <1>11, <3>1, <3>4, <4>2
        <4>4. a = <<m - 1 - above, f - 1>> <=> a[2] = 0
          BY <2>1, <3>2, <3>4
        <4> QED
          BY <1>3, <1>4, <1>12, <1>14, <4>1, <4>3, <4>4 DEF q
      <3>5. CASE r > m
        <4>1. ~(r <= n) /\ ~(r <= m) /\ r # m
          BY <1>5, <1>9, <3>1, <3>5
        <4> QED
          BY <1>3, <1>4, <1>11, <1>12, <2>1, <4>1 DEF q
      <3>6. r <= n \/ r = m \/ r > m
        BY <1>5, <1>9, <3>1
      <3> QED
        BY <3>3, <3>4, <3>5, <3>6
    <2>3. CASE e # COLS
      <3>1. m = n /\ LastLine(q) = Append(LastLine(p), c) /\ \A k \in 1..n-1 : q.lines[k] = p.lines[k]
        BY <1>6, <1>14, <2>3
      <3>2. f = e + 1 /\ LastLine(q)[e + 1] = c /\ \A k \in 1..e : LastLine(q)[k] = LastLine(p)[k]
        BY <1>2, <1>4, <1>5, <3>1
      <3>3. CASE r < n
        <4>1. q.lines[r] = p.lines[r] /\ r <= m /\ r # m /\ r <= n
          BY <1>5, <1>9, <3>1, <3>3
        <4> QED
          BY <1>3, <1>4, <1>11, <1>12, <2>1, <4>1 DEF q
      <3>4. CASE r = m
        <4>1. Len(q.lines[r]) = e + 1 /\ Len(p.lines[r]) = e
          BY <1>2, <1>4, <1>10, <3>1, <3>2, <3>4
        <4>2. r <= n /\ r <= m
          BY <1>5, <3>1, <3>4
        <4>3. a = <<m - 1 - above, f - 1>> <=> a[2] = e
          BY <1>5, <2>1, <3>2, <3>4
        <4>4. CASE a[2] < e
          <5>1. a[2] + 1 \in 1..e /\ a[2] # e /\ a[2] < e + 1
            BY <1>5, <1>7, <4>4
          <5>2. q.lines[r][a[2] + 1] = p.lines[r][a[2] + 1]
            BY <1>10, <3>1, <3>2, <3>4, <5>1
          <5> QED
            BY <1>3, <1>4, <1>11, <1>12, <4>1, <4>2, <4>3, <4>4, <5>1, <5>2 DEF q
        <4>5. CASE a[2] = e
          <5>1. a[2] < e + 1 /\ q.lines[r][a[2] + 1] = c
            BY <1>5, <1>10, <3>2, <3>4, <4>5
          <5> QED
            BY <1>3, <1>4, <1>11, <1>14, <4>1, <4>2, <4>3, <4>5, <5>1 DEF q
        <4>6. CASE a[2] > e
          <5>1. ~(a[2] < e + 1) /\ ~(a[2] < e) /\ a[2] # e
            BY <1>5, <1>7, <4>6
          <5> QED
            BY <1>3, <1>4, <1>11, <1>12, <4>1, <4>2, <4>3, <5>1 DEF q
        <4> QED
          BY <1>5, <1>7, <4>4, <4>5, <4>6
      <3>5. CASE r > m
        <4>1. ~(r <= n) /\ ~(r <= m) /\ r # m
          BY <1>5, <1>9, <3>1, <3>5
        <4> QED
          BY <1>3, <1>4, <1>11, <1>12, <2>1, <4>1 DEF q
      <3>6. r < n \/ r = m \/ r > m
        BY <1>5, <1>9, <3>1
      <3> QED
        BY <3>3, <3>4, <3>5, <3>6
    <2> QED
      BY <2>2, <2>3
  <1> QED
    BY <1>13, <1>14

LEMMA EraseText ==
    ASSUME NEW p, PageOK(p), TailOK(p), p.tail > 0, NEW above \in Nat, NEW a \in Cell
    PROVE  LET q == Erase(p)
           IN  TextAt(q.lines, above, a) =
                 IF a = <<Len(q.lines) - 1 - above, Len(LastLine(q))>> THEN Blank
                 ELSE TextAt(p.lines, above, a)
  <1> DEFINE q == Erase(p)
  <1>1. PICK n : n = Len(p.lines)
    OBVIOUS
  <1>2. PICK e : e = Len(LastLine(p))
    OBVIOUS
  <1>3. PICK m : m = IF e = 0 THEN n - 1 ELSE n
    OBVIOUS
  <1>4. PICK f : f = IF e = 0 THEN COLS ELSE e
    OBVIOUS
  <1>5. n \in Nat \ {0} /\ e \in 0..COLS
    BY <1>1, <1>2, PageType
  <1>6. /\ m \in Nat \ {0} /\ f \in 1..COLS
        /\ p.lines[m] \in Seq(Ink) /\ Len(p.lines[m]) = f
        /\ Len(q.lines) = m /\ LastLine(q) = SubSeq(p.lines[m], 1, f - 1)
        /\ \A k \in 1..m-1 : q.lines[k] = p.lines[k]
    BY <1>1, <1>2, <1>3, <1>4, EraseIs
  <1> HIDE DEF q
  <1>7. Len(LastLine(q)) = f - 1 /\ \A k \in 1..f-1 : LastLine(q)[k] = p.lines[m][k]
    <2>1. f - 1 \in 0..f
      BY <1>6
    <2> QED
      BY <1>6, <2>1
  <1>8. q.lines[m] = LastLine(q) /\ p.lines[n] = LastLine(p)
    BY <1>1, <1>6 DEF LastLine
  <1>9. a[1] \in Nat /\ a[2] \in Nat /\ a = <<a[1], a[2]>>
    BY CellPair, ScreenSize
  <1>10. PICK r : r = above + a[1] + 1
    OBVIOUS
  <1>11. r \in Nat \ {0}
    BY <1>9, <1>10
  <1>12. TextAt(q.lines, above, a) = IF r <= m /\ a[2] < Len(q.lines[r]) THEN q.lines[r][a[2] + 1] ELSE Blank
    BY <1>6, <1>10 DEF TextAt
  <1>13. TextAt(p.lines, above, a) = IF r <= n /\ a[2] < Len(p.lines[r]) THEN p.lines[r][a[2] + 1] ELSE Blank
    BY <1>1, <1>10 DEF TextAt
  <1>14. a = <<m - 1 - above, f - 1>> <=> r = m /\ a[2] = f - 1
    <2>1. a = <<m - 1 - above, f - 1>> <=> a[1] = m - 1 - above /\ a[2] = f - 1
      BY <1>9
    <2> QED
      BY <1>6, <1>9, <1>10, <2>1
  <1>15. m <= n
    BY <1>3, <1>5
  <1>16. CASE r < m
    <2>1. q.lines[r] = p.lines[r] /\ r <= m /\ r # m /\ r <= n
      BY <1>5, <1>6, <1>11, <1>15, <1>16
    <2> QED
      BY <1>6, <1>7, <1>12, <1>13, <1>14, <2>1 DEF q
  <1>17. CASE r = m
    <2>1. r <= n /\ r <= m /\ Len(q.lines[r]) = f - 1 /\ Len(p.lines[r]) = f
      BY <1>6, <1>7, <1>8, <1>15, <1>17
    <2>2. a = <<m - 1 - above, f - 1>> <=> a[2] = f - 1
      BY <1>14, <1>17
    <2>3. CASE a[2] < f - 1
      <3>1. a[2] + 1 \in 1..f-1 /\ a[2] < f /\ a[2] # f - 1
        BY <1>6, <1>9, <2>3
      <3>2. q.lines[r][a[2] + 1] = p.lines[r][a[2] + 1]
        BY <1>7, <1>8, <1>17, <3>1
      <3> QED
        BY <1>6, <1>7, <1>12, <1>13, <2>1, <2>2, <2>3, <3>1, <3>2 DEF q
    <2>4. CASE a[2] = f - 1
      <3>1. ~(a[2] < f - 1)
        BY <1>6, <2>4
      <3> QED
        BY <1>6, <1>7, <1>12, <2>1, <2>2, <2>4, <3>1 DEF q
    <2>5. CASE a[2] > f - 1
      <3>1. ~(a[2] < f - 1) /\ ~(a[2] < f) /\ a[2] # f - 1
        BY <1>6, <1>9, <2>5
      <3> QED
        BY <1>6, <1>7, <1>12, <1>13, <2>1, <2>2, <3>1 DEF q
    <2> QED
      BY <1>6, <1>9, <2>3, <2>4, <2>5
  <1>18. CASE r > m
    <2>1. ~(r <= m) /\ r # m
      BY <1>6, <1>11, <1>18
    <2>2. ~(r <= n /\ a[2] < Len(p.lines[r]))
      <3>1. CASE e # 0
        <4>1. ~(r <= n)
          BY <1>3, <2>1, <3>1
        <4> QED
          BY <4>1
      <3>2. CASE e = 0
        <4>1. r <= n => r = n
          BY <1>3, <1>5, <1>11, <1>18, <3>2
        <4>2. Len(p.lines[n]) = 0
          BY <1>2, <1>8, <3>2
        <4> QED
          BY <1>9, <4>1, <4>2
      <3> QED
        BY <3>1, <3>2
    <2> QED
      BY <1>6, <1>7, <1>12, <1>13, <1>14, <2>1, <2>2 DEF q
  <1> QED
    BY <1>6, <1>11, <1>16, <1>17, <1>18

(* Behind the end of the page there is nothing. *)
LEMMA TextEnds ==
    ASSUME NEW p, PageOK(p), NEW above \in Int, NEW a \in Cell,
           \/ above + a[1] + 1 > Len(p.lines)
           \/ above + a[1] + 1 = Len(p.lines) /\ a[2] >= Len(LastLine(p))
    PROVE  TextAt(p.lines, above, a) = Blank
  <1>1. /\ Len(p.lines) \in Nat \ {0} /\ Len(LastLine(p)) \in 0..COLS
        /\ a[1] \in Nat /\ a[2] \in Nat
    BY PageType, CellPair, ScreenSize
  <1>2. PICK r : r = above + a[1] + 1
    OBVIOUS
  <1>3. r \in Int
    BY <1>1, <1>2
  <1>4. ~(r <= Len(p.lines) /\ a[2] < Len(p.lines[r]))
    <2>1. CASE r > Len(p.lines)
      BY <1>1, <1>3, <2>1
    <2>2. CASE r = Len(p.lines) /\ a[2] >= Len(LastLine(p))
      BY <1>1, <2>2, ScreenSize DEF LastLine
    <2> QED
      BY <1>2, <2>1, <2>2
  <1> QED
    BY <1>2, <1>4 DEF TextAt

-----------------------------------------------------------------------------
(* The statements of vga.c. *)

LEMMA TerminalType ==
    ASSUME NEW t \in Terminal
    PROVE  /\ t.screen \in [Cell -> Glyph] /\ t.buf \in [Cell -> Glyph]
           /\ t.x \in 0..COLS /\ t.y \in 0..ROWS /\ t.blink \in BOOLEAN /\ t.drawn \in Cell \cup Nowhere
           /\ Here(t) = <<t.y, t.x>>
           /\ Here(t) \in Cell <=> t.x # COLS /\ t.y # ROWS
  <1>1. /\ t.screen \in [Cell -> Glyph] /\ t.buf \in [Cell -> Glyph]
        /\ t.x \in 0..COLS /\ t.y \in 0..ROWS /\ t.blink \in BOOLEAN /\ t.drawn \in Cell \cup Nowhere
    BY DEF Terminal
  <1>2. Here(t) = <<t.y, t.x>>
    BY DEF Here
  <1>3. Here(t) \in Cell <=> t.y \in 0..ROWS-1 /\ t.x \in 0..COLS-1
    BY <1>2, CellIs
  <1> QED
    BY <1>1, <1>2, <1>3, ScreenSize

LEMMA DrawIn ==
    ASSUME NEW t \in Terminal, NEW at \in Cell, NEW g \in Glyph
    PROVE  LET u == DrawChar(t, at, g)
           IN  /\ u \in Terminal /\ u.x = t.x /\ u.y = t.y /\ u.buf = t.buf /\ u.blink = t.blink
               /\ u.drawn = IF t.drawn = at THEN None ELSE t.drawn
               /\ \A c \in Cell : u.screen[c] = IF c = at THEN g ELSE t.screen[c]
  <1> DEFINE s == [t.screen EXCEPT ![at] = g]
             d == IF t.drawn = at THEN None ELSE t.drawn
  <1>1. s \in [Cell -> Glyph] /\ \A c \in Cell : s[c] = IF c = at THEN g ELSE t.screen[c]
    BY TerminalType
  <1>2. d \in Cell \cup Nowhere
    BY TerminalType DEF Nowhere
  <1>3. DrawChar(t, at, g) = [t EXCEPT !.screen = s, !.drawn = d]
    BY DEF DrawChar
  <1> HIDE DEF s, d
  <1>4. DrawChar(t, at, g) \in Terminal
    BY <1>1, <1>2, <1>3 DEF Terminal
  <1>5. LET u == DrawChar(t, at, g)
        IN  u.screen = s /\ u.drawn = d /\ u.x = t.x /\ u.y = t.y /\ u.buf = t.buf /\ u.blink = t.blink
    BY <1>3 DEF Terminal
  <1> QED
    BY <1>1, <1>4, <1>5 DEF d

LEMMA DrawOut ==
    ASSUME NEW t \in Terminal, NEW g \in Glyph
    PROVE  LET at == <<ROWS, 0>>
               u == DrawChar(t, at, g)
           IN  /\ u \in Terminal /\ u.x = t.x /\ u.y = t.y /\ u.buf = t.buf /\ u.blink = t.blink
               /\ u.drawn = IF t.drawn = at THEN None ELSE t.drawn
               /\ u.screen = t.screen
  <1> DEFINE at == <<ROWS, 0>>
             d == IF t.drawn = at THEN None ELSE t.drawn
  <1>1. at \notin Cell /\ ~(at[1] < ROWS)
    BY OffScreen, ScreenSize
  <1>2. d \in Cell \cup Nowhere
    BY TerminalType DEF Nowhere
  <1>3. DrawChar(t, at, g) = [t EXCEPT !.screen = t.screen, !.drawn = d]
    BY <1>1 DEF DrawChar
  <1> HIDE DEF d
  <1>4. DrawChar(t, at, g) = [t EXCEPT !.drawn = d]
    BY <1>3 DEF Terminal
  <1>5. DrawChar(t, at, g) \in Terminal
    BY <1>2, <1>4 DEF Terminal
  <1>6. LET u == DrawChar(t, at, g)
        IN  u.screen = t.screen /\ u.drawn = d /\ u.x = t.x /\ u.y = t.y /\ u.buf = t.buf /\ u.blink = t.blink
    BY <1>4 DEF Terminal
  <1> QED
    BY <1>5, <1>6 DEF d

LEMMA FeedIs ==
    ASSUME NEW t \in Terminal, t.y # ROWS
    PROVE  LET u == Feed(t)
           IN  /\ u \in Terminal /\ u.x = 0 /\ u.y = t.y + 1 /\ u.screen = t.screen
               /\ u.buf = t.buf /\ u.blink = t.blink /\ u.drawn = t.drawn
  <1>1. 0 \in 0..COLS /\ t.y + 1 \in 0..ROWS
    BY TerminalType, ScreenSize
  <1> QED
    BY <1>1 DEF Feed, Terminal

LEMMA BottomIs ==
    ASSUME NEW t \in Terminal
    PROVE  LET u == Bottom(t)
           IN  /\ u \in Terminal /\ u.x = t.x /\ u.y = ROWS - 1 /\ u.screen = t.screen
               /\ u.buf = t.buf /\ u.blink = t.blink /\ u.drawn = t.drawn
  <1>1. ROWS - 1 \in 0..ROWS
    BY ScreenSize
  <1> QED
    BY <1>1 DEF Bottom, Terminal

LEMMA AdvanceIs ==
    ASSUME NEW t \in Terminal, t.x # COLS
    PROVE  LET u == Advance(t)
           IN  /\ u \in Terminal /\ u.x = t.x + 1 /\ u.y = t.y /\ u.screen = t.screen
               /\ u.buf = t.buf /\ u.blink = t.blink /\ u.drawn = t.drawn
  <1>1. t.x + 1 \in 0..COLS
    BY TerminalType, ScreenSize
  <1> QED
    BY <1>1 DEF Advance, Terminal

LEMMA StoreIs ==
    ASSUME NEW t \in Terminal, NEW g \in Glyph
    PROVE  LET u == Store(t, g)
           IN  /\ u \in Terminal /\ u.x = t.x /\ u.y = t.y /\ u.screen = t.screen
               /\ u.blink = t.blink /\ u.drawn = t.drawn
  <1> DEFINE b == [t.buf EXCEPT ![Here(t)] = g]
  <1>1. b \in [Cell -> Glyph]
    BY TerminalType
  <1>2. Store(t, g) = [t EXCEPT !.buf = b]
    BY DEF Store
  <1> HIDE DEF b
  <1> QED
    BY <1>1, <1>2 DEF Terminal

LEMMA UpType ==
    ASSUME NEW s \in [Cell -> Glyph]
    PROVE  /\ Up(s) \in [Cell -> Glyph]
           /\ \A c \in Cell : Up(s)[c] = IF c[1] = ROWS - 1 THEN Blank ELSE s[<<c[1] + 1, c[2]>>]
  <1>1. ASSUME NEW c \in Cell, c[1] # ROWS - 1
        PROVE  s[<<c[1] + 1, c[2]>>] \in Glyph
    <2>1. c[1] + 1 \in 0..ROWS-1 /\ c[2] \in 0..COLS-1
      BY <1>1, CellPair, ScreenSize
    <2>2. <<c[1] + 1, c[2]>> \in Cell
      BY <2>1, CellIs
    <2> QED
      BY <2>2
  <1>2. Blank \in Glyph
    BY DEF Glyph
  <1> QED
    BY <1>1, <1>2 DEF Up

LEMMA ScrollBufferIs ==
    ASSUME NEW t \in Terminal
    PROVE  LET u == ScrollBuffer(t)
           IN  /\ u \in Terminal /\ u.x = t.x /\ u.y = t.y /\ u.screen = t.screen
               /\ u.blink = t.blink /\ u.drawn = t.drawn
  <1>1. Up(t.buf) \in [Cell -> Glyph]
    BY TerminalType, UpType
  <1> QED
    BY <1>1 DEF ScrollBuffer, Terminal

LEMMA ScrollFramebufferIs ==
    ASSUME NEW t \in Terminal
    PROVE  LET u == ScrollFramebuffer(t)
           IN  /\ u \in Terminal /\ u.x = t.x /\ u.y = t.y /\ u.screen = Up(t.screen)
               /\ u.blink = t.blink /\ u.drawn = t.drawn
  <1>1. Up(t.screen) \in [Cell -> Glyph]
    BY TerminalType, UpType
  <1> QED
    BY <1>1 DEF ScrollFramebuffer, Terminal

-----------------------------------------------------------------------------
(* A scroll. *)

(* Nothing but the text is on the screen. *)
Plain(t, p) == AtEnd(t, p) /\ Lit(t, p.lines, p.top, {}) /\ t.drawn \in Nowhere

LEMMA PlainIsGood ==
    ASSUME NEW t, NEW p, Plain(t, p)
    PROVE  Good(t, p)
  BY DEF Plain, Good, Lit, Known

(* The scrub in front of a scroll shows nothing that was erased. *)
Hidden(t) == t.y >= ROWS /\ t.drawn \in Cell /\ t.buf[t.drawn] # Blank

LEMMA ScrubStep ==
    ASSUME NEW t \in Terminal, NEW p, PageOK(p), NEW newline \in BOOLEAN, ~Hidden(t),
           IF newline THEN Fallen(t, p) ELSE Fed(t, p) /\ t.y = ROWS
    PROVE  Scrub(t) \in Terminal /\ Scrolled(Scrub(t), p, newline, p.top)
  <1>1. PICK above : above = IF newline THEN p.top - 1 ELSE p.top
    OBVIOUS
  <1>2. PICK u : u = Scrub(t)
    OBVIOUS
  <1>3. /\ Len(p.lines) \in Nat /\ p.top \in Nat /\ Len(LastLine(p)) \in Nat
        /\ Len(p.lines) - p.top \in 1..ROWS /\ LastLine(p) \in Seq(Ink)
    BY PageType, ScreenSize
  <1>4. t.x = 0 /\ t.y = ROWS /\ above \in Nat
    BY <1>1, <1>3 DEF Fallen, Fed
  <1>5. Len(p.lines) = p.top + ROWS
    <2>1. CASE newline
      BY <2>1 DEF Fallen
    <2>2. CASE ~newline
      <3>1. ROWS = Len(p.lines) - p.top \/ (ROWS = ROWS - 1 /\ Len(p.lines) - p.top = ROWS)
        BY <1>4, <2>2 DEF Fed
      <3> QED
        BY <1>3, <3>1, ScreenSize
    <2> QED
      BY <2>1, <2>2
  <1>6. Len(LastLine(p)) = IF newline THEN 0 ELSE COLS
    BY DEF Fallen, Fed
  <1>7. Lit(t, p.lines, above, {t.drawn}) /\ Known(t, {t.drawn})
    <2>1. CASE newline
      BY <1>1, <2>1 DEF Fallen
    <2>2. CASE ~newline
      <3>1. Len(p.lines) - t.y = above /\ Here(t) \notin Cell
        <4>1. above = p.top
          BY <1>1, <2>2
        <4>2. Len(p.lines) - t.y = p.top
          BY <1>3, <1>4, <1>5, ScreenSize
        <4>3. Here(t) \notin Cell
          BY <1>4, TerminalType
        <4> QED
          BY <4>1, <4>2, <4>3
      <3>2. Lit(t, p.lines, above, {Here(t)}) /\ Known(t, {Here(t)})
        BY <2>2, <3>1 DEF Fed
      <3> QED
        BY <3>1, <3>2 DEF Lit, Known
    <2> QED
      BY <2>1, <2>2
  <1>8. /\ u \in Terminal /\ u.x = t.x /\ u.y = t.y /\ u.drawn \in Nowhere
        /\ \A c \in Cell : u.screen[c] = TextAt(p.lines, above, c)
    <2>1. CASE t.drawn \in Cell
      <3>1. t.screen[t.drawn] = Cursor
        <4>1. t.drawn \notin Nowhere
          BY <2>1, OffScreen DEF Nowhere
        <4> QED
          BY <1>7, <4>1 DEF Known
      <3>2. TextAt(p.lines, above, t.drawn) = Blank
        <4>1. TextAt(p.lines, above, t.drawn) \in Ink \cup {Blank}
          BY <1>4, <2>1, PageTextType
        <4> QED
          BY <1>7, <2>1, <3>1, <4>1, GlyphsApart DEF Lit
      <3>3. t.buf[t.drawn] = Blank /\ Blank \in Glyph
        BY <1>4, <2>1, ScreenSize DEF Hidden, Glyph
      <3>4. u = DrawChar(t, t.drawn, Blank)
        BY <1>2, <2>1, <3>3 DEF Scrub
      <3>5. /\ u \in Terminal /\ u.x = t.x /\ u.y = t.y /\ u.drawn = None
            /\ \A c \in Cell : u.screen[c] = IF c = t.drawn THEN Blank ELSE t.screen[c]
        BY <2>1, <3>3, <3>4, DrawIn
      <3>6. \A c \in Cell : c # t.drawn => t.screen[c] = TextAt(p.lines, above, c)
        BY <1>7 DEF Lit
      <3> QED
        BY <3>2, <3>5, <3>6 DEF Nowhere
    <2>2. CASE t.drawn \notin Cell
      <3>1. u = [t EXCEPT !.drawn = None]
        BY <1>2, <2>2 DEF Scrub
      <3>2. /\ u \in Terminal /\ u.x = t.x /\ u.y = t.y /\ u.drawn = None /\ u.screen = t.screen
        BY <3>1 DEF Terminal, Nowhere
      <3> QED
        BY <1>7, <2>2, <3>2 DEF Lit, Nowhere
    <2> QED
      BY <2>1, <2>2
  <1>9. Scrolled(u, p, newline, p.top)
    BY <1>1, <1>4, <1>5, <1>6, <1>8 DEF Scrolled, Lit
  <1> QED
    BY <1>2, <1>8, <1>9

LEMMA ScrollBufferStep ==
    ASSUME NEW t \in Terminal, NEW p, NEW newline \in BOOLEAN, NEW above, Scrolled(t, p, newline, above)
    PROVE  ScrollBuffer(t) \in Terminal /\ Scrolled(ScrollBuffer(t), p, newline, above)
  BY ScrollBufferIs DEF Scrolled, Lit

LEMMA ScrollStep ==
    ASSUME NEW t \in Terminal, NEW p, PageOK(p), NEW newline \in BOOLEAN, Scrolled(t, p, newline, p.top)
    PROVE  /\ ScrollFramebuffer(t) \in Terminal
           /\ Scrolled(ScrollFramebuffer(t), p, newline, p.top + 1)
  <1>1. PICK above : above = IF newline THEN p.top - 1 ELSE p.top
    OBVIOUS
  <1>2. PICK u : u = ScrollFramebuffer(t)
    OBVIOUS
  <1>3. u \in Terminal /\ u.x = t.x /\ u.y = t.y /\ u.screen = Up(t.screen) /\ u.drawn = t.drawn
    BY <1>2, ScrollFramebufferIs
  <1>4. /\ Len(p.lines) \in Nat /\ p.top \in Nat /\ Len(LastLine(p)) \in Nat /\ above \in Int
    BY <1>1, PageType, ScreenSize
  <1>5. /\ Len(p.lines) = p.top + ROWS /\ Len(LastLine(p)) = IF newline THEN 0 ELSE COLS
        /\ Lit(t, p.lines, above, {})
    BY <1>1 DEF Scrolled
  <1>6. ASSUME NEW c \in Cell
        PROVE  u.screen[c] = TextAt(p.lines, above + 1, c)
    <2>1. u.screen[c] = IF c[1] = ROWS - 1 THEN Blank ELSE t.screen[<<c[1] + 1, c[2]>>]
      BY <1>3, TerminalType, UpType
    <2>2. c[1] \in 0..ROWS-1 /\ c[2] \in 0..COLS-1
      BY CellPair
    <2>3. CASE c[1] = ROWS - 1
      <3>1. (above + 1) + c[1] + 1 = IF newline THEN Len(p.lines) ELSE Len(p.lines) + 1
        <4>1. newline => above = p.top - 1
          BY <1>1
        <4>2. ~newline => above = p.top
          BY <1>1
        <4>3. Len(p.lines) = p.top + ROWS
          BY <1>5
        <4>4. newline => (above + 1) + c[1] + 1 = Len(p.lines)
          BY <1>4, <2>3, <4>1, <4>3, ScreenSize
        <4>5. ~newline => (above + 1) + c[1] + 1 = Len(p.lines) + 1
          BY <1>4, <2>3, <4>2, <4>3, ScreenSize
        <4> QED
          BY <4>4, <4>5, Zenon
      <3>2. newline => c[2] >= Len(LastLine(p))
        BY <1>5, <2>2, ScreenSize
      <3>3. TextAt(p.lines, above + 1, c) = Blank
        <4>1. above + 1 \in Int
          BY <1>4
        <4>2. \/ (above + 1) + c[1] + 1 > Len(p.lines)
              \/ (above + 1) + c[1] + 1 = Len(p.lines) /\ c[2] >= Len(LastLine(p))
          BY <1>4, <3>1, <3>2
        <4> QED
          BY <4>1, <4>2, TextEnds
      <3> QED
        BY <2>1, <2>3, <3>3
    <2>4. CASE c[1] # ROWS - 1
      <3>1. PICK d : d = <<c[1] + 1, c[2]>>
        OBVIOUS
      <3>2. c[1] + 1 \in 0..ROWS-1
        BY <2>2, <2>4, ScreenSize
      <3>3. d \in Cell /\ d[1] = c[1] + 1 /\ d[2] = c[2]
        BY <2>2, <3>1, <3>2, CellIs
      <3>4. t.screen[d] = TextAt(p.lines, above, d)
        BY <1>5, <3>3 DEF Lit
      <3>5. above + d[1] + 1 = (above + 1) + c[1] + 1
        BY <1>4, <2>2, <3>3, ScreenSize
      <3>6. TextAt(p.lines, above, d) = TextAt(p.lines, above + 1, c)
        BY <3>3, <3>5 DEF TextAt
      <3> QED
        BY <2>1, <2>4, <3>1, <3>4, <3>6
    <2> QED
      BY <2>3, <2>4
  <1>7. above + 1 = IF newline THEN (p.top + 1) - 1 ELSE p.top + 1
    BY <1>1, <1>4
  <1>8. Lit(u, p.lines, IF newline THEN (p.top + 1) - 1 ELSE p.top + 1, {})
    <2>1. Lit(u, p.lines, above + 1, {})
      BY <1>6 DEF Lit
    <2> QED
      BY <1>7, <2>1
  <1>9. Scrolled(u, p, newline, p.top + 1)
    BY <1>3, <1>5, <1>8 DEF Scrolled
  <1> QED
    BY <1>2, <1>3, <1>9

LEMMA BottomStep ==
    ASSUME NEW t \in Terminal, NEW p, PageOK(p), NEW newline \in BOOLEAN, Scrolled(t, p, newline, p.top + 1)
    PROVE  /\ Bottom(t) \in Terminal
           /\ IF newline THEN Plain(Bottom(t), p) ELSE Fed(Bottom(t), p) /\ Bottom(t).y < ROWS
  <1>1. PICK u : u = Bottom(t)
    OBVIOUS
  <1>2. u \in Terminal /\ u.x = t.x /\ u.y = ROWS - 1 /\ u.screen = t.screen /\ u.drawn = t.drawn
    BY <1>1, BottomIs
  <1>3. Len(p.lines) \in Nat /\ p.top \in Nat
    BY PageType
  <1>4. /\ t.x = 0 /\ Len(p.lines) = p.top + ROWS /\ Len(LastLine(p)) = IF newline THEN 0 ELSE COLS
        /\ Lit(t, p.lines, IF newline THEN (p.top + 1) - 1 ELSE p.top + 1, {}) /\ t.drawn \in Nowhere
    BY DEF Scrolled
  <1>5. CASE newline
    <2>1. (p.top + 1) - 1 = p.top
      BY <1>3
    <2>2. Lit(u, p.lines, p.top, {}) /\ u.drawn \in Nowhere
      BY <1>2, <1>4, <1>5, <2>1 DEF Lit
    <2>3. AtEnd(u, p)
      <3>1. Len(p.lines) - p.top - 1 = ROWS - 1
        BY <1>3, <1>4, ScreenSize
      <3> QED
        BY <1>2, <1>4, <1>5, <3>1 DEF AtEnd
    <2> QED
      BY <1>1, <1>2, <1>5, <2>2, <2>3 DEF Plain
  <1>6. CASE ~newline
    <2>1. Len(p.lines) - u.y = p.top + 1
      BY <1>2, <1>3, <1>4, ScreenSize
    <2>2. Lit(u, p.lines, Len(p.lines) - u.y, {Here(u)}) /\ Known(u, {Here(u)})
      BY <1>2, <1>4, <1>6, <2>1 DEF Lit, Known
    <2>3. u.y = ROWS - 1 /\ Len(p.lines) - p.top = ROWS /\ u.y < ROWS
      BY <1>2, <1>3, <1>4, ScreenSize
    <2> QED
      BY <1>1, <1>2, <1>4, <1>6, <2>2, <2>3 DEF Fed
  <1> QED
    BY <1>5, <1>6

-----------------------------------------------------------------------------
(* print_char, statement by statement. *)

(* A cursor that a newline would leave behind. *)
Behind(t) ==
    /\ Here(t) \in Cell /\ t.screen[Here(t)] = Cursor
    /\ ~(t.y = ROWS - 1 /\ t.drawn = Here(t))

LEMMA ReturnStep ==
    ASSUME NEW t \in Terminal, NEW p, PageOK(p), NEW newline \in BOOLEAN,
           Good(t, p), IF newline THEN ~Behind(t) ELSE t.x = COLS
    PROVE  LET u == [t EXCEPT !.x = 0]
           IN  u \in Terminal /\ FedReturn(u, p, newline)
  <1>1. PICK u : u = [t EXCEPT !.x = 0]
    OBVIOUS
  <1>2. u \in Terminal /\ u.x = 0 /\ u.y = t.y /\ u.screen = t.screen /\ u.drawn = t.drawn
    <2>1. 0 \in 0..COLS
      BY ScreenSize
    <2> QED
      BY <1>1, <2>1 DEF Terminal
  <1>3. t.y = Len(p.lines) - p.top - 1 /\ t.x = Len(LastLine(p))
    BY DEF Good, AtEnd
  <1>4. Lit(t, p.lines, p.top, {Here(t)}) /\ Known(t, {Here(t)})
    BY DEF Good
  <1>5. newline \/ Len(LastLine(p)) = COLS
    BY <1>3
  <1>6. CASE Here(t) \in Cell /\ t.screen[Here(t)] = Cursor
    <2>1. newline /\ t.y = ROWS - 1 /\ t.drawn = Here(t)
      BY <1>6, TerminalType DEF Behind
    <2>2. Lit(u, p.lines, p.top, {u.drawn}) /\ Known(u, {u.drawn})
      BY <1>2, <1>4, <2>1 DEF Lit, Known
    <2> QED
      BY <1>1, <1>2, <1>3, <1>5, <2>1, <2>2 DEF FedReturn
  <1>7. CASE ~(Here(t) \in Cell /\ t.screen[Here(t)] = Cursor)
    <2>1. t.drawn \in Nowhere
      BY <1>4, <1>7 DEF Known
    <2>2. \A c \in Cell : t.screen[c] = TextAt(p.lines, p.top, c)
      BY <1>4, <1>7 DEF Lit
    <2>3. Lit(u, p.lines, p.top, {u.drawn}) /\ Known(u, {u.drawn})
      BY <1>2, <2>1, <2>2 DEF Lit, Known
    <2> QED
      BY <1>1, <1>2, <1>3, <1>5, <2>1, <2>3 DEF FedReturn
  <1> QED
    BY <1>6, <1>7

LEMMA FeedStep ==
    ASSUME NEW t \in Terminal, NEW p, PageOK(p), NEW newline \in BOOLEAN, FedReturn(t, p, newline)
    PROVE  LET u == [t EXCEPT !.y = @ + 1]
           IN  /\ u \in Terminal
               /\ IF newline THEN Plain(u, Write(p, Newline)) \/ Fallen(u, Write(p, Newline))
                  ELSE Fed(u, p) /\ u.y = Len(p.lines) - p.top
  <1>1. PICK u : u = [t EXCEPT !.y = @ + 1]
    OBVIOUS
  <1>2. PICK n : n = Len(p.lines)
    OBVIOUS
  <1>3. /\ n \in Nat \ {0} /\ p.top \in Nat /\ n - p.top \in 1..ROWS
        /\ Len(LastLine(p)) \in 0..COLS /\ LastLine(p) \in Seq(Ink)
    BY <1>2, PageType
  <1>4. /\ t.x = 0 /\ t.y = n - p.top - 1
        /\ Lit(t, p.lines, p.top, {t.drawn}) /\ Known(t, {t.drawn})
        /\ t.drawn \in Nowhere \/ (newline /\ t.y = ROWS - 1)
        /\ newline \/ Len(LastLine(p)) = COLS
    BY <1>2 DEF FedReturn
  <1>5. u \in Terminal /\ u.x = 0 /\ u.y = t.y + 1 /\ u.screen = t.screen /\ u.drawn = t.drawn
    <2>1. t.y + 1 \in 0..ROWS
      BY <1>3, <1>4, ScreenSize
    <2> QED
      BY <1>1, <1>4, <2>1 DEF Terminal
  <1>6. u.y = n - p.top
    BY <1>3, <1>4, <1>5
  <1>7. CASE ~newline
    <2>1. t.drawn \in Nowhere /\ Len(LastLine(p)) = COLS
      BY <1>4, <1>7
    <2>2. \A c \in Cell : c # t.drawn
      BY <2>1, OffScreen DEF Nowhere
    <2>3. n - u.y = p.top
      BY <1>3, <1>6, ScreenSize
    <2>4. Lit(u, p.lines, n - u.y, {Here(u)}) /\ Known(u, {Here(u)})
      BY <1>4, <1>5, <2>1, <2>2, <2>3 DEF Lit, Known
    <2> QED
      BY <1>1, <1>2, <1>5, <1>6, <1>7, <2>1, <2>4 DEF Fed
  <1>8. CASE newline
    <2>1. PICK q : q = Write(p, Newline)
      OBVIOUS
    <2>2. Newline \in {Newline, Output, Typed}
      OBVIOUS
    <2>3. /\ Len(q.lines) = n + 1 /\ LastLine(q) = <<>>
          /\ q.top = IF n = p.top + ROWS THEN p.top + 1 ELSE p.top
      BY <1>2, <2>1, <2>2, WriteIs
    <2>4. \A c \in Cell : TextAt(q.lines, p.top, c) = TextAt(p.lines, p.top, c)
      BY <1>3, <2>1, <2>2, WriteText
    <2>5. Len(LastLine(q)) = 0
      BY <2>3
    <2>6. CASE n = p.top + ROWS
      <3>1. q.top = p.top + 1 /\ q.top > 0 /\ q.top - 1 = p.top /\ Len(q.lines) = q.top + ROWS /\ u.y = ROWS
        BY <1>3, <1>6, <2>3, <2>6, ScreenSize
      <3>2. Lit(u, q.lines, q.top - 1, {u.drawn}) /\ Known(u, {u.drawn})
        BY <1>4, <1>5, <2>4, <3>1 DEF Lit, Known
      <3> QED
        BY <1>1, <1>5, <1>8, <2>1, <2>3, <3>1, <3>2 DEF Fallen
    <2>7. CASE n # p.top + ROWS
      <3>1. q.top = p.top /\ u.y = Len(q.lines) - q.top - 1 /\ t.y # ROWS - 1
        BY <1>3, <1>4, <1>6, <2>3, <2>7, ScreenSize
      <3>2. t.drawn \in Nowhere /\ \A c \in Cell : c # t.drawn
        BY <1>4, <3>1, OffScreen DEF Nowhere
      <3>3. Lit(u, q.lines, q.top, {}) /\ u.drawn \in Nowhere
        BY <1>4, <1>5, <2>4, <3>1, <3>2 DEF Lit, Known
      <3>4. AtEnd(u, q)
        BY <1>5, <2>5, <3>1 DEF AtEnd
      <3> QED
        BY <1>1, <1>5, <1>8, <2>1, <3>3, <3>4 DEF Plain
    <2> QED
      BY <2>6, <2>7
  <1> QED
    BY <1>7, <1>8

LEMMA StoreStep ==
    ASSUME NEW t \in Terminal, NEW p, PageOK(p), NEW c \in {Output, Typed},
           (Good(t, p) /\ t.x < COLS) \/ (Fed(t, p) /\ t.y < ROWS)
    PROVE  /\ Store(t, c) \in Terminal /\ Here(Store(t, c)) \in Cell
           /\ Drawing(Store(t, c), Write(p, c), c)
  <1>1. PICK u : u = Store(t, c)
    OBVIOUS
  <1>2. PICK q : q = Write(p, c)
    OBVIOUS
  <1>3. PICK n : n = Len(p.lines)
    OBVIOUS
  <1>4. PICK e : e = Len(LastLine(p))
    OBVIOUS
  <1>5. /\ n \in Nat \ {0} /\ p.top \in Nat /\ n - p.top \in 1..ROWS
        /\ e \in 0..COLS /\ LastLine(p) \in Seq(Ink)
    BY <1>3, <1>4, PageType
  <1>6. c \in Ink /\ c \in Glyph /\ c # Newline /\ c \in {Newline, Output, Typed}
    BY GlyphsApart DEF Glyph
  <1>7. u \in Terminal /\ u.x = t.x /\ u.y = t.y /\ u.screen = t.screen /\ u.drawn = t.drawn
    BY <1>1, <1>6, StoreIs
  <1>8. IF e = COLS
        THEN /\ Len(q.lines) = n + 1 /\ LastLine(q) = <<c>>
             /\ q.top = IF n = p.top + ROWS THEN p.top + 1 ELSE p.top
        ELSE /\ Len(q.lines) = n /\ q.top = p.top /\ LastLine(q) = Append(LastLine(p), c)
    BY <1>2, <1>3, <1>4, <1>6, WriteIs
  <1>9. /\ Lit(t, p.lines, q.top, {Here(t)}) /\ Known(t, {Here(t)})
        /\ t.y = Len(q.lines) - q.top - 1 /\ t.x = Len(LastLine(q)) - 1
        /\ LastLine(q)[Len(LastLine(q))] = c /\ q.top \in Nat /\ t.x < COLS /\ t.y < ROWS
    <2>1. CASE Good(t, p) /\ t.x < COLS
      <3>1. t.x = e /\ t.y = n - p.top - 1 /\ e # COLS
        BY <1>3, <1>4, <1>5, <2>1, ScreenSize DEF Good, AtEnd
      <3>2. Len(q.lines) = n /\ q.top = p.top /\ LastLine(q) = Append(LastLine(p), c)
        BY <1>8, <3>1
      <3>3. Len(LastLine(q)) = e + 1 /\ LastLine(q)[e + 1] = c
        BY <1>4, <1>5, <3>2
      <3>4. Lit(t, p.lines, q.top, {Here(t)}) /\ Known(t, {Here(t)})
        BY <2>1, <3>2 DEF Good
      <3>5. t.y < ROWS /\ t.x = Len(LastLine(q)) - 1
        BY <1>5, <3>1, <3>3, ScreenSize
      <3> QED
        BY <1>5, <2>1, <3>1, <3>2, <3>3, <3>4, <3>5
    <2>2. CASE Fed(t, p) /\ t.y < ROWS
      <3>1. /\ t.x = 0 /\ e = COLS /\ Lit(t, p.lines, n - t.y, {Here(t)}) /\ Known(t, {Here(t)})
            /\ t.y = n - p.top \/ (t.y = ROWS - 1 /\ n - p.top = ROWS)
        BY <1>3, <1>4, <2>2 DEF Fed
      <3>2. /\ Len(q.lines) = n + 1 /\ LastLine(q) = <<c>>
            /\ q.top = IF n = p.top + ROWS THEN p.top + 1 ELSE p.top
        BY <1>8, <3>1
      <3>3. n - t.y = q.top /\ q.top \in Nat /\ t.y = Len(q.lines) - q.top - 1
        <4>1. CASE n = p.top + ROWS
          <5>1. q.top = p.top + 1 /\ Len(q.lines) = n + 1
            BY <3>2, <4>1
          <5>2. n - p.top = ROWS
            BY <1>5, <4>1, ScreenSize
          <5>3. t.y = ROWS - 1
            BY <2>2, <3>1, <5>2, ScreenSize
          <5> QED
            BY <1>5, <5>1, <5>2, <5>3, ScreenSize
        <4>2. CASE n # p.top + ROWS
          <5>1. t.y = n - p.top /\ q.top = p.top
            BY <1>5, <2>2, <3>1, <3>2, <4>2, ScreenSize
          <5> QED
            BY <1>5, <3>2, <5>1, ScreenSize
        <4> QED
          BY <4>1, <4>2
      <3>4. Len(LastLine(q)) = 1 /\ LastLine(q)[1] = c
        BY <3>2
      <3>5. t.x < COLS /\ t.x = Len(LastLine(q)) - 1
        BY <3>1, <3>4, ScreenSize
      <3> QED
        BY <2>2, <3>1, <3>3, <3>4, <3>5
    <2> QED
      BY <2>1, <2>2
  <1>10. Here(t) = <<Len(q.lines) - 1 - q.top, Len(LastLine(q)) - 1>>
    <2>1. Len(q.lines) - 1 - q.top = Len(q.lines) - q.top - 1
      <3>1. Len(q.lines) \in Int
        BY <1>5, <1>8
      <3> QED
        BY <1>9, <3>1
    <2> QED
      BY <1>9, <2>1, TerminalType
  <1>11. ASSUME NEW a \in Cell, a # Here(t)
         PROVE  t.screen[a] = TextAt(q.lines, q.top, a)
    <2>1. t.screen[a] = TextAt(p.lines, q.top, a)
      BY <1>9, <1>11 DEF Lit
    <2>2. TextAt(q.lines, q.top, a) = TextAt(p.lines, q.top, a)
      BY <1>2, <1>6, <1>9, <1>10, <1>11, WriteText
    <2> QED
      BY <2>1, <2>2
  <1>12. Here(u) = Here(t) /\ Here(t) \in Cell
    <2>1. t.x # COLS /\ t.y # ROWS
      BY <1>9, ScreenSize
    <2> QED
      BY <1>7, <2>1, TerminalType DEF Here
  <1>13. t.drawn \in Nowhere \cup {Here(t)}
    BY <1>9 DEF Known
  <1>14. Drawing(u, q, c)
    BY <1>7, <1>9, <1>11, <1>12, <1>13 DEF Drawing, AtLast
  <1> QED
    BY <1>1, <1>2, <1>7, <1>12, <1>14

LEMMA DrawStep ==
    ASSUME NEW t \in Terminal, NEW p, PageOK(p), NEW c \in {Output, Typed}, Drawing(t, p, c)
    PROVE  DrawChar(t, Here(t), c) \in Terminal /\ Drawn(DrawChar(t, Here(t), c), p)
  <1>1. PICK u : u = DrawChar(t, Here(t), c)
    OBVIOUS
  <1>2. /\ Len(p.lines) \in Nat \ {0} /\ p.top \in Nat /\ Len(p.lines) - p.top \in 1..ROWS
        /\ Len(LastLine(p)) \in 0..COLS /\ LastLine(p) \in Seq(Ink)
    BY PageType
  <1>3. t.y = Len(p.lines) - p.top - 1 /\ t.x = Len(LastLine(p)) - 1 /\ LastLine(p)[Len(LastLine(p))] = c
    BY DEF Drawing, AtLast
  <1>4. Here(t) \in Cell /\ Here(t) = <<t.y, t.x>>
    <2>1. t.x # COLS /\ t.y # ROWS
      BY <1>2, <1>3, ScreenSize
    <2> QED
      BY <2>1, TerminalType
  <1>5. c \in Glyph
    BY GlyphsApart DEF Glyph
  <1>6. /\ u \in Terminal /\ u.x = t.x /\ u.y = t.y
        /\ u.drawn = IF t.drawn = Here(t) THEN None ELSE t.drawn
        /\ \A a \in Cell : u.screen[a] = IF a = Here(t) THEN c ELSE t.screen[a]
    BY <1>1, <1>4, <1>5, DrawIn
  <1>7. TextAt(p.lines, p.top, Here(t)) = c
    <2>1. PICK n : n = p.top + Here(t)[1] + 1
      OBVIOUS
    <2>2. Here(t)[1] = t.y /\ Here(t)[2] = t.x
      BY <1>4
    <2>3. n = Len(p.lines)
      BY <1>2, <1>3, <2>1, <2>2
    <2>4. p.lines[n] = LastLine(p)
      BY <2>3 DEF LastLine
    <2>5. Here(t)[2] < Len(p.lines[n]) /\ Here(t)[2] + 1 = Len(LastLine(p)) /\ n <= Len(p.lines)
      BY <1>2, <1>3, <2>2, <2>3, <2>4
    <2> QED
      BY <1>3, <2>1, <2>4, <2>5 DEF TextAt
  <1>8. Lit(u, p.lines, p.top, {})
    BY <1>6, <1>7 DEF Lit, Drawing
  <1>9. u.drawn \in Nowhere
    BY <1>6 DEF Drawing, Nowhere
  <1>10. AtLast(u, p)
    BY <1>3, <1>6 DEF AtLast
  <1> QED
    BY <1>1, <1>6, <1>8, <1>9, <1>10 DEF Drawn

LEMMA AdvanceStep ==
    ASSUME NEW t \in Terminal, NEW p, PageOK(p), Drawn(t, p)
    PROVE  Advance(t) \in Terminal /\ Plain(Advance(t), p)
  <1>1. PICK u : u = Advance(t)
    OBVIOUS
  <1>2. Len(LastLine(p)) \in 0..COLS
    BY PageType
  <1>3. t.y = Len(p.lines) - p.top - 1 /\ t.x = Len(LastLine(p)) - 1
    BY DEF Drawn, AtLast
  <1>4. t.x # COLS
    BY <1>2, <1>3, ScreenSize
  <1>5. u \in Terminal /\ u.x = t.x + 1 /\ u.y = t.y /\ u.screen = t.screen /\ u.drawn = t.drawn
    BY <1>1, <1>4, AdvanceIs
  <1>6. AtEnd(u, p)
    BY <1>2, <1>3, <1>5 DEF AtEnd
  <1> QED
    BY <1>1, <1>5, <1>6 DEF Plain, Drawn, Lit

-----------------------------------------------------------------------------
(* print_char in an interrupt handler. *)

LEMMA ScrollUp ==
    ASSUME NEW t \in Terminal, NEW p, PageOK(p), NEW newline \in BOOLEAN, ~Hidden(t),
           IF newline THEN Fallen(t, p) ELSE Fed(t, p) /\ t.y = ROWS
    PROVE  LET u == Bottom(ScrollFramebuffer(ScrollBuffer(Scrub(t))))
           IN  u \in Terminal /\ IF newline THEN Plain(u, p) ELSE Fed(u, p) /\ u.y < ROWS
  <1>1. Scrub(t) \in Terminal /\ Scrolled(Scrub(t), p, newline, p.top)
    BY ScrubStep
  <1>2. PICK a : a = ScrollBuffer(Scrub(t))
    OBVIOUS
  <1>3. a \in Terminal /\ Scrolled(a, p, newline, p.top)
    BY <1>1, <1>2, ScrollBufferStep
  <1>4. PICK b : b = ScrollFramebuffer(a)
    OBVIOUS
  <1>5. b \in Terminal /\ Scrolled(b, p, newline, p.top + 1)
    BY <1>3, <1>4, ScrollStep
  <1>6. Bottom(b) \in Terminal /\ IF newline THEN Plain(Bottom(b), p) ELSE Fed(Bottom(b), p) /\ Bottom(b).y < ROWS
    BY <1>5, BottomStep
  <1> QED
    BY <1>2, <1>4, <1>6

LEMMA FeedTwice ==
    ASSUME NEW t \in Terminal
    PROVE  Feed(t) = [[t EXCEPT !.x = 0] EXCEPT !.y = @ + 1]
  BY DEF Feed, Terminal

LEMMA LetterPrinted ==
    ASSUME NEW t \in Terminal, NEW p, PageOK(p), NEW c \in {Output, Typed}, ~Hidden(t),
           Good(t, p) \/ Fallen(t, p) \/ Fed(t, p)
    PROVE  PrintChar(t, c) \in Terminal /\ Plain(PrintChar(t, c), Write(p, c))
  <1>1. PICK f : f = IF Full(t) THEN Feed(t) ELSE t
    OBVIOUS
  <1>2. c # Newline
    BY GlyphsApart
  <1>3. t.x \in 0..COLS /\ (Full(t) <=> t.x = COLS)
    BY TerminalType, ScreenSize DEF Full
  <1>4. f \in Terminal /\ ~Hidden(f) /\ ((Good(f, p) /\ f.x < COLS) \/ Fed(f, p) \/ Fallen(f, p))
    <2>1. CASE Good(t, p) /\ t.x = COLS
      <3>1. PICK r : r = [t EXCEPT !.x = 0]
        OBVIOUS
      <3>2. r \in Terminal /\ FedReturn(r, p, FALSE)
        BY <2>1, <3>1, ReturnStep
      <3>3. PICK u : u = [r EXCEPT !.y = @ + 1]
        OBVIOUS
      <3>4. u \in Terminal /\ Fed(u, p)
        BY <3>2, <3>3, FeedStep
      <3>5. f = u
        BY <1>1, <1>3, <2>1, <3>1, <3>3, FeedTwice
      <3>6. ~Hidden(u)
        <4>1. r.drawn \in Nowhere
          BY <3>2 DEF FedReturn
        <4>2. u.drawn = r.drawn
          BY <3>2, <3>3 DEF Terminal
        <4> QED
          BY <4>1, <4>2, OffScreen DEF Hidden, Nowhere
      <3> QED
        BY <3>4, <3>5, <3>6
    <2>2. CASE t.x # COLS
      <3>1. f = t /\ t.x < COLS
        BY <1>1, <1>3, <2>2, ScreenSize
      <3> QED
        BY <3>1
    <2>3. t.x = COLS => Good(t, p)
      BY ScreenSize DEF Fed, Fallen
    <2> QED
      BY <2>1, <2>2, <2>3
  <1>5. PICK u : u = IF f.y >= ROWS THEN Bottom(ScrollFramebuffer(ScrollBuffer(Scrub(f)))) ELSE f
    OBVIOUS
  <1>6. f.y \in 0..ROWS
    BY <1>4, TerminalType
  <1>7. u \in Terminal /\ ((Good(u, p) /\ u.x < COLS) \/ (Fed(u, p) /\ u.y < ROWS))
    <2>1. CASE f.y = ROWS
      <3>1. u = Bottom(ScrollFramebuffer(ScrollBuffer(Scrub(f))))
        BY <1>5, <2>1, ScreenSize
      <3>2. Good(f, p) => f.y < ROWS
        <4>1. Len(p.lines) - p.top \in 1..ROWS /\ Len(p.lines) \in Nat /\ p.top \in Nat
          BY PageType
        <4> QED
          BY <4>1, ScreenSize DEF Good, AtEnd
      <3>3. Fed(f, p) \/ Fallen(f, p)
        BY <1>4, <2>1, <3>2, ScreenSize
      <3>4. CASE Fed(f, p)
        BY <1>4, <2>1, <3>1, <3>4, ScrollUp
      <3>5. CASE Fallen(f, p)
        <4>1. u \in Terminal /\ Plain(u, p)
          BY <1>4, <3>1, <3>5, ScrollUp
        <4>2. Good(u, p)
          BY <4>1, PlainIsGood
        <4>3. u.x < COLS
          <5>1. Len(LastLine(p)) = 0
            BY <3>5 DEF Fallen
          <5> QED
            BY <4>1, <5>1, ScreenSize DEF Plain, AtEnd
        <4> QED
          BY <4>1, <4>2, <4>3
      <3> QED
        BY <3>3, <3>4, <3>5
    <2>2. CASE f.y # ROWS
      <3>1. f.y < ROWS /\ u = f
        BY <1>5, <1>6, <2>2, ScreenSize
      <3>2. ~Fallen(f, p)
        BY <2>2 DEF Fallen
      <3> QED
        BY <1>4, <3>1, <3>2
    <2> QED
      BY <2>1, <2>2
  <1>8. PICK s : s = Store(u, c)
    OBVIOUS
  <1>9. PICK q : q = Write(p, c)
    OBVIOUS
  <1>10. s \in Terminal /\ Drawing(s, q, c) /\ PageOK(q) /\ Here(s) = Here(u)
    <2>1. Here(s) = Here(u)
      <3>1. c \in Glyph
        BY GlyphsApart DEF Glyph
      <3> QED
        BY <1>7, <1>8, <3>1, StoreIs DEF Here
    <2>2. c \in {Newline, Output, Typed}
      OBVIOUS
    <2> QED
      BY <1>7, <1>8, <1>9, <2>1, <2>2, StoreStep, WritePage
  <1>11. PICK d : d = DrawChar(s, Here(s), c)
    OBVIOUS
  <1>12. d \in Terminal /\ Drawn(d, q)
    BY <1>10, <1>11, DrawStep
  <1>13. Advance(d) \in Terminal /\ Plain(Advance(d), q)
    BY <1>10, <1>12, AdvanceStep
  <1>14. PrintChar(t, c) = Advance(d)
    BY <1>1, <1>2, <1>5, <1>8, <1>10, <1>11 DEF PrintChar
  <1> QED
    BY <1>9, <1>13, <1>14

LEMMA NewlinePrinted ==
    ASSUME NEW t \in Terminal, NEW p, PageOK(p), Plain(t, p)
    PROVE  PrintChar(t, Newline) \in Terminal /\ Plain(PrintChar(t, Newline), Write(p, Newline))
  <1>1. PICK r : r = [t EXCEPT !.x = 0]
    OBVIOUS
  <1>2. Good(t, p)
    BY PlainIsGood
  <1>3. ~Behind(t)
    <2>1. SUFFICES ASSUME Here(t) \in Cell, t.screen[Here(t)] = Cursor PROVE FALSE
      BY DEF Behind
    <2>2. p.top \in Nat
      BY PageType
    <2>3. TextAt(p.lines, p.top, Here(t)) \in Ink \cup {Blank}
      BY <2>1, <2>2, PageTextType
    <2> QED
      BY <2>1, <2>3, GlyphsApart DEF Plain, Lit
  <1>4. r \in Terminal /\ FedReturn(r, p, TRUE)
    BY <1>1, <1>2, <1>3, ReturnStep
  <1>5. PICK f : f = [r EXCEPT !.y = @ + 1]
    OBVIOUS
  <1>6. PICK q : q = Write(p, Newline)
    OBVIOUS
  <1>7. f \in Terminal /\ (Plain(f, q) \/ Fallen(f, q))
    BY <1>4, <1>5, <1>6, FeedStep
  <1>8. f = Feed(t)
    BY <1>1, <1>5, FeedTwice
  <1>9. PageOK(q)
    BY <1>6, WritePage
  <1>10. ~Hidden(f)
    <2>1. f.drawn = t.drawn
      BY <1>1, <1>5 DEF Terminal
    <2> QED
      BY <2>1, OffScreen DEF Hidden, Plain, Nowhere
  <1>11. PICK u : u = IF f.y >= ROWS THEN Bottom(ScrollFramebuffer(ScrollBuffer(Scrub(f)))) ELSE f
    OBVIOUS
  <1>12. u \in Terminal /\ Plain(u, q)
    <2>1. CASE Fallen(f, q)
      <3>1. f.y >= ROWS
        BY <2>1, ScreenSize DEF Fallen
      <3> QED
        BY <1>7, <1>9, <1>10, <1>11, <2>1, <3>1, ScrollUp
    <2>2. CASE Plain(f, q)
      <3>1. ~(f.y >= ROWS)
        <4>1. Len(q.lines) - q.top \in 1..ROWS /\ Len(q.lines) \in Nat /\ q.top \in Nat
          BY <1>9, PageType
        <4> QED
          BY <2>2, <4>1, ScreenSize DEF Plain, AtEnd
      <3> QED
        BY <1>7, <1>11, <2>2, <3>1
    <2> QED
      BY <1>7, <2>1, <2>2
  <1>13. PrintChar(t, Newline) = u
    BY <1>8, <1>11 DEF PrintChar
  <1> QED
    BY <1>6, <1>12, <1>13

-----------------------------------------------------------------------------
(* screen_clear goes through the cells. *)

LEMMA QuotientUnique ==
    ASSUME NEW M \in Int, M > 0, NEW q \in Int, NEW r \in 0..(M - 1)
    PROVE  (M * q + r) \div M = q /\ (M * q + r) % M = r
  OBVIOUS

LEMMA QuotientIs ==
    ASSUME NEW M \in Int, M > 0, NEW x \in Int
    PROVE  x \div M \in Int /\ x % M \in 0..(M - 1) /\ x = M * (x \div M) + (x % M)
  OBVIOUS

LEMMA ProductOrder ==
    ASSUME NEW m \in Nat, m > 0, NEW a \in Int, NEW b \in Int
    PROVE  /\ m * a \in Int /\ m * b \in Int
           /\ a <= b => m * a <= m * b
           /\ m * (a + 1) = m * a + m /\ m * a = a * m /\ m * 0 = 0
  OBVIOUS

LEMMA PlaceFirst == Place(1) = <<0, 0>>
  <1>1. COLS \in Int /\ COLS > 0 /\ 0 \in 0..(COLS - 1)
    BY ScreenSize
  <1>2. (COLS * 0 + 0) \div COLS = 0 /\ (COLS * 0 + 0) % COLS = 0
    BY <1>1, QuotientUnique
  <1>3. COLS * 0 + 0 = 1 - 1
    BY <1>1
  <1> QED
    BY <1>2, <1>3 DEF Place

LEMMA PlaceInside ==
    ASSUME NEW k \in 1..ROWS * COLS
    PROVE  Place(k) \in Cell
  <1> DEFINE q == (k - 1) \div COLS
             r == (k - 1) % COLS
  <1>1. COLS \in Nat /\ COLS > 0 /\ ROWS \in Nat /\ k - 1 \in Int /\ 0 <= k - 1
    BY ScreenSize
  <1>2. q \in Int /\ r \in 0..(COLS - 1) /\ k - 1 = COLS * q + r
    BY <1>1, QuotientIs
  <1>3. Place(k) = <<q, r>>
    BY DEF Place
  <1> HIDE DEF q, r
  <1>4. PICK s : s = ROWS * COLS
    OBVIOUS
  <1>5. s = COLS * ROWS /\ s \in Int
    BY <1>1, <1>4, ProductOrder
  <1>6. k - 1 < s
    BY <1>4, <1>5
  <1>7. q < ROWS
    <2> SUFFICES ASSUME ~(q < ROWS) PROVE FALSE
      OBVIOUS
    <2>1. COLS * ROWS <= COLS * q
      BY <1>1, <1>2, ProductOrder
    <2>2. PICK z : z = COLS * q
      OBVIOUS
    <2>3. z \in Int /\ s <= z /\ k - 1 = z + r
      BY <1>1, <1>2, <1>5, <2>1, <2>2, ProductOrder
    <2> QED
      BY <1>1, <1>2, <1>5, <1>6, <2>3
  <1>8. q >= 0
    <2> SUFFICES ASSUME ~(q >= 0) PROVE FALSE
      OBVIOUS
    <2>1. q + 1 <= 0
      BY <1>2
    <2>2. COLS * (q + 1) <= COLS * 0 /\ COLS * (q + 1) = COLS * q + COLS /\ COLS * 0 = 0
      BY <1>1, <1>2, <2>1, ProductOrder
    <2>3. PICK z : z = COLS * q
      OBVIOUS
    <2>4. z \in Int /\ z + COLS <= 0 /\ k - 1 = z + r
      BY <1>1, <1>2, <2>2, <2>3, ProductOrder
    <2> QED
      BY <1>1, <1>2, <2>4
  <1> QED
    BY <1>1, <1>2, <1>3, <1>7, <1>8, CellIs

LEMMA PlaceOnto ==
    ASSUME NEW c \in Cell
    PROVE  \E k \in 1..ROWS * COLS : Place(k) = c
  <1>1. COLS \in Nat /\ COLS > 0 /\ ROWS \in Nat
    BY ScreenSize
  <1>2. c = <<c[1], c[2]>> /\ c[1] \in 0..ROWS-1 /\ c[2] \in 0..COLS-1
    BY CellPair
  <1>3. PICK q : q = c[1]
    OBVIOUS
  <1>4. PICK r : r = c[2]
    OBVIOUS
  <1>5. PICK z : z = COLS * q
    OBVIOUS
  <1>6. PICK s : s = COLS * ROWS
    OBVIOUS
  <1>7. s = ROWS * COLS
    BY <1>1, <1>6, ProductOrder
  <1>8. q \in Int /\ 0 <= q /\ q + 1 <= ROWS /\ r \in 0..COLS-1
    BY <1>1, <1>2, <1>3, <1>4
  <1>9. z \in Int /\ 0 <= z /\ z + COLS <= s /\ s \in Int
    <2>1. z \in Int /\ s \in Int
      BY <1>1, <1>5, <1>6, <1>8, ProductOrder
    <2>2. COLS * 0 <= COLS * q /\ COLS * 0 = 0
      BY <1>1, <1>8, ProductOrder
    <2>3. COLS * (q + 1) <= COLS * ROWS /\ COLS * (q + 1) = COLS * q + COLS
      BY <1>1, <1>8, ProductOrder
    <2> QED
      BY <1>5, <1>6, <2>1, <2>2, <2>3
  <1>10. (z + r) \div COLS = q /\ (z + r) % COLS = r
    BY <1>1, <1>5, <1>8, QuotientUnique
  <1>11. PICK k : k = z + r + 1
    OBVIOUS
  <1>12. k \in 1..s /\ k - 1 = z + r
    BY <1>1, <1>8, <1>9, <1>11
  <1>13. Place(k) = c
    BY <1>2, <1>3, <1>4, <1>10, <1>12 DEF Place
  <1> QED
    BY <1>7, <1>12, <1>13

-----------------------------------------------------------------------------
(* The cursor at the end of the text. *)

LEMMA EndInside ==
    ASSUME NEW t \in Terminal, NEW p, PageOK(p), Good(t, p)
    PROVE  /\ t.y < ROWS /\ ~Hidden(t)
           /\ t.x # COLS => /\ Here(t) \in Cell
                            /\ TextAt(p.lines, p.top, Here(t)) = Blank
  <1>1. /\ Len(p.lines) \in Nat /\ p.top \in Nat /\ Len(p.lines) - p.top \in 1..ROWS
        /\ Len(LastLine(p)) \in 0..COLS
    BY PageType
  <1>2. t.y = Len(p.lines) - p.top - 1 /\ t.x = Len(LastLine(p))
    BY DEF Good, AtEnd
  <1>3. t.y < ROWS
    BY <1>1, <1>2, ScreenSize
  <1>4. ~Hidden(t)
    BY <1>1, <1>2, ScreenSize DEF Hidden
  <1>5. ASSUME t.x # COLS
        PROVE  Here(t) \in Cell /\ TextAt(p.lines, p.top, Here(t)) = Blank
    <2>1. Here(t) \in Cell /\ Here(t) = <<t.y, t.x>>
      BY <1>3, <1>5, ScreenSize, TerminalType
    <2>2. Here(t)[1] = t.y /\ Here(t)[2] = t.x
      BY <2>1
    <2>3. p.top + Here(t)[1] + 1 = Len(p.lines) /\ Here(t)[2] >= Len(LastLine(p))
      BY <1>1, <1>2, <2>2
    <2> QED
      BY <1>1, <2>1, <2>3, TextEnds
  <1> QED
    BY <1>3, <1>4, <1>5

LEMMA EndDrawn ==
    ASSUME NEW t \in Terminal, NEW p, PageOK(p), Good(t, p), t.x # COLS, NEW g \in {Blank, Cursor}
    PROVE  LET u == DrawChar(t, Here(t), g)
           IN  /\ u \in Terminal /\ u.drawn \in Nowhere /\ u.screen[Here(t)] = g
               /\ Good(u, p) /\ (g = Blank => Plain(u, p))
  <1>1. PICK u : u = DrawChar(t, Here(t), g)
    OBVIOUS
  <1>2. Here(t) \in Cell /\ TextAt(p.lines, p.top, Here(t)) = Blank
    BY EndInside
  <1>3. g \in Glyph
    BY DEF Glyph
  <1>4. /\ u \in Terminal /\ u.x = t.x /\ u.y = t.y
        /\ u.drawn = IF t.drawn = Here(t) THEN None ELSE t.drawn
        /\ \A c \in Cell : u.screen[c] = IF c = Here(t) THEN g ELSE t.screen[c]
    BY <1>1, <1>2, <1>3, DrawIn
  <1>5. AtEnd(u, p) /\ Here(u) = Here(t)
    BY <1>4 DEF AtEnd, Good, Here
  <1>6. u.drawn \in Nowhere
    BY <1>4 DEF Good, Known, Nowhere
  <1>7. \A c \in Cell : c # Here(t) => u.screen[c] = TextAt(p.lines, p.top, c)
    BY <1>4 DEF Good, Lit
  <1>8. u.screen[Here(t)] = g
    BY <1>2, <1>4
  <1>9. Good(u, p)
    BY <1>2, <1>5, <1>6, <1>7, <1>8 DEF Good, Lit, Known
  <1>10. g = Blank => Plain(u, p)
    BY <1>2, <1>5, <1>6, <1>7, <1>8 DEF Plain, Lit
  <1> QED
    BY <1>1, <1>4, <1>6, <1>8, <1>9, <1>10

LEMMA ClearCursorStep ==
    ASSUME NEW t \in Terminal, NEW p, PageOK(p), Good(t, p), t.x # COLS
    PROVE  DoClearCursor(t) \in Terminal /\ Plain(DoClearCursor(t), p)
  <1>1. PICK d : d = DrawChar(t, Here(t), Blank)
    OBVIOUS
  <1>2. d \in Terminal /\ Plain(d, p)
    BY <1>1, EndDrawn
  <1>3. PICK u : u = [d EXCEPT !.blink = FALSE]
    OBVIOUS
  <1>4. u \in Terminal /\ u.x = d.x /\ u.y = d.y /\ u.drawn = d.drawn /\ u.screen = d.screen
    BY <1>2, <1>3 DEF Terminal
  <1>5. u = DoClearCursor(t)
    BY <1>1, <1>3 DEF DoClearCursor
  <1> QED
    BY <1>2, <1>4, <1>5 DEF Plain, AtEnd, Lit

(* BACKSPACE: the last letter is taken off, and the cursor shown in its place. *)
LEMMA RubOut ==
    ASSUME NEW t \in Terminal, NEW p, PageOK(p), TailOK(p), p.tail > 0, Good(t, p), t.x # COLS
    PROVE  LET u == DoBackspace(t)
           IN  u \in Terminal /\ Good(u, Erase(p)) /\ u.x # COLS
  <1>1. PICK q : q = Erase(p)
    OBVIOUS
  <1>2. PICK n : n = Len(p.lines)
    OBVIOUS
  <1>3. PICK e : e = Len(LastLine(p))
    OBVIOUS
  <1>4. PICK m : m = IF e = 0 THEN n - 1 ELSE n
    OBVIOUS
  <1>5. PICK f : f = IF e = 0 THEN COLS ELSE e
    OBVIOUS
  <1>6. n \in Nat \ {0} /\ p.top \in Nat /\ n - p.top \in 1..ROWS /\ e \in 0..COLS
    BY <1>2, <1>3, PageType
  <1>7. /\ q.top = p.top /\ m \in Nat \ {0} /\ m > p.top /\ f \in 1..COLS
        /\ p.lines[m] \in Seq(Ink) /\ Len(p.lines[m]) = f
        /\ Len(q.lines) = m /\ LastLine(q) = SubSeq(p.lines[m], 1, f - 1)
    BY <1>1, <1>2, <1>3, <1>4, <1>5, EraseIs
  <1>8. Len(LastLine(q)) = f - 1
    BY <1>7
  <1>9. t.y = n - p.top - 1 /\ t.x = e
    BY <1>2, <1>3 DEF Good, AtEnd
  <1>10. PICK b : b = IF t.x > 0 THEN [t EXCEPT !.x = @ - 1] ELSE [t EXCEPT !.y = @ - 1, !.x = COLS - 1]
    OBVIOUS
  <1>11. /\ b \in Terminal /\ b.x = f - 1 /\ b.y = m - p.top - 1
         /\ b.screen = t.screen /\ b.drawn = t.drawn /\ b.blink = t.blink
    <2>1. CASE e = 0
      <3>1. t.y - 1 \in 0..ROWS /\ COLS - 1 \in 0..COLS /\ t.y - 1 = m - p.top - 1 /\ f = COLS
        BY <1>4, <1>5, <1>6, <1>7, <1>9, <2>1, ScreenSize
      <3>2. b = [t EXCEPT !.y = @ - 1, !.x = COLS - 1]
        BY <1>9, <1>10, <2>1
      <3> QED
        BY <3>1, <3>2 DEF Terminal
    <2>2. CASE e # 0
      <3>1. t.x - 1 \in 0..COLS /\ t.x - 1 = f - 1 /\ t.y = m - p.top - 1
        BY <1>4, <1>5, <1>6, <1>9, <2>2, ScreenSize
      <3>2. b = [t EXCEPT !.x = @ - 1]
        BY <1>6, <1>9, <1>10, <2>2
      <3> QED
        BY <3>1, <3>2 DEF Terminal
    <2> QED
      BY <2>1, <2>2
  <1>12. Here(b) \in Cell /\ Here(b) = <<m - p.top - 1, f - 1>> /\ b.x # COLS
    <2>1. b.x # COLS /\ b.y # ROWS
      BY <1>4, <1>6, <1>7, <1>11, ScreenSize
    <2> QED
      BY <1>11, <2>1, TerminalType
  <1>13. Here(t) \in Cell /\ TextAt(p.lines, p.top, Here(t)) = Blank
    BY EndInside
  <1>14. Here(t) # <<0, 0>>
    <2>1. t.y # 0 \/ t.x # 0
      BY <1>4, <1>6, <1>7, <1>9, ScreenSize
    <2> QED
      BY <2>1 DEF Here
  <1>15. Blank \in Glyph
    BY DEF Glyph
  <1>16. PICK d : d = DrawChar(b, Here(t), Blank)
    OBVIOUS
  <1>17. /\ d \in Terminal /\ d.x = b.x /\ d.y = b.y
         /\ d.drawn = IF b.drawn = Here(t) THEN None ELSE b.drawn
         /\ \A c \in Cell : d.screen[c] = IF c = Here(t) THEN Blank ELSE b.screen[c]
    BY <1>11, <1>13, <1>15, <1>16, DrawIn
  <1>18. PICK v : v = DrawChar(d, Here(b), Blank)
    OBVIOUS
  <1>19. /\ v \in Terminal /\ v.x = d.x /\ v.y = d.y
         /\ v.drawn = IF d.drawn = Here(b) THEN None ELSE d.drawn
         /\ \A c \in Cell : v.screen[c] = IF c = Here(b) THEN Blank ELSE d.screen[c]
    BY <1>12, <1>15, <1>17, <1>18, DrawIn
  <1>20. v.drawn \in Nowhere
    BY <1>11, <1>17, <1>19 DEF Good, Known, Nowhere
  <1>21. \A c \in Cell : v.screen[c] = TextAt(q.lines, q.top, c)
    <2> SUFFICES ASSUME NEW c \in Cell
                 PROVE  v.screen[c] = TextAt(q.lines, q.top, c)
      OBVIOUS
    <2>1. m - 1 - p.top = m - p.top - 1
      BY <1>6, <1>7
    <2>2. TextAt(q.lines, q.top, c) = IF c = Here(b) THEN Blank ELSE TextAt(p.lines, p.top, c)
      <3>1. q.top \in Nat /\ q.top = p.top
        BY <1>6, <1>7
      <3>2. TextAt(q.lines, q.top, c) = IF c = <<Len(q.lines) - 1 - q.top, Len(LastLine(q))>> THEN Blank
                                        ELSE TextAt(p.lines, q.top, c)
        BY <1>1, <3>1, EraseText
      <3>3. <<Len(q.lines) - 1 - q.top, Len(LastLine(q))>> = Here(b)
        BY <1>7, <1>8, <1>12, <2>1, <3>1
      <3> QED
        BY <3>1, <3>2, <3>3
    <2>3. c # Here(t) => t.screen[c] = TextAt(p.lines, p.top, c)
      BY DEF Good, Lit
    <2> QED
      BY <1>11, <1>13, <1>17, <1>19, <2>2, <2>3
  <1>22. Plain(v, q)
    <2>1. AtEnd(v, q)
      BY <1>7, <1>8, <1>11, <1>17, <1>19 DEF AtEnd
    <2> QED
      BY <1>20, <1>21, <2>1 DEF Plain, Lit
  <1>23. PageOK(q) /\ Good(v, q) /\ v.x # COLS /\ Here(v) = Here(b)
    BY <1>1, <1>12, <1>17, <1>19, <1>22, ErasePage, PlainIsGood DEF Here
  <1>24. DoBackspace(t) = IF t.blink THEN DrawChar(v, Here(b), Cursor) ELSE v
    BY <1>10, <1>14, <1>16, <1>18 DEF DoBackspace
  <1>25. CASE t.blink
    <2>1. PICK w : w = DrawChar(v, Here(v), Cursor)
      OBVIOUS
    <2>2. w \in Terminal /\ Good(w, q)
      BY <1>19, <1>23, <2>1, EndDrawn
    <2>3. w.x # COLS
      BY <1>23, <2>2 DEF Good, AtEnd
    <2>4. w = DoBackspace(t)
      BY <1>23, <1>24, <1>25, <2>1
    <2> QED
      BY <1>1, <2>2, <2>3, <2>4
  <1>26. CASE ~t.blink
    BY <1>1, <1>19, <1>23, <1>24, <1>26
  <1> QED
    BY <1>25, <1>26

-----------------------------------------------------------------------------
(* A blink, at each statement of the command. *)

LEMMA BlinkIs ==
    ASSUME NEW t \in Terminal, t.x # COLS, t.y = ROWS => t.x = 0
    PROVE  LET u == BlinkCursor(t)
           IN  /\ u \in Terminal /\ u.x = t.x /\ u.y = t.y /\ u.buf = t.buf /\ Here(u) = Here(t)
               /\ Known(u, {Here(t)})
               /\ \A c \in Cell : IF c = Here(t) THEN u.screen[c] \in {Blank, Cursor}
                                  ELSE u.screen[c] = t.screen[c]
  <1>1. PICK g : g = IF t.blink THEN Blank ELSE Cursor
    OBVIOUS
  <1>2. PICK d : d = DrawChar(t, Here(t), g)
    OBVIOUS
  <1>3. g \in Glyph /\ g \in {Blank, Cursor}
    BY <1>1 DEF Glyph
  <1>4. Here(t) \in Cell \/ (Here(t) = <<ROWS, 0>> /\ Here(t) \notin Cell)
    <2>1. Here(t) = <<t.y, t.x>> /\ (t.y # ROWS => Here(t) \in Cell)
      BY TerminalType
    <2> QED
      BY <2>1, OffScreen
  <1>5. /\ d \in Terminal /\ d.x = t.x /\ d.y = t.y /\ d.buf = t.buf
        /\ \A c \in Cell : d.screen[c] = IF c = Here(t) THEN g ELSE t.screen[c]
    <2>1. CASE Here(t) \in Cell
      BY <1>2, <1>3, <2>1, DrawIn
    <2>2. CASE Here(t) = <<ROWS, 0>> /\ Here(t) \notin Cell
      BY <1>2, <1>3, <2>2, DrawOut
    <2> QED
      BY <1>4, <2>1, <2>2
  <1>6. PICK u : u = BlinkCursor(t)
    OBVIOUS
  <1>7. u = IF t.blink THEN [d EXCEPT !.blink = FALSE, !.drawn = None]
            ELSE [d EXCEPT !.blink = TRUE, !.drawn = Here(t)]
    BY <1>1, <1>2, <1>6 DEF BlinkCursor
  <1>8. /\ u \in Terminal /\ u.x = d.x /\ u.y = d.y /\ u.buf = d.buf /\ u.screen = d.screen
        /\ u.drawn = IF t.blink THEN None ELSE Here(t)
    <2>1. CASE t.blink
      <3>1. u = [d EXCEPT !.blink = FALSE, !.drawn = None]
        BY <1>7, <2>1
      <3>2. None \in Cell \cup Nowhere
        BY DEF Nowhere
      <3> QED
        BY <1>5, <2>1, <3>1, <3>2 DEF Terminal
    <2>2. CASE ~t.blink
      <3>1. u = [d EXCEPT !.blink = TRUE, !.drawn = Here(t)]
        BY <1>7, <2>2
      <3>2. Here(t) \in Cell \cup Nowhere
        BY <1>4 DEF Nowhere
      <3> QED
        BY <1>5, <2>2, <3>1, <3>2 DEF Terminal
    <2> QED
      BY <2>1, <2>2
  <1>9. Here(u) = Here(t)
    BY <1>5, <1>8 DEF Here
  <1>10. Known(u, {Here(t)})
    <2>1. CASE t.blink
      BY <1>8, <2>1 DEF Known, Nowhere
    <2>2. CASE ~t.blink
      <3>1. Here(t) \in Cell => u.screen[Here(t)] = Cursor
        BY <1>1, <1>5, <1>8, <2>2
      <3>2. Here(t) \notin Cell => Here(t) \in Nowhere
        BY <1>4 DEF Nowhere
      <3> QED
        BY <1>8, <2>2, <3>1, <3>2 DEF Known
    <2> QED
      BY <2>1, <2>2
  <1> QED
    BY <1>3, <1>5, <1>6, <1>8, <1>9, <1>10

LEMMA BlinkGood ==
    ASSUME NEW t \in Terminal, NEW p, PageOK(p), Good(t, p), t.x # COLS
    PROVE  Good(BlinkCursor(t), p) /\ BlinkCursor(t).x = t.x
  <1>1. PICK u : u = BlinkCursor(t)
    OBVIOUS
  <1>2. t.y < ROWS /\ Here(t) \in Cell /\ TextAt(p.lines, p.top, Here(t)) = Blank
    BY EndInside
  <1>3. t.y # ROWS
    BY <1>2, ScreenSize
  <1>4. /\ u.x = t.x /\ u.y = t.y /\ Here(u) = Here(t) /\ Known(u, {Here(t)})
        /\ \A c \in Cell : IF c = Here(t) THEN u.screen[c] \in {Blank, Cursor}
                           ELSE u.screen[c] = t.screen[c]
    BY <1>1, <1>3, BlinkIs
  <1>5. Lit(u, p.lines, p.top, {Here(u)})
    BY <1>2, <1>4 DEF Good, Lit
  <1>6. AtEnd(u, p)
    BY <1>4 DEF Good, AtEnd
  <1> QED
    BY <1>1, <1>4, <1>5, <1>6 DEF Good

LEMMA BlinkFed ==
    ASSUME NEW t \in Terminal, NEW p, PageOK(p), Fed(t, p)
    PROVE  Fed(BlinkCursor(t), p) /\ BlinkCursor(t).y = t.y
  <1>1. PICK u : u = BlinkCursor(t)
    OBVIOUS
  <1>2. PICK n : n = Len(p.lines)
    OBVIOUS
  <1>3. n \in Nat /\ p.top \in Nat /\ n - p.top \in 1..ROWS
    BY <1>2, PageType
  <1>4. /\ t.x = 0 /\ Len(LastLine(p)) = COLS
        /\ t.y = n - p.top \/ (t.y = ROWS - 1 /\ n - p.top = ROWS)
        /\ Lit(t, p.lines, n - t.y, {Here(t)}) /\ Known(t, {Here(t)})
    BY <1>2 DEF Fed
  <1>5. t.x # COLS
    BY <1>4, ScreenSize
  <1>6. /\ u.x = t.x /\ u.y = t.y /\ Here(u) = Here(t) /\ Known(u, {Here(t)})
        /\ \A c \in Cell : IF c = Here(t) THEN u.screen[c] \in {Blank, Cursor}
                           ELSE u.screen[c] = t.screen[c]
    BY <1>1, <1>4, <1>5, BlinkIs
  <1>7. Here(t) \in Cell => TextAt(p.lines, n - t.y, Here(t)) = Blank
    <2> SUFFICES ASSUME Here(t) \in Cell
                 PROVE  TextAt(p.lines, n - t.y, Here(t)) = Blank
      OBVIOUS
    <2>1. Here(t)[1] = t.y
      BY DEF Here
    <2>2. n - t.y \in Int /\ (n - t.y) + Here(t)[1] + 1 > n
      BY <1>3, <2>1, TerminalType, ScreenSize
    <2> QED
      BY <1>2, <2>2, TextEnds
  <1>8. Lit(u, p.lines, n - u.y, {Here(u)})
    BY <1>4, <1>6, <1>7 DEF Lit
  <1> QED
    BY <1>1, <1>2, <1>4, <1>6, <1>8 DEF Fed

(* Below the screen a blink shows nothing. *)
LEMMA BlinkBelow ==
    ASSUME NEW t \in Terminal, t.x = 0, t.y = ROWS
    PROVE  LET u == BlinkCursor(t)
           IN  /\ u.x = t.x /\ u.y = t.y /\ u.drawn \in Nowhere
               /\ \A c \in Cell : u.screen[c] = t.screen[c]
  <1>1. t.x # COLS
    BY ScreenSize
  <1>2. Here(t) \notin Cell
    BY TerminalType
  <1> QED
    BY <1>1, <1>2, BlinkIs DEF Known

LEMMA BlinkFallen ==
    ASSUME NEW t \in Terminal, NEW p, Fallen(t, p), t.drawn \notin Cell
    PROVE  Fallen(BlinkCursor(t), p)
  <1>1. /\ t.x = 0 /\ t.y = ROWS /\ p.top > 0 /\ Len(p.lines) = p.top + ROWS /\ LastLine(p) = <<>>
        /\ Lit(t, p.lines, p.top - 1, {t.drawn})
    BY DEF Fallen
  <1>2. PICK u : u = BlinkCursor(t)
    OBVIOUS
  <1>3. /\ u.x = t.x /\ u.y = t.y /\ u.drawn \in Nowhere
        /\ \A c \in Cell : u.screen[c] = t.screen[c]
    BY <1>1, <1>2, BlinkBelow
  <1>4. Lit(u, p.lines, p.top - 1, {u.drawn}) /\ Known(u, {u.drawn})
    BY <1>1, <1>3 DEF Lit, Known
  <1> QED
    BY <1>1, <1>2, <1>3, <1>4 DEF Fallen

LEMMA BlinkScrolled ==
    ASSUME NEW t \in Terminal, NEW p, NEW newline \in BOOLEAN, NEW above, Scrolled(t, p, newline, above)
    PROVE  Scrolled(BlinkCursor(t), p, newline, above)
  <1>1. t.x = 0 /\ t.y = ROWS
    BY DEF Scrolled
  <1>2. PICK u : u = BlinkCursor(t)
    OBVIOUS
  <1>3. /\ u.x = t.x /\ u.y = t.y /\ u.drawn \in Nowhere
        /\ \A c \in Cell : u.screen[c] = t.screen[c]
    BY <1>1, <1>2, BlinkBelow
  <1> QED
    BY <1>2, <1>3 DEF Scrolled, Lit

LEMMA BlinkDrawing ==
    ASSUME NEW t \in Terminal, NEW p, NEW c, PageOK(p), Drawing(t, p, c), t.x # COLS
    PROVE  Drawing(BlinkCursor(t), p, c)
  <1>1. t.y # ROWS
    <2>1. Len(p.lines) - p.top \in 1..ROWS /\ Len(p.lines) \in Nat /\ p.top \in Nat
      BY PageType
    <2> QED
      BY <2>1, ScreenSize DEF Drawing, AtLast
  <1>2. PICK u : u = BlinkCursor(t)
    OBVIOUS
  <1>3. /\ u.x = t.x /\ u.y = t.y /\ Here(u) = Here(t) /\ Known(u, {Here(t)})
        /\ \A a \in Cell : a # Here(t) => u.screen[a] = t.screen[a]
    BY <1>1, <1>2, BlinkIs
  <1>4. u.drawn \in Nowhere \cup {Here(u)}
    BY <1>3 DEF Known
  <1> QED
    BY <1>2, <1>3, <1>4 DEF Drawing, AtLast

LEMMA BlinkRedrawn ==
    ASSUME NEW t \in Terminal, NEW k, Redrawn(t, k), t.x # COLS, \A n \in 1..k - 1 : Place(n) # Here(t)
    PROVE  Redrawn(BlinkCursor(t), k)
  <1>1. t.y # ROWS
    BY ScreenSize DEF Redrawn
  <1>2. PICK u : u = BlinkCursor(t)
    OBVIOUS
  <1>3. /\ u.x = t.x /\ u.y = t.y /\ u.buf = t.buf /\ Here(u) = Here(t) /\ Known(u, {Here(t)})
        /\ \A a \in Cell : a # Here(t) => u.screen[a] = t.screen[a]
    BY <1>1, <1>2, BlinkIs
  <1>4. \A n \in 1..k - 1 : u.screen[Place(n)] = Blank
    <2> SUFFICES ASSUME NEW n \in 1..k - 1
                 PROVE  u.screen[Place(n)] = Blank
      OBVIOUS
    <2>1. Place(n) \in Cell
      <3>1. PICK s : s = ROWS * COLS
        OBVIOUS
      <3>2. s \in Nat
        BY <3>1, ScreenSize, ProductOrder
      <3>3. k \in 1..s + 1
        BY <3>1 DEF Redrawn
      <3>4. n \in 1..s
        BY <3>2, <3>3
      <3> QED
        BY <3>1, <3>4, PlaceInside
    <2> QED
      BY <1>3, <2>1 DEF Redrawn
  <1>5. u.drawn \in Nowhere \/ (u.drawn = Here(u) /\ \A n \in 1..k - 1 : Place(n) # u.drawn)
    BY <1>3 DEF Known
  <1> QED
    BY <1>2, <1>3, <1>4, <1>5 DEF Redrawn

LEMMA BlinkRuled ==
    ASSUME NEW t \in Terminal, NEW k, Ruled(t, k), \A n \in 1..k - 1 : Place(n) # Here(t)
    PROVE  Ruled(BlinkCursor(t), k)
  <1>1. t.x = 0 /\ t.y = 0 /\ k \in 1..COLS + 1
    BY DEF Ruled
  <1>2. t.x # COLS /\ t.y # ROWS /\ Here(t) = <<0, 0>>
    BY <1>1, ScreenSize, TerminalType
  <1>3. k = 1
    <2>1. Place(1) = <<0, 0>>
      BY PlaceFirst
    <2>2. SUFFICES ASSUME k # 1 PROVE FALSE
      OBVIOUS
    <2>3. 1 \in 1..k - 1
      BY <1>1, <2>2, ScreenSize
    <2> QED
      BY <1>2, <2>1, <2>3
  <1>4. PICK u : u = BlinkCursor(t)
    OBVIOUS
  <1>5. /\ u.x = t.x /\ u.y = t.y /\ Known(u, {Here(t)})
        /\ \A a \in Cell : a # Here(t) => u.screen[a] = t.screen[a]
    BY <1>2, <1>4, BlinkIs
  <1>6. u.drawn \in Nowhere \/ u.drawn = <<0, 0>>
    BY <1>2, <1>5 DEF Known
  <1> QED
    BY <1>1, <1>2, <1>3, <1>4, <1>5, <1>6 DEF Ruled

-----------------------------------------------------------------------------
(* clear, statement by statement. *)

LEMMA FirstPlace == 1 \in 1..ROWS * COLS + 1
  <1>1. PICK s : s = ROWS * COLS
    OBVIOUS
  <1>2. s \in Int
    BY <1>1, ScreenSize, ProductOrder
  <1>3. COLS * 0 <= COLS * ROWS /\ COLS * 0 = 0 /\ COLS * ROWS = ROWS * COLS
    BY ScreenSize, ProductOrder
  <1> QED
    BY <1>1, <1>2, <1>3

LEMMA NothingEmptied == \A t : Emptied(t, 1)
  <1>1. \A n : n \notin 1..1 - 1
    OBVIOUS
  <1> QED
    BY <1>1, FirstPlace DEF Emptied

LEMMA EmptyStep ==
    ASSUME NEW t \in Terminal, NEW p, Good(t, p), NEW k, Emptied(t, k), ~(k > ROWS * COLS)
    PROVE  LET u == [t EXCEPT !.buf[Place(k)] = Blank]
           IN  u \in Terminal /\ Good(u, p) /\ Emptied(u, k + 1)
  <1>1. PICK s : s = ROWS * COLS
    OBVIOUS
  <1>2. s \in Nat
    BY <1>1, ScreenSize, ProductOrder
  <1>3. k \in 1..s /\ k + 1 \in 1..s + 1
    BY <1>1, <1>2 DEF Emptied
  <1>4. Place(k) \in Cell
    BY <1>1, <1>3, PlaceInside
  <1>5. PICK b : b = [t.buf EXCEPT ![Place(k)] = Blank]
    OBVIOUS
  <1>6. t.buf \in [Cell -> Glyph] /\ Blank \in Glyph
    BY DEF Terminal, Glyph
  <1>7. b \in [Cell -> Glyph] /\ \A c \in Cell : b[c] = IF c = Place(k) THEN Blank ELSE t.buf[c]
    BY <1>4, <1>5, <1>6
  <1>8. PICK u : u = [t EXCEPT !.buf = b]
    OBVIOUS
  <1>9. /\ u \in Terminal /\ u.buf = b /\ u.x = t.x /\ u.y = t.y
        /\ u.screen = t.screen /\ u.drawn = t.drawn
    BY <1>7, <1>8 DEF Terminal
  <1>10. Good(u, p)
    <2>1. Here(u) = Here(t)
      BY <1>9 DEF Here
    <2> QED
      BY <1>9, <2>1 DEF Good, AtEnd, Lit, Known
  <1>11. \A n \in 1..(k + 1) - 1 : u.buf[Place(n)] = Blank
    <2>1. \A n \in 1..(k + 1) - 1 : (n = k \/ n \in 1..k - 1) /\ n \in 1..s
      BY <1>2, <1>3
    <2>2. \A n \in 1..(k + 1) - 1 : Place(n) \in Cell
      BY <1>1, <2>1, PlaceInside
    <2> QED
      BY <1>7, <1>9, <2>1, <2>2 DEF Emptied
  <1>12. Emptied(u, k + 1)
    BY <1>1, <1>3, <1>11 DEF Emptied
  <1>13. u = [t EXCEPT !.buf[Place(k)] = Blank]
    BY <1>5, <1>8
  <1> QED
    BY <1>9, <1>10, <1>12, <1>13

LEMMA EmptyEnd ==
    ASSUME NEW t \in Terminal, NEW p, PageOK(p), Good(t, p), NEW k, Emptied(t, k), k > ROWS * COLS
    PROVE  Redrawn(t, 1)
  <1>1. PICK s : s = ROWS * COLS
    OBVIOUS
  <1>2. s \in Nat
    BY <1>1, ScreenSize, ProductOrder
  <1>3. k = s + 1
    BY <1>1, <1>2 DEF Emptied
  <1>4. 1..k - 1 = 1..s
    BY <1>2, <1>3
  <1>5. \A c \in Cell : \E n \in 1..k - 1 : Place(n) = c
    BY <1>1, <1>4, PlaceOnto
  <1>6. \A c \in Cell : t.buf[c] = Blank
    BY <1>5 DEF Emptied
  <1>7. t.y < ROWS
    BY EndInside
  <1>8. t.drawn \in Nowhere \/ t.drawn = Here(t)
    BY DEF Good, Known
  <1>9. \A n : n \notin 1..1 - 1
    OBVIOUS
  <1> QED
    BY <1>6, <1>7, <1>8, <1>9, FirstPlace DEF Redrawn

LEMMA RedrawStep ==
    ASSUME NEW t \in Terminal, NEW k, Redrawn(t, k), ~(k > ROWS * COLS)
    PROVE  LET u == DrawChar(t, Place(k), t.buf[Place(k)])
           IN  u \in Terminal /\ Redrawn(u, k + 1)
  <1>1. PICK s : s = ROWS * COLS
    OBVIOUS
  <1>2. s \in Nat
    BY <1>1, ScreenSize, ProductOrder
  <1>3. k \in 1..s /\ k + 1 \in 1..s + 1
    BY <1>1, <1>2 DEF Redrawn
  <1>4. Place(k) \in Cell
    BY <1>1, <1>3, PlaceInside
  <1>5. t.buf[Place(k)] = Blank /\ Blank \in Glyph
    BY <1>4 DEF Redrawn, Glyph
  <1>6. PICK u : u = DrawChar(t, Place(k), Blank)
    OBVIOUS
  <1>7. /\ u \in Terminal /\ u.x = t.x /\ u.y = t.y /\ u.buf = t.buf
        /\ u.drawn = IF t.drawn = Place(k) THEN None ELSE t.drawn
        /\ \A c \in Cell : u.screen[c] = IF c = Place(k) THEN Blank ELSE t.screen[c]
    BY <1>4, <1>5, <1>6, DrawIn
  <1>8. \A n \in 1..(k + 1) - 1 : n = k \/ n \in 1..k - 1
    BY <1>3
  <1>9. \A n \in 1..k - 1 : Place(n) \in Cell
    <2> SUFFICES ASSUME NEW n \in 1..k - 1
                 PROVE  Place(n) \in Cell
      OBVIOUS
    <2>1. n \in 1..s
      BY <1>2, <1>3
    <2> QED
      BY <1>1, <2>1, PlaceInside
  <1>10. \A n \in 1..(k + 1) - 1 : u.screen[Place(n)] = Blank
    <2>1. \A n \in 1..k - 1 : u.screen[Place(n)] = Blank
      BY <1>7, <1>9 DEF Redrawn
    <2>2. u.screen[Place(k)] = Blank
      BY <1>4, <1>7
    <2> QED
      BY <1>8, <2>1, <2>2
  <1>11. u.drawn \in Nowhere \/ (u.drawn = Here(u) /\ \A n \in 1..(k + 1) - 1 : Place(n) # u.drawn)
    <2>1. Here(u) = Here(t)
      BY <1>7 DEF Here
    <2>2. CASE t.drawn = Place(k) \/ t.drawn \in Nowhere
      BY <1>7, <2>2 DEF Nowhere
    <2>3. CASE t.drawn # Place(k) /\ t.drawn \notin Nowhere
      <3>1. u.drawn = t.drawn /\ t.drawn = Here(t) /\ \A n \in 1..k - 1 : Place(n) # t.drawn
        BY <1>7, <2>3 DEF Redrawn
      <3> QED
        BY <1>8, <2>1, <2>3, <3>1
    <2> QED
      BY <2>2, <2>3
  <1>12. u.y < ROWS /\ \A c \in Cell : u.buf[c] = Blank
    BY <1>7 DEF Redrawn
  <1>13. Redrawn(u, k + 1)
    BY <1>1, <1>3, <1>10, <1>11, <1>12 DEF Redrawn
  <1> QED
    BY <1>5, <1>6, <1>7, <1>13

LEMMA RedrawEnd ==
    ASSUME NEW t \in Terminal, NEW k, Redrawn(t, k), k > ROWS * COLS
    PROVE  Cleared(t)
  <1>1. PICK s : s = ROWS * COLS
    OBVIOUS
  <1>2. s \in Nat
    BY <1>1, ScreenSize, ProductOrder
  <1>3. k = s + 1
    BY <1>1, <1>2 DEF Redrawn
  <1>4. 1..k - 1 = 1..s
    BY <1>2, <1>3
  <1>5. \A c \in Cell : \E n \in 1..k - 1 : Place(n) = c
    BY <1>1, <1>4, PlaceOnto
  <1>6. \A c \in Cell : t.screen[c] = Blank
    BY <1>5 DEF Redrawn
  <1>7. t.drawn \in Nowhere
    BY <1>5, TerminalType DEF Redrawn
  <1> QED
    BY <1>6, <1>7 DEF Cleared

LEMMA HomeStep ==
    ASSUME NEW t \in Terminal, Cleared(t)
    PROVE  LET u == [t EXCEPT !.x = 0]
           IN  u \in Terminal /\ Cleared(u) /\ u.x = 0
  <1>1. PICK u : u = [t EXCEPT !.x = 0]
    OBVIOUS
  <1>2. 0 \in 0..COLS
    BY ScreenSize
  <1>3. u \in Terminal /\ u.x = 0 /\ u.screen = t.screen /\ u.drawn = t.drawn
    BY <1>1, <1>2 DEF Terminal
  <1> QED
    BY <1>1, <1>3 DEF Cleared

LEMMA TopStep ==
    ASSUME NEW t \in Terminal, Cleared(t), t.x = 0
    PROVE  LET u == [t EXCEPT !.y = 0]
           IN  u \in Terminal /\ Ruled(u, 1)
  <1>1. PICK u : u = [t EXCEPT !.y = 0]
    OBVIOUS
  <1>2. 0 \in 0..ROWS /\ 1 \in 1..COLS + 1
    BY ScreenSize
  <1>3. u \in Terminal /\ u.x = 0 /\ u.y = 0 /\ u.screen = t.screen /\ u.drawn = t.drawn
    BY <1>1, <1>2 DEF Terminal
  <1>4. \A c \in Cell : ~(c[2] < 1 - 1)
    BY CellPair, ScreenSize
  <1> QED
    BY <1>1, <1>2, <1>3, <1>4 DEF Cleared, Ruled

LEMMA RuleStep ==
    ASSUME NEW t \in Terminal, NEW k, Ruled(t, k), k <= COLS
    PROVE  LET u == DrawChar(t, <<t.y, k - 1>>, Bar)
           IN  u \in Terminal /\ Ruled(u, k + 1)
  <1>1. t.x = 0 /\ t.y = 0 /\ k \in 1..COLS /\ k + 1 \in 1..COLS + 1
    BY ScreenSize DEF Ruled
  <1>2. PICK a : a = <<0, k - 1>>
    OBVIOUS
  <1>3. a \in Cell /\ a[1] = 0 /\ a[2] = k - 1
    <2>1. 0 \in 0..ROWS-1 /\ k - 1 \in 0..COLS-1
      BY <1>1, ScreenSize
    <2> QED
      BY <1>2, <2>1, CellIs
  <1>4. Bar \in Glyph
    BY DEF Glyph, Ink
  <1>5. PICK u : u = DrawChar(t, a, Bar)
    OBVIOUS
  <1>6. /\ u \in Terminal /\ u.x = 0 /\ u.y = 0
        /\ u.drawn = IF t.drawn = a THEN None ELSE t.drawn
        /\ \A c \in Cell : u.screen[c] = IF c = a THEN Bar ELSE t.screen[c]
    BY <1>1, <1>3, <1>4, <1>5, DrawIn
  <1>7. u.drawn \in Nowhere
    <2>1. CASE t.drawn \in Nowhere
      BY <1>6, <2>1 DEF Nowhere
    <2>2. CASE t.drawn \notin Nowhere
      <3>1. t.drawn = <<0, 0>> /\ k = 1
        BY <2>2 DEF Ruled
      <3>2. t.drawn = a
        BY <1>2, <3>1
      <3> QED
        BY <1>6, <3>2 DEF Nowhere
    <2> QED
      BY <2>1, <2>2
  <1>8. ASSUME NEW c \in Cell
        PROVE  u.screen[c] = IF c[1] = 0 /\ c[2] < (k + 1) - 1 THEN Bar ELSE Blank
    <2>1. c = <<c[1], c[2]>> /\ c[1] \in Nat /\ c[2] \in Nat
      BY CellPair, ScreenSize
    <2>2. CASE c = a
      <3>1. c[1] = 0 /\ c[2] < (k + 1) - 1
        BY <1>1, <1>3, <2>2
      <3> QED
        BY <1>6, <2>2, <3>1
    <2>3. CASE c # a
      <3>1. ~(c[1] = 0 /\ c[2] = k - 1)
        BY <1>2, <2>1, <2>3
      <3>2. c[1] = 0 => (c[2] < (k + 1) - 1 <=> c[2] < k - 1)
        BY <1>1, <2>1, <3>1
      <3>3. ~(c = <<0, 0>> /\ k = 1)
        BY <1>2, <2>3
      <3>4. t.screen[c] = IF c[1] = 0 /\ c[2] < k - 1 THEN Bar ELSE Blank
        BY <3>3 DEF Ruled
      <3>5. u.screen[c] = t.screen[c]
        BY <1>6, <2>3
      <3> QED
        BY <3>2, <3>4, <3>5
    <2> QED
      BY <2>2, <2>3
  <1>9. Ruled(u, k + 1)
    BY <1>1, <1>6, <1>7, <1>8 DEF Ruled
  <1> QED
    BY <1>1, <1>2, <1>5, <1>6, <1>9

LEMMA TitlePlace ==
    /\ TitleAt \in Cell /\ TitleAt[1] = 0 /\ TitleAt[2] \in 0..COLS-1
    /\ \A c \in Cell : c = TitleAt <=> c[1] = 0 /\ c[2] = TitleAt[2]
  <1>1. PICK m : m = (COLS - 1) \div 2
    OBVIOUS
  <1>2. m \in 0..COLS-1 /\ 0 \in 0..ROWS-1
    BY <1>1, ScreenSize
  <1>3. TitleAt = <<0, m>> /\ TitleAt[1] = 0 /\ TitleAt[2] = m
    BY <1>1 DEF TitleAt
  <1>4. \A c \in Cell : c = <<c[1], c[2]>>
    BY CellPair
  <1> QED
    BY <1>2, <1>3, <1>4, CellIs

LEMMA TitleStep ==
    ASSUME NEW t \in Terminal, NEW k, Ruled(t, k), ~(k <= COLS)
    PROVE  LET u == DrawChar(t, TitleAt, Headline)
           IN  u \in Terminal /\ Titled(u)
  <1>1. t.x = 0 /\ t.y = 0 /\ k - 1 = COLS /\ k # 1
    BY ScreenSize DEF Ruled
  <1>2. Headline \in Glyph
    BY DEF Glyph, Ink
  <1>3. PICK u : u = DrawChar(t, TitleAt, Headline)
    OBVIOUS
  <1>4. /\ u \in Terminal /\ u.x = 0 /\ u.y = 0
        /\ u.drawn = IF t.drawn = TitleAt THEN None ELSE t.drawn
        /\ \A c \in Cell : u.screen[c] = IF c = TitleAt THEN Headline ELSE t.screen[c]
    BY <1>1, <1>2, <1>3, TitlePlace, DrawIn
  <1>5. u.drawn \in Nowhere
    BY <1>1, <1>4 DEF Ruled, Nowhere
  <1>6. ASSUME NEW c \in Cell
        PROVE  u.screen[c] = IF c[1] = 0 THEN Barred(c[2]) ELSE Blank
    <2>1. c[2] < k - 1
      BY <1>1, CellPair, ScreenSize
    <2>2. t.screen[c] = IF c[1] = 0 THEN Bar ELSE Blank
      BY <1>1, <2>1 DEF Ruled
    <2>3. c = TitleAt <=> c[1] = 0 /\ c[2] = TitleAt[2]
      BY TitlePlace
    <2> QED
      BY <1>4, <2>2, <2>3 DEF Barred
  <1>7. Titled(u)
    BY <1>4, <1>5, <1>6 DEF Titled
  <1> QED
    BY <1>3, <1>4, <1>7

TitlePage == [lines |-> <<[k \in 1..COLS |-> Barred(k - 1)], <<>>>>, top |-> 0, tail |-> 0]

LEMMA TitlePageIs ==
    /\ PageOK(TitlePage) /\ TailOK(TitlePage)
    /\ TitlePage.top = 0 /\ TitlePage.tail = 0 /\ Len(TitlePage.lines) = 2 /\ LastLine(TitlePage) = <<>>
    /\ \A c \in Cell : TextAt(TitlePage.lines, 0, c) = IF c[1] = 0 THEN Barred(c[2]) ELSE Blank
  <1>1. PICK b : b = [k \in 1..COLS |-> Barred(k - 1)]
    OBVIOUS
  <1>2. COLS \in Nat /\ 2 <= ROWS
    BY ScreenSize
  <1>3. b \in Seq(Ink) /\ Len(b) = COLS /\ \A k \in 1..COLS : b[k] = Barred(k - 1)
    BY <1>1, <1>2 DEF Barred, Ink
  <1>4. PICK ls : ls = <<b, <<>>>>
    OBVIOUS
  <1>5. ls \in Seq(Seq(Ink)) /\ Len(ls) = 2 /\ ls[1] = b /\ ls[2] = <<>> /\ Len(ls[2]) = 0
    BY <1>3, <1>4
  <1>6. TitlePage = [lines |-> ls, top |-> 0, tail |-> 0]
    BY <1>1, <1>4 DEF TitlePage
  <1>7. /\ TitlePage.lines = ls /\ TitlePage.top = 0 /\ TitlePage.tail = 0
        /\ TitlePage \in Paper
    BY <1>5, <1>6 DEF Paper
  <1>8. LastLine(TitlePage) = <<>>
    BY <1>5, <1>7 DEF LastLine
  <1>9. PageOK(TitlePage)
    <2>1. \A n \in 1..Len(ls) : n = 1 \/ n = 2
      BY <1>5
    <2>2. \A n \in 1..Len(ls) : Len(ls[n]) <= COLS
      BY <1>2, <1>3, <1>5, <2>1
    <2> QED
      <3>1. 0 < Len(ls) /\ Len(ls) <= 0 + ROWS
        BY <1>5, ScreenSize
      <3> QED
        BY <1>7, <2>2, <3>1 DEF PageOK
  <1>10. TailOK(TitlePage)
    <2>1. Cells(1) \in Int /\ 0 <= Cells(1) + 0 /\ 2 - 0 - 1 = 1
      BY CellsOf
    <2>2. \A j \in 1..2-1 : ~(0 + Cells(j - 1) < 0)
      <3>1. Cells(0) = 0 /\ \A j \in 1..2-1 : j - 1 = 0
        BY CellsOf
      <3> QED
        BY <3>1
    <2> QED
      BY <1>5, <1>7, <2>1, <2>2, Zenon DEF TailOK
  <1>11. ASSUME NEW c \in Cell
         PROVE  TextAt(ls, 0, c) = IF c[1] = 0 THEN Barred(c[2]) ELSE Blank
    <2>1. c[1] \in Nat /\ c[2] \in 0..COLS-1
      BY CellPair, ScreenSize
    <2>2. TextAt(ls, 0, c) = IF c[1] + 1 <= 2 /\ c[2] < Len(ls[c[1] + 1]) THEN ls[c[1] + 1][c[2] + 1] ELSE Blank
      <3>1. 0 + c[1] + 1 = c[1] + 1
        BY <2>1
      <3> QED
        BY <1>5, <3>1 DEF TextAt
    <2>3. CASE c[1] = 0
      <3>1. c[2] + 1 \in 1..COLS /\ (c[2] + 1) - 1 = c[2] /\ c[2] < COLS
        BY <1>2, <2>1
      <3>2. b[c[2] + 1] = Barred(c[2])
        BY <1>3, <3>1
      <3> QED
        BY <1>3, <1>5, <2>2, <2>3, <3>1, <3>2
    <2>4. CASE c[1] = 1
      BY <1>5, <2>1, <2>2, <2>4
    <2>5. CASE c[1] > 1
      BY <2>1, <2>2, <2>5
    <2> QED
      BY <2>1, <2>3, <2>4, <2>5
  <1> QED
    BY <1>5, <1>7, <1>8, <1>9, <1>10, <1>11

LEMMA UnderStep ==
    ASSUME NEW t \in Terminal, Titled(t)
    PROVE  Feed(t) \in Terminal /\ Plain(Feed(t), TitlePage)
  <1>1. PICK u : u = Feed(t)
    OBVIOUS
  <1>2. t.y = 0 /\ t.y # ROWS
    BY ScreenSize DEF Titled
  <1>3. u \in Terminal /\ u.x = 0 /\ u.y = t.y + 1 /\ u.screen = t.screen /\ u.drawn = t.drawn
    BY <1>1, <1>2, FeedIs
  <1>4. AtEnd(u, TitlePage)
    <2>1. Len(<<>>) = 0
      OBVIOUS
    <2> QED
      BY <1>2, <1>3, <2>1, TitlePageIs DEF AtEnd
  <1>5. Lit(u, TitlePage.lines, TitlePage.top, {})
    BY <1>3, TitlePageIs DEF Titled, Lit
  <1> QED
    BY <1>1, <1>3, <1>4, <1>5 DEF Plain, Titled

-----------------------------------------------------------------------------
(* A text that is echoed, character by character. *)

LEMMA LeastInSet ==
    ASSUME NEW S \in SUBSET Nat, S # {}
    PROVE  \E k \in S : \A j \in S : k <= j
  <1>1. PICK k \in S : \A j \in S : ~(<<j, k>> \in OpToRel(<, Nat))
    BY NatLessThanWellFounded, WFMin
  <1>2. ASSUME NEW j \in S PROVE k <= j
    <2>1. ~(j < k)
      BY <1>1, LessIsWellFounded
    <2> QED
      BY <2>1
  <1> QED
    BY <1>2

(* What stands on the screen and on the page after each of m characters. *)
EchoFirst(t, p) == [tty |-> t, page |-> p]
EchoNext(r, c) == [tty |-> PrintChar(r.tty, c), page |-> Write(r.page, c)]
EchoTable(t, p, text, m, f) ==
    \A n \in 0..m : f[n] = IF n = 0 THEN EchoFirst(t, p) ELSE EchoNext(f[n - 1], text[n])

LEMMA EchoTableExists ==
    ASSUME NEW t, NEW p, NEW text, NEW m \in Nat
    PROVE  \E f : EchoTable(t, p, text, m, f)
  <1> DEFINE bad == {k \in Nat : ~\E f : EchoTable(t, p, text, k, f)}
  <1>1. SUFFICES ASSUME bad # {} PROVE FALSE
    OBVIOUS
  <1>2. PICK k \in bad : \A j \in bad : k <= j
    <2>1. bad \in SUBSET Nat
      OBVIOUS
    <2> HIDE DEF bad
    <2> QED
      BY <1>1, <2>1, LeastInSet
  <1>3. CASE k = 0
    <2>1. EchoTable(t, p, text, k, [n \in 0..0 |-> EchoFirst(t, p)])
      BY <1>3 DEF EchoTable
    <2> QED
      BY <2>1
  <1>4. CASE k # 0
    <2>1. k - 1 \in Nat /\ k - 1 \notin bad
      BY <1>2, <1>4
    <2>2. PICK f : EchoTable(t, p, text, k - 1, f)
      BY <2>1
    <2> DEFINE g == [n \in 0..k |-> IF n = 0 THEN EchoFirst(t, p) ELSE EchoNext(f[n - 1], text[n])]
    <2>3. \A n \in 0..(k - 1) : g[n] = f[n]
      BY <2>1, <2>2 DEF EchoTable
    <2>4. EchoTable(t, p, text, k, g)
      <3>1. \A n \in 0..k : n # 0 => n - 1 \in 0..(k - 1)
        BY <2>1
      <3>2. \A n \in 0..k : g[n] = IF n = 0 THEN EchoFirst(t, p) ELSE EchoNext(g[n - 1], text[n])
        BY <2>3, <3>1
      <3> QED
        BY <3>2 DEF EchoTable
    <2> QED
      BY <2>4
  <1> QED
    BY <1>3, <1>4

LEMMA EchoIs ==
    ASSUME NEW t, NEW p, NEW text, Len(text) \in Nat
    PROVE  \E f : EchoTable(t, p, text, Len(text), f) /\ Echo(t, p, text) = f[Len(text)]
  <1> DEFINE F(f) == [n \in 0..Len(text) |-> IF n = 0 THEN EchoFirst(t, p) ELSE EchoNext(f[n - 1], text[n])]
             upTo == CHOOSE f : f = F(f)
  <1>1. Echo(t, p, text) = upTo[Len(text)]
    BY DEF Echo, EchoFirst, EchoNext
  <1>2. PICK e : EchoTable(t, p, text, Len(text), e)
    BY EchoTableExists
  <1>3. PICK f : f = [n \in 0..Len(text) |-> e[n]]
    OBVIOUS
  <1>4. f = F(f)
    <2>1. \A n \in 0..Len(text) : n # 0 => n - 1 \in 0..Len(text)
      OBVIOUS
    <2>2. \A n \in 0..Len(text) : e[n] = IF n = 0 THEN EchoFirst(t, p) ELSE EchoNext(f[n - 1], text[n])
      BY <1>2, <1>3, <2>1 DEF EchoTable
    <2> QED
      BY <1>3, <2>2
  <1> HIDE DEF F
  <1>5. upTo = F(upTo)
    BY <1>4
  <1> HIDE DEF upTo
  <1>6. EchoTable(t, p, text, Len(text), upTo)
    BY <1>5 DEF F, EchoTable
  <1> QED
    BY <1>1, <1>6

(* A text: newlines and output, then letters that are typed. *)
LEMMA EchoStep ==
    ASSUME NEW t \in Terminal, NEW p, PageOK(p), TailOK(p),
           NEW text \in Seq({Newline, Output, Typed}), text # <<>>,
           NEW quiet \in 0..Len(text),
           \A n \in 1..Len(text) : text[n] = Typed <=> n > quiet,
           IF quiet = 0 THEN Good(t, p) /\ p.tail + Len(text) <= 2 * MaxInput
           ELSE Plain(t, p) /\ Len(text) - quiet <= 2 * MaxInput
    PROVE  LET r == Echo(t, p, text)
           IN  /\ r.tty \in Terminal /\ Plain(r.tty, r.page) /\ PageOK(r.page) /\ TailOK(r.page)
               /\ r.page.tail = IF quiet = 0 THEN p.tail + Len(text) ELSE Len(text) - quiet
  <1>1. PICK len : len = Len(text)
    OBVIOUS
  <1>2. len \in Nat \ {0} /\ MaxInput \in Nat /\ p.tail \in Nat
    BY <1>1, PageType, InputFits, EmptySeq
  <1>3. PICK f : EchoTable(t, p, text, len, f) /\ Echo(t, p, text) = f[len]
    BY <1>1, <1>2, EchoIs
  <1> DEFINE Due(n) == IF quiet = 0 THEN p.tail + n ELSE IF n <= quiet THEN 0 ELSE n - quiet
             Fine(n) == /\ f[n].tty \in Terminal /\ PageOK(f[n].page) /\ TailOK(f[n].page)
                        /\ IF n = 0 THEN f[n].tty = t /\ f[n].page = p
                           ELSE Plain(f[n].tty, f[n].page) /\ f[n].page.tail = Due(n)
             bad == {n \in 0..len : ~Fine(n)}
  <1>4. Fine(0)
    <2>1. f[0] = EchoFirst(t, p)
      BY <1>2, <1>3 DEF EchoTable
    <2>2. f[0].tty = t /\ f[0].page = p
      BY <2>1 DEF EchoFirst
    <2> QED
      BY <2>2
  <1>5. ASSUME NEW n \in 1..len, Fine(n - 1)
        PROVE  Fine(n)
    <2>1. PICK s : s = f[n - 1].tty
      OBVIOUS
    <2>2. PICK q : q = f[n - 1].page
      OBVIOUS
    <2>3. PICK c : c = text[n]
      OBVIOUS
    <2>4. n \in 1..Len(text) /\ n \in Nat /\ n # 0 /\ n \in 0..len /\ n - 1 \in Nat
      BY <1>1, <1>2
    <2>5. c \in {Newline, Output, Typed} /\ (c = Typed <=> n > quiet)
      BY <2>3, <2>4
    <2>6. f[n] = EchoNext(f[n - 1], c)
      BY <1>3, <2>3, <2>4 DEF EchoTable
    <2>7. f[n].tty = PrintChar(s, c) /\ f[n].page = Write(q, c)
      BY <2>1, <2>2, <2>6 DEF EchoNext
    <2>8. /\ s \in Terminal /\ PageOK(q) /\ TailOK(q)
          /\ IF n = 1 THEN s = t /\ q = p ELSE Plain(s, q) /\ q.tail = Due(n - 1)
      <3>1. n - 1 = 0 <=> n = 1
        BY <2>4
      <3> QED
        BY <1>5, <2>1, <2>2, <3>1
    <2> HIDE DEF Due
    <2>9. Good(s, q) /\ (quiet # 0 => Plain(s, q))
      BY <2>8, PlainIsGood
    <2>10. PrintChar(s, c) \in Terminal /\ Plain(PrintChar(s, c), Write(q, c))
      <3>1. CASE c = Newline
        <4>1. quiet # 0
          BY <2>4, <2>5, <3>1, GlyphsApart
        <4> QED
          BY <2>8, <2>9, <3>1, <4>1, NewlinePrinted
      <3>2. CASE c \in {Output, Typed}
        <4>1. ~Hidden(s)
          BY <2>8, <2>9, EndInside
        <4> QED
          BY <2>8, <2>9, <3>2, <4>1, LetterPrinted
      <3> QED
        BY <2>5, <3>1, <3>2
    <2>11. Write(q, c).tail = IF c = Typed THEN q.tail + 1 ELSE 0
      BY <2>5, <2>8, WriteIs
    <2>12. c = Typed => q.tail + 1 = Due(n)
      <3> SUFFICES ASSUME c = Typed PROVE q.tail + 1 = Due(n)
        OBVIOUS
      <3>1. n > quiet
        BY <2>5
      <3>2. CASE n = 1
        BY <1>2, <2>4, <2>8, <3>1, <3>2 DEF Due
      <3>3. CASE n # 1
        <4>1. q.tail = Due(n - 1)
          BY <2>8, <3>3
        <4>2. quiet = 0 => q.tail = p.tail + (n - 1) /\ Due(n) = p.tail + n
          BY <4>1 DEF Due
        <4>3. quiet # 0 => Due(n) = n - quiet
          BY <2>4, <3>1 DEF Due
        <4>4. quiet # 0 => q.tail = (n - 1) - quiet
          BY <2>4, <3>1, <4>1 DEF Due
        <4> QED
          BY <1>2, <2>4, <4>2, <4>3, <4>4
      <3> QED
        BY <3>2, <3>3
    <2>13. c # Typed => 0 = Due(n)
      BY <2>4, <2>5 DEF Due
    <2>14. Write(q, c).tail = Due(n)
      BY <2>11, <2>12, <2>13
    <2>15. c = Typed => q.tail < 2 * MaxInput
      <3> SUFFICES ASSUME c = Typed PROVE q.tail < 2 * MaxInput
        OBVIOUS
      <3>1. Due(n) <= 2 * MaxInput
        BY <1>1, <1>2, <2>4 DEF Due
      <3>2. q.tail \in Nat
        BY <2>8, PageType
      <3> QED
        BY <1>2, <2>12, <3>1, <3>2
    <2>16. PageOK(Write(q, c)) /\ TailOK(Write(q, c))
      BY <2>5, <2>8, <2>15, WritePage, WriteTail
    <2> QED
      BY <2>4, <2>7, <2>10, <2>14, <2>16
  <1>6. bad = {}
    <2>1. SUFFICES ASSUME bad # {} PROVE FALSE
      OBVIOUS
    <2>2. PICK k \in bad : \A j \in bad : k <= j
      <3>1. bad \in SUBSET Nat
        OBVIOUS
      <3> HIDE DEF bad
      <3> QED
        BY <2>1, <3>1, LeastInSet
    <2> HIDE DEF Fine
    <2>3. k \in 1..len
      BY <1>2, <1>4, <2>2
    <2>4. k - 1 \in 0..len /\ k - 1 \notin bad
      BY <1>2, <2>2, <2>3
    <2> QED
      BY <1>5, <2>2, <2>3, <2>4
  <1>7. Fine(len)
    <2> HIDE DEF Fine
    <2> QED
      BY <1>2, <1>6
  <1>8. Due(len) = IF quiet = 0 THEN p.tail + Len(text) ELSE Len(text) - quiet
    BY <1>1, <1>2
  <1> QED
    BY <1>1, <1>2, <1>3, <1>7, <1>8

-----------------------------------------------------------------------------
(* The command. *)

LEMMA GoesOn ==
    ASSUME NEW w, JobOK(w), NEW to \in PrintPlaces \cup ClearPlaces \cup {"idle"},
           to \in PrintPlaces => w.ch # Blank
    PROVE  LET j == [w EXCEPT !.pc = to]
           IN  JobOK(j) /\ j.pc = to /\ j.ch = w.ch /\ j.k = w.k
  BY DEF JobOK

LEMMA PrintSound ==
    ASSUME Consistent(tty, page, job), ~torn', PrintStep
    PROVE  Consistent(tty', page', job') /\ page'.tail \in {page.tail, 0}
  <1> DEFINE newline == job.ch = Newline
  <1>1. /\ tty \in Terminal /\ PageOK(page) /\ TailOK(page) /\ JobOK(job) /\ Statement(tty, page, job)
    BY DEF Consistent
  <1>2. newline \in BOOLEAN
    OBVIOUS
  <1>3. tty.x \in 0..COLS /\ tty.y \in 0..ROWS /\ page.tail \in Nat
    BY <1>1, TerminalType, PageType
  <1>4. /\ Newline \in {Newline, Output, Typed} /\ Output \in {Newline, Output, Typed} /\ Output \in {Output, Typed}
        /\ Newline # Typed /\ Output # Typed
    BY GlyphsApart
  <1>5. job.pc \in PrintPlaces => job.ch \in {Newline, Output} /\ job.ch # Blank
    BY <1>1 DEF JobOK
  <1>6. ASSUME NEW to \in PrintPlaces \cup {"idle"}, job.pc \in PrintPlaces
        PROVE  LET j == [job EXCEPT !.pc = to]
               IN  JobOK(j) /\ j.pc = to /\ j.ch = job.ch
    BY <1>1, <1>5, <1>6, GoesOn
  <1>7. CASE Goes("test", IF newline \/ Full(tty) THEN "return" ELSE "check", tty) /\ UNCHANGED <<page, torn>>
    <2>1. job.pc = "test" /\ tty' = tty /\ page' = page /\ Good(tty, page)
      BY <1>1, <1>7 DEF Goes, Statement
    <2>2. CASE newline \/ Full(tty)
      <3>1. JobOK(job') /\ job'.pc = "return" /\ job'.ch = job.ch
        BY <1>6, <1>7, <2>1, <2>2 DEF Goes, PrintPlaces
      <3>2. newline \/ tty.x = COLS
        BY <1>3, <2>2, ScreenSize DEF Full
      <3> QED
        BY <1>1, <2>1, <3>1, <3>2 DEF Consistent, Statement
    <2>3. CASE ~(newline \/ Full(tty))
      <3>1. JobOK(job') /\ job'.pc = "check" /\ job'.ch = job.ch
        BY <1>6, <1>7, <2>1, <2>3 DEF Goes, PrintPlaces
      <3>2. ~newline /\ tty.x < COLS
        BY <1>3, <2>3, ScreenSize DEF Full
      <3> QED
        BY <1>1, <2>1, <3>1, <3>2 DEF Consistent, Statement
    <2> QED
      BY <2>2, <2>3
  <1>8. CASE /\ Goes("return", "feed", [tty EXCEPT !.x = 0])
             /\ torn' = (torn \/ CursorLeft) /\ UNCHANGED page
    <2>1. job.pc = "return" /\ page' = page /\ Good(tty, page) /\ (newline \/ tty.x = COLS)
      BY <1>1, <1>8 DEF Goes, Statement
    <2>2. JobOK(job') /\ job'.pc = "feed" /\ job'.ch = job.ch
      BY <1>6, <1>8, <2>1 DEF Goes, PrintPlaces
    <2>3. newline => ~Behind(tty)
      BY <1>8 DEF CursorLeft, Behind
    <2>4. tty' \in Terminal /\ FedReturn(tty', page, newline)
      BY <1>1, <1>2, <1>8, <2>1, <2>3, ReturnStep DEF Goes
    <2> QED
      BY <1>1, <2>1, <2>2, <2>4 DEF Consistent, Statement
  <1>9. CASE /\ Goes("feed", "check", [tty EXCEPT !.y = @ + 1])
             /\ IF newline THEN page' = Write(page, Newline) ELSE UNCHANGED page
             /\ UNCHANGED torn
    <2>1. job.pc = "feed" /\ FedReturn(tty, page, newline)
      BY <1>1, <1>9 DEF Goes, Statement
    <2>2. JobOK(job') /\ job'.pc = "check" /\ job'.ch = job.ch
      BY <1>6, <1>9, <2>1 DEF Goes, PrintPlaces
    <2>3. /\ tty' \in Terminal
          /\ IF newline THEN Plain(tty', Write(page, Newline)) \/ Fallen(tty', Write(page, Newline))
             ELSE Fed(tty', page) /\ tty'.y = Len(page.lines) - page.top
      BY <1>1, <1>2, <1>9, <2>1, FeedStep DEF Goes
    <2>4. CASE newline
      <3>1. PageOK(page') /\ TailOK(page') /\ page'.tail = 0
        <4>1. page' = Write(page, Newline)
          BY <1>9, <2>4
        <4>2. PageOK(page') /\ TailOK(page')
          BY <1>1, <1>4, <4>1, WritePage, WriteTail
        <4>3. page'.tail = 0
          BY <1>1, <1>4, <4>1, WriteIs
        <4> QED
          BY <4>2, <4>3
      <3>2. Good(tty', page') \/ Fallen(tty', page')
        BY <1>9, <2>3, <2>4, PlainIsGood
      <3> QED
        BY <2>2, <2>3, <2>4, <3>1, <3>2 DEF Consistent, Statement
    <2>5. CASE ~newline
      <3>1. page' = page
        BY <1>9, <2>5
      <3> QED
        BY <1>1, <2>2, <2>3, <2>5, <3>1 DEF Consistent, Statement
    <2> QED
      BY <2>4, <2>5
  <1>10. CASE Goes("check", IF tty.y >= ROWS THEN "scrub" ELSE Printed, tty) /\ UNCHANGED <<page, torn>>
    <2>1. /\ job.pc = "check" /\ tty' = tty /\ page' = page
          /\ IF newline THEN Good(tty, page) \/ Fallen(tty, page)
             ELSE (Good(tty, page) /\ tty.x < COLS) \/ (Fed(tty, page) /\ tty.y = Len(page.lines) - page.top)
      BY <1>1, <1>10 DEF Goes, Statement
    <2>2. Good(tty, page) => tty.y < ROWS
      BY <1>1, EndInside
    <2>3. CASE tty.y >= ROWS
      <3>1. JobOK(job') /\ job'.pc = "scrub" /\ job'.ch = job.ch
        BY <1>6, <1>10, <2>1, <2>3 DEF Goes, PrintPlaces
      <3>2. tty.y = ROWS /\ ~Good(tty, page)
        BY <1>3, <2>2, <2>3, ScreenSize
      <3> QED
        BY <1>1, <2>1, <3>1, <3>2 DEF Consistent, Statement
    <2>4. CASE ~(tty.y >= ROWS)
      <3>1. tty.y < ROWS /\ ~Fallen(tty, page)
        BY <1>3, <2>4, ScreenSize DEF Fallen
      <3>2. CASE newline
        <4>1. JobOK(job') /\ job'.pc = "idle" /\ job'.ch = job.ch
          BY <1>6, <1>10, <2>1, <2>4, <3>2 DEF Goes, Printed, PrintPlaces
        <4> QED
          BY <1>1, <2>1, <3>1, <3>2, <4>1 DEF Consistent, Statement
      <3>3. CASE ~newline
        <4>1. JobOK(job') /\ job'.pc = "store" /\ job'.ch = job.ch
          BY <1>6, <1>10, <2>1, <2>4, <3>3 DEF Goes, Printed, PrintPlaces
        <4> QED
          BY <1>1, <2>1, <3>1, <3>3, <4>1 DEF Consistent, Statement
      <3> QED
        BY <3>2, <3>3
    <2> QED
      BY <2>3, <2>4
  <1>11. CASE Goes("scrub", "scroll buffer", Scrub(tty)) /\ torn' = (torn \/ ScrubsErased) /\ UNCHANGED page
    <2>1. /\ job.pc = "scrub" /\ page' = page
          /\ IF newline THEN Fallen(tty, page) ELSE Fed(tty, page) /\ tty.y = ROWS
      BY <1>1, <1>11 DEF Goes, Statement
    <2>2. JobOK(job') /\ job'.pc = "scroll buffer" /\ job'.ch = job.ch
      BY <1>6, <1>11, <2>1 DEF Goes, PrintPlaces
    <2>3. ~Hidden(tty)
      BY <1>11 DEF ScrubsErased, Hidden
    <2>4. tty' \in Terminal /\ Scrolled(tty', page, newline, page.top)
      BY <1>1, <1>2, <1>11, <2>1, <2>3, ScrubStep DEF Goes
    <2> QED
      BY <1>1, <2>1, <2>2, <2>4 DEF Consistent, Statement
  <1>12. CASE Goes("scroll buffer", "scroll", ScrollBuffer(tty)) /\ UNCHANGED <<page, torn>>
    <2>1. job.pc = "scroll buffer" /\ page' = page /\ Scrolled(tty, page, newline, page.top)
      BY <1>1, <1>12 DEF Goes, Statement
    <2>2. JobOK(job') /\ job'.pc = "scroll" /\ job'.ch = job.ch
      BY <1>6, <1>12, <2>1 DEF Goes, PrintPlaces
    <2>3. tty' \in Terminal /\ Scrolled(tty', page, newline, page.top)
      BY <1>1, <1>2, <1>12, <2>1, ScrollBufferStep DEF Goes
    <2> QED
      BY <1>1, <2>1, <2>2, <2>3 DEF Consistent, Statement
  <1>13. CASE Goes("scroll", "bottom", ScrollFramebuffer(tty)) /\ UNCHANGED <<page, torn>>
    <2>1. job.pc = "scroll" /\ page' = page /\ Scrolled(tty, page, newline, page.top)
      BY <1>1, <1>13 DEF Goes, Statement
    <2>2. JobOK(job') /\ job'.pc = "bottom" /\ job'.ch = job.ch
      BY <1>6, <1>13, <2>1 DEF Goes, PrintPlaces
    <2>3. tty' \in Terminal /\ Scrolled(tty', page, newline, page.top + 1)
      BY <1>1, <1>2, <1>13, <2>1, ScrollStep DEF Goes
    <2> QED
      BY <1>1, <2>1, <2>2, <2>3 DEF Consistent, Statement
  <1>14. CASE Goes("bottom", Printed, Bottom(tty)) /\ UNCHANGED <<page, torn>>
    <2>1. job.pc = "bottom" /\ page' = page /\ Scrolled(tty, page, newline, page.top + 1)
      BY <1>1, <1>14 DEF Goes, Statement
    <2>2. /\ tty' \in Terminal
          /\ IF newline THEN Plain(tty', page) ELSE Fed(tty', page) /\ tty'.y < ROWS
      BY <1>1, <1>2, <1>14, <2>1, BottomStep DEF Goes
    <2>3. CASE newline
      <3>1. JobOK(job') /\ job'.pc = "idle" /\ job'.ch = job.ch
        <4>1. job' = [job EXCEPT !.pc = "idle"]
          BY <1>14, <2>3 DEF Goes, Printed
        <4> QED
          BY <1>6, <2>1, <4>1 DEF PrintPlaces
      <3>2. Good(tty', page)
        BY <2>2, <2>3, PlainIsGood
      <3> QED
        BY <1>1, <2>1, <2>2, <2>3, <3>1, <3>2 DEF Consistent, Statement
    <2>4. CASE ~newline
      <3>1. JobOK(job') /\ job'.pc = "store" /\ job'.ch = job.ch
        BY <1>6, <1>14, <2>1, <2>4 DEF Goes, Printed, PrintPlaces
      <3> QED
        BY <1>1, <2>1, <2>2, <2>4, <3>1 DEF Consistent, Statement
    <2> QED
      BY <2>3, <2>4
  <1>15. CASE Goes("store", "draw", Store(tty, job.ch)) /\ page' = Write(page, job.ch) /\ UNCHANGED torn
    <2>1. /\ job.pc = "store" /\ ~newline
          /\ (Good(tty, page) /\ tty.x < COLS) \/ (Fed(tty, page) /\ tty.y < ROWS)
      BY <1>1, <1>15 DEF Goes, Statement
    <2>2. JobOK(job') /\ job'.pc = "draw" /\ job'.ch = job.ch
      BY <1>6, <1>15, <2>1 DEF Goes, PrintPlaces
    <2>3. job.ch = Output
      BY <1>5, <2>1 DEF PrintPlaces
    <2>4. tty' \in Terminal /\ Drawing(tty', page', job.ch)
      BY <1>1, <1>4, <1>15, <2>1, <2>3, StoreStep DEF Goes
    <2>5. PageOK(page') /\ TailOK(page') /\ page'.tail = 0
      BY <1>1, <1>4, <1>15, <2>3, WritePage, WriteTail, WriteIs
    <2> QED
      BY <2>1, <2>2, <2>4, <2>5 DEF Consistent, Statement
  <1>16. CASE Goes("draw", "advance", DrawChar(tty, Here(tty), job.ch)) /\ UNCHANGED <<page, torn>>
    <2>1. job.pc = "draw" /\ page' = page /\ ~newline /\ Drawing(tty, page, job.ch)
      BY <1>1, <1>16 DEF Goes, Statement
    <2>2. JobOK(job') /\ job'.pc = "advance" /\ job'.ch = job.ch
      BY <1>6, <1>16, <2>1 DEF Goes, PrintPlaces
    <2>3. job.ch = Output
      BY <1>5, <2>1 DEF PrintPlaces
    <2>4. tty' \in Terminal /\ Drawn(tty', page)
      BY <1>1, <1>4, <1>16, <2>1, <2>3, DrawStep DEF Goes
    <2> QED
      BY <1>1, <2>1, <2>2, <2>4 DEF Consistent, Statement
  <1>17. CASE Goes("advance", "idle", Advance(tty)) /\ UNCHANGED <<page, torn>>
    <2>1. job.pc = "advance" /\ page' = page /\ Drawn(tty, page)
      BY <1>1, <1>17 DEF Goes, Statement
    <2>2. JobOK(job') /\ job'.pc = "idle" /\ job'.ch = job.ch
      BY <1>6, <1>17, <2>1 DEF Goes, PrintPlaces
    <2>3. tty' \in Terminal /\ Good(tty', page)
      BY <1>1, <1>17, <2>1, AdvanceStep, PlainIsGood DEF Goes
    <2> QED
      BY <1>1, <2>1, <2>2, <2>3 DEF Consistent, Statement
  <1> QED
    BY <1>7, <1>8, <1>9, <1>10, <1>11, <1>12, <1>13, <1>14, <1>15, <1>16, <1>17 DEF PrintStep

LEMMA CountsOn ==
    ASSUME NEW w, JobOK(w), w.pc \in {"clear", "redraw", "center"}
    PROVE  LET j == [w EXCEPT !.k = @ + 1]
           IN  JobOK(j) /\ j.pc = w.pc /\ j.k = w.k + 1
  <1>1. w.k \in Nat /\ w.k + 1 \in Nat
    BY DEF JobOK
  <1>2. PICK n \in Nat : n = w.k + 1
    BY <1>1
  <1>3. PICK j : j = [w EXCEPT !.k = n]
    OBVIOUS
  <1>4. JobOK(j) /\ j.pc = w.pc /\ j.k = n
    BY <1>3 DEF JobOK, PrintPlaces, ClearPlaces
  <1> QED
    BY <1>2, <1>3, <1>4

LEMMA ClearSound ==
    ASSUME Consistent(tty, page, job), ScreenClear, page' = page
    PROVE  Consistent(tty', page', job')
  <1>1. /\ tty \in Terminal /\ PageOK(page) /\ TailOK(page) /\ JobOK(job) /\ Statement(tty, page, job)
    BY DEF Consistent
  <1>2. job.k \in Nat
    BY <1>1 DEF JobOK
  <1>3. CASE /\ job.pc = "clear"
             /\ IF job.k > ROWS * COLS THEN tty' = tty /\ job' = [job EXCEPT !.pc = "redraw", !.k = 1]
                ELSE tty' = [tty EXCEPT !.buf[Place(job.k)] = Blank] /\ job' = [job EXCEPT !.k = @ + 1]
    <2>1. Good(tty, page) /\ Emptied(tty, job.k)
      BY <1>1, <1>3 DEF Statement
    <2>2. CASE job.k > ROWS * COLS
      <3>1. tty' = tty /\ job' = [job EXCEPT !.pc = "redraw", !.k = 1]
        BY <1>3, <2>2
      <3>2. JobOK(job') /\ job'.pc = "redraw" /\ job'.k = 1
        BY <1>1, <3>1 DEF JobOK, PrintPlaces, ClearPlaces
      <3>3. Redrawn(tty, 1)
        BY <1>1, <2>1, <2>2, EmptyEnd
      <3> QED
        BY <1>1, <3>1, <3>2, <3>3 DEF Consistent, Statement
    <2>3. CASE ~(job.k > ROWS * COLS)
      <3>1. /\ tty' = [tty EXCEPT !.buf[Place(job.k)] = Blank]
            /\ job' = [job EXCEPT !.k = @ + 1]
        BY <1>3, <2>3
      <3>2. JobOK(job') /\ job'.pc = "clear" /\ job'.k = job.k + 1
        BY <1>1, <1>3, <3>1, CountsOn
      <3>3. tty' \in Terminal /\ Good(tty', page) /\ Emptied(tty', job.k + 1)
        BY <1>1, <2>1, <2>3, <3>1, EmptyStep
      <3> QED
        BY <1>1, <3>2, <3>3 DEF Consistent, Statement
    <2> QED
      BY <2>2, <2>3
  <1>4. CASE /\ job.pc = "redraw"
             /\ IF job.k > ROWS * COLS THEN tty' = tty /\ job' = [job EXCEPT !.pc = "home", !.k = 1]
                ELSE tty' = DrawChar(tty, Place(job.k), tty.buf[Place(job.k)]) /\ job' = [job EXCEPT !.k = @ + 1]
    <2>1. Redrawn(tty, job.k)
      BY <1>1, <1>4 DEF Statement
    <2>2. CASE job.k > ROWS * COLS
      <3>1. tty' = tty /\ job' = [job EXCEPT !.pc = "home", !.k = 1]
        BY <1>4, <2>2
      <3>2. JobOK(job') /\ job'.pc = "home" /\ job'.k = 1
        BY <1>1, <3>1 DEF JobOK, PrintPlaces, ClearPlaces
      <3>3. Cleared(tty)
        BY <1>1, <2>1, <2>2, RedrawEnd
      <3> QED
        BY <1>1, <3>1, <3>2, <3>3 DEF Consistent, Statement
    <2>3. CASE ~(job.k > ROWS * COLS)
      <3>1. /\ tty' = DrawChar(tty, Place(job.k), tty.buf[Place(job.k)])
            /\ job' = [job EXCEPT !.k = @ + 1]
        BY <1>4, <2>3
      <3>2. JobOK(job') /\ job'.pc = "redraw" /\ job'.k = job.k + 1
        BY <1>1, <1>4, <3>1, CountsOn
      <3>3. tty' \in Terminal /\ Redrawn(tty', job.k + 1)
        BY <1>1, <2>1, <2>3, <3>1, RedrawStep
      <3> QED
        BY <1>1, <3>2, <3>3 DEF Consistent, Statement
    <2> QED
      BY <2>2, <2>3
  <1>5. CASE Goes("home", "top", [tty EXCEPT !.x = 0])
    <2>1. job.pc = "home" /\ Cleared(tty) /\ job.k = 1
      BY <1>1, <1>5 DEF Goes, Statement
    <2>2. JobOK(job') /\ job'.pc = "top" /\ job'.k = 1
      BY <1>1, <1>5, <2>1, GoesOn DEF Goes, ClearPlaces, PrintPlaces
    <2>3. tty' \in Terminal /\ Cleared(tty') /\ tty'.x = 0
      BY <1>1, <1>5, <2>1, HomeStep DEF Goes
    <2> QED
      BY <1>1, <2>2, <2>3 DEF Consistent, Statement
  <1>6. CASE Goes("top", "center", Home)
    <2>1. job.pc = "top" /\ Cleared(tty) /\ tty.x = 0 /\ job.k = 1
      BY <1>1, <1>6 DEF Goes, Statement
    <2>2. JobOK(job') /\ job'.pc = "center" /\ job'.k = 1
      BY <1>1, <1>6, <2>1, GoesOn DEF Goes, ClearPlaces, PrintPlaces
    <2>3. tty' \in Terminal /\ Ruled(tty', 1)
      BY <1>1, <1>6, <2>1, TopStep DEF Goes, Home
    <2> QED
      BY <1>1, <2>2, <2>3 DEF Consistent, Statement
  <1> QED
    BY <1>3, <1>4, <1>5, <1>6 DEF ScreenClear

LEMMA CenterSound ==
    ASSUME Consistent(tty, page, job), PrintCenter
    PROVE  Consistent(tty', page', job') /\ page'.tail \in {page.tail, 0}
  <1>1. /\ tty \in Terminal /\ PageOK(page) /\ TailOK(page) /\ JobOK(job) /\ Statement(tty, page, job)
    BY DEF Consistent
  <1>2. job.k \in Nat
    BY <1>1 DEF JobOK
  <1>3. CASE /\ job.pc = "center"
             /\ IF job.k <= COLS THEN tty' = DrawChar(tty, <<tty.y, job.k - 1>>, Bar) /\ job' = [job EXCEPT !.k = @ + 1]
                ELSE tty' = DrawChar(tty, TitleAt, Headline) /\ job' = [job EXCEPT !.pc = "under"]
             /\ UNCHANGED page
    <2>1. Ruled(tty, job.k) /\ page' = page
      BY <1>1, <1>3 DEF Statement
    <2>2. CASE job.k <= COLS
      <3>1. /\ tty' = DrawChar(tty, <<tty.y, job.k - 1>>, Bar)
            /\ job' = [job EXCEPT !.k = @ + 1]
        BY <1>3, <2>2
      <3>2. JobOK(job') /\ job'.pc = "center" /\ job'.k = job.k + 1
        BY <1>1, <1>3, <3>1, CountsOn
      <3>3. tty' \in Terminal /\ Ruled(tty', job.k + 1)
        BY <1>1, <2>1, <2>2, <3>1, RuleStep
      <3> QED
        BY <1>1, <2>1, <3>2, <3>3 DEF Consistent, Statement
    <2>3. CASE ~(job.k <= COLS)
      <3>1. tty' = DrawChar(tty, TitleAt, Headline) /\ job' = [job EXCEPT !.pc = "under"]
        BY <1>3, <2>3
      <3>2. JobOK(job') /\ job'.pc = "under"
        BY <1>1, <3>1, GoesOn DEF PrintPlaces, ClearPlaces
      <3>3. tty' \in Terminal /\ Titled(tty')
        BY <1>1, <2>1, <2>3, <3>1, TitleStep
      <3> QED
        BY <1>1, <2>1, <3>2, <3>3 DEF Consistent, Statement
    <2> QED
      BY <2>2, <2>3
  <1>4. CASE /\ Goes("under", "idle", Feed(tty))
             /\ page' = TitlePage
    <2>1. job.pc = "under" /\ Titled(tty)
      BY <1>1, <1>4 DEF Goes, Statement
    <2>2. JobOK(job') /\ job'.pc = "idle"
      BY <1>1, <1>4, <2>1, GoesOn DEF Goes, ClearPlaces, PrintPlaces
    <2>3. tty' \in Terminal /\ Good(tty', page')
      BY <1>1, <1>4, <2>1, UnderStep, PlainIsGood DEF Goes
    <2>4. PageOK(page') /\ TailOK(page') /\ page'.tail = 0
      BY <1>4, TitlePageIs
    <2> QED
      BY <2>2, <2>3, <2>4 DEF Consistent, Statement
  <1> QED
    BY <1>3, <1>4 DEF PrintCenter, TitlePage

LEMMA BlinkSound ==
    ASSUME Consistent(tty, page, job), ~torn', Blink
    PROVE  Consistent(tty', page', job')
  <1> DEFINE newline == job.ch = Newline
             u == BlinkCursor(tty)
  <1>1. /\ tty \in Terminal /\ PageOK(page) /\ TailOK(page) /\ JobOK(job) /\ Statement(tty, page, job)
    BY DEF Consistent
  <1>2. tty' = u /\ page' = page /\ job' = job
    BY DEF Blink
  <1>3. /\ tty.x # COLS
        /\ job.pc \notin {"feed", "advance", "home", "top", "under"}
        /\ ~(job.pc \in {"check", "scrub"} /\ tty.y = ROWS /\ tty.drawn \in Cell)
        /\ job.pc \in {"redraw", "center"} => \A k \in 1..job.k - 1 : Place(k) # Here(tty)
    BY DEF Blink, BlinkTears
  <1>4. newline \in BOOLEAN
    OBVIOUS
  <1>5. Good(tty, page) => Good(u, page) /\ u.x = tty.x
    BY <1>1, <1>3, BlinkGood
  <1>6. Fed(tty, page) => Fed(u, page) /\ u.y = tty.y
    BY <1>1, BlinkFed
  <1>7. Fallen(tty, page) /\ job.pc \in {"check", "scrub"} => Fallen(u, page)
    <2> SUFFICES ASSUME Fallen(tty, page), job.pc \in {"check", "scrub"}
                 PROVE  Fallen(u, page)
      OBVIOUS
    <2>1. tty.drawn \notin Cell
      BY <1>3 DEF Fallen
    <2> QED
      BY <1>1, <2>1, BlinkFallen
  <1>8. \A above : Scrolled(tty, page, newline, above) => Scrolled(u, page, newline, above)
    BY <1>1, <1>4, BlinkScrolled
  <1>9. Drawing(tty, page, job.ch) => Drawing(u, page, job.ch)
    BY <1>1, <1>3, BlinkDrawing
  <1>10. Redrawn(tty, job.k) /\ job.pc = "redraw" => Redrawn(u, job.k)
    BY <1>1, <1>3, BlinkRedrawn
  <1>11. Ruled(tty, job.k) /\ job.pc = "center" => Ruled(u, job.k)
    BY <1>1, <1>3, BlinkRuled
  <1>12. u \in Terminal /\ u.buf = tty.buf
    <2>1. tty.y = ROWS => tty.x = 0
      <3> SUFFICES ASSUME tty.y = ROWS PROVE tty.x = 0
        OBVIOUS
      <3>1. ~Good(tty, page)
        BY <1>1, EndInside, ScreenSize
      <3>2. ~Drawing(tty, page, job.ch)
        <4>1. Len(page.lines) - page.top \in 1..ROWS /\ Len(page.lines) \in Nat /\ page.top \in Nat
          BY <1>1, PageType
        <4> QED
          BY <4>1, ScreenSize DEF Drawing, AtLast
      <3>3. ~Redrawn(tty, job.k) /\ ~Ruled(tty, job.k)
        BY ScreenSize DEF Redrawn, Ruled
      <3>4. Fallen(tty, page) \/ Fed(tty, page) \/ \E above : Scrolled(tty, page, newline, above)
        BY <1>1, <1>3, <3>1, <3>2, <3>3 DEF Statement, JobOK, PrintPlaces, ClearPlaces
      <3> QED
        BY <3>4 DEF Fallen, Fed, Scrolled
    <2> QED
      BY <1>1, <1>3, <2>1, BlinkIs
  <1> HIDE DEF u
  <1>13. Statement(u, page, job)
    <2>1. CASE job.pc \in {"idle", "test", "return", "clear"}
      <3>1. job.pc = "clear" => Emptied(u, job.k)
        BY <1>1, <1>12 DEF Statement, Emptied
      <3> QED
        BY <1>1, <1>3, <1>5, <2>1, <3>1 DEF Statement
    <2>2. CASE job.pc \in {"check", "scrub", "store"}
      BY <1>1, <1>5, <1>6, <1>7, <2>2 DEF Statement
    <2>3. CASE job.pc \in {"scroll buffer", "scroll", "bottom"}
      BY <1>1, <1>8, <2>3 DEF Statement
    <2>4. CASE job.pc \in {"draw", "redraw", "center"}
      BY <1>1, <1>9, <1>10, <1>11, <2>4 DEF Statement
    <2> QED
      BY <1>1, <1>3, <2>1, <2>2, <2>3, <2>4 DEF JobOK, PrintPlaces, ClearPlaces
  <1> QED
    BY <1>1, <1>2, <1>12, <1>13 DEF Consistent

-----------------------------------------------------------------------------
(* The keys. *)

LEMMA TailCut ==
    ASSUME NEW p, PageOK(p), TailOK(p), NEW k \in Nat, k <= p.tail
    PROVE  LET q == [p EXCEPT !.tail = k]
           IN  PageOK(q) /\ TailOK(q) /\ q.lines = p.lines /\ q.top = p.top /\ q.tail = k
  <1>1. PICK q : q = [p EXCEPT !.tail = k]
    OBVIOUS
  <1>2. p \in Paper /\ p.top \in Nat /\ p.tail \in Nat
    BY PageType
  <1>3. q \in Paper /\ q.lines = p.lines /\ q.top = p.top /\ q.tail = k
    BY <1>1, <1>2 DEF Paper
  <1>4. PageOK(q)
    BY <1>3 DEF PageOK
  <1>5. TailOK(q)
    <2>1. PICK n : n = Len(p.lines)
      OBVIOUS
    <2>2. PICK e : e = Len(p.lines[n])
      OBVIOUS
    <2>3. n \in Nat \ {0} /\ e \in 0..COLS /\ n - p.top \in 1..ROWS
      BY <2>1, <2>2, PageType DEF LastLine
    <2>4. /\ p.tail <= Cells(n - p.top - 1) + e
          /\ \A j \in 1..n-1 : e + Cells(j - 1) < p.tail => Len(p.lines[n - j]) = COLS
      BY <2>1, <2>2 DEF TailOK
    <2>5. Cells(n - p.top - 1) \in Int
      BY <1>2, <2>3, CellsOf
    <2>6. k <= Cells(n - p.top - 1) + e
      BY <1>2, <2>3, <2>4, <2>5, ScreenSize
    <2>7. ASSUME NEW j \in 1..n-1, e + Cells(j - 1) < k
          PROVE  Len(p.lines[n - j]) = COLS
      <3>1. Cells(j - 1) \in Int
        BY <2>3, CellsOf
      <3>2. e + Cells(j - 1) < p.tail
        BY <1>2, <2>3, <2>7, <3>1, ScreenSize
      <3> QED
        BY <2>4, <3>2
    <2> QED
      BY <1>3, <2>1, <2>2, <2>6, <2>7 DEF TailOK
  <1> QED
    BY <1>1, <1>3, <1>4, <1>5

LEMMA SamePage ==
    ASSUME NEW t, NEW p, NEW q, NEW j, Statement(t, p, j), q.lines = p.lines, q.top = p.top
    PROVE  Statement(t, q, j)
  <1>1. LastLine(q) = LastLine(p)
    BY DEF LastLine
  <1>2. (Good(t, p) <=> Good(t, q)) /\ (Fallen(t, p) <=> Fallen(t, q)) /\ (Fed(t, p) <=> Fed(t, q))
    BY <1>1 DEF Good, AtEnd, Fallen, Fed
  <1>3. \A newline \in BOOLEAN : FedReturn(t, p, newline) <=> FedReturn(t, q, newline)
    BY <1>1 DEF FedReturn
  <1>4. \A newline \in BOOLEAN : \A above : Scrolled(t, p, newline, above) <=> Scrolled(t, q, newline, above)
    BY <1>1 DEF Scrolled
  <1>5. (Drawing(t, p, j.ch) <=> Drawing(t, q, j.ch)) /\ (Drawn(t, p) <=> Drawn(t, q))
    BY <1>1 DEF Drawing, Drawn, AtLast
  <1> QED
    BY <1>2, <1>3, <1>4, <1>5 DEF Statement

(* Where a key does no harm, the command stands at the end of the text or    *)
(* has just begun a line.                                                    *)
LEMMA KeyPlaces ==
    ASSUME Consistent(tty, page, job), ~KeyTears
    PROVE  /\ ~Hidden(tty)
           /\ Good(tty, page) \/ Fallen(tty, page) \/ Fed(tty, page)
           /\ ~HasFed => Good(tty, page)
           /\ job.pc \in {"idle", "test", "return", "check", "store", "clear"}
           /\ job.pc = "return" => job.ch = Newline
           /\ job.pc = "store" => job.ch # Newline
           /\ job.pc = "clear" => job.k = 1
  <1>1. tty \in Terminal /\ PageOK(page) /\ JobOK(job) /\ Statement(tty, page, job)
    BY DEF Consistent
  <1>2. job.pc \in {"idle", "test", "return", "check", "store", "clear"}
    BY <1>1 DEF KeyTears, JobOK, PrintPlaces, ClearPlaces
  <1>3. job.pc = "return" => job.ch = Newline
    BY DEF KeyTears
  <1>4. job.pc = "store" => job.ch # Newline
    BY <1>1 DEF Statement
  <1>5. Good(tty, page) => ~Hidden(tty)
    BY <1>1, EndInside
  <1>6. ASSUME job.pc = "clear" PROVE job.k = 1
    <2>1. job.k \in Nat /\ job.k >= 1
      <3>1. job.k \in Nat /\ job.k \in 1..ROWS * COLS + 1
        BY <1>1, <1>6 DEF JobOK, Statement, Emptied
      <3>2. PICK s : s = ROWS * COLS + 1
        OBVIOUS
      <3> QED
        BY <3>1, <3>2
    <2> QED
      BY <1>6, <2>1 DEF KeyTears
  <1>7. CASE job.pc \in {"idle", "test", "return", "clear"}
    <2>1. Good(tty, page)
      BY <1>1, <1>7 DEF Statement
    <2> QED
      BY <1>2, <1>3, <1>4, <1>5, <1>6, <2>1
  <1>8. CASE job.pc \in {"check", "store"}
    <2>1. Good(tty, page) \/ Fallen(tty, page) \/ Fed(tty, page)
      BY <1>1, <1>8 DEF Statement
    <2>2. ~Hidden(tty)
      <3>1. CASE job.pc = "check"
        BY <3>1 DEF KeyTears, ScrubsErased, Hidden
      <3>2. CASE job.pc = "store"
        <4>1. Good(tty, page) \/ tty.y < ROWS
          BY <1>1, <3>2 DEF Statement
        <4>2. tty.y < ROWS => ~Hidden(tty)
          BY <1>1, TerminalType, ScreenSize DEF Hidden
        <4> QED
          BY <1>5, <4>1, <4>2
      <3> QED
        BY <1>8, <3>1, <3>2
    <2>3. Fallen(tty, page) \/ Fed(tty, page) => HasFed
      BY <1>8 DEF Fallen, Fed, HasFed
    <2> QED
      BY <1>2, <1>3, <1>4, <1>6, <2>1, <2>2, <2>3
  <1> QED
    BY <1>2, <1>7, <1>8

LEMMA KeySettles ==
    ASSUME Consistent(tty, page, job), ~KeyTears,
           NEW u \in Terminal, NEW q, PageOK(q), TailOK(q), Good(u, q),
           job.pc \in {"check", "store"} /\ job.ch # Newline => u.x # COLS
    PROVE  Consistent(u, q, job)
  <1>1. JobOK(job) /\ Statement(tty, page, job)
    BY DEF Consistent
  <1>2. /\ job.pc \in {"idle", "test", "return", "check", "store", "clear"}
        /\ job.pc = "return" => job.ch = Newline
        /\ job.pc = "store" => job.ch # Newline
        /\ job.pc = "clear" => job.k = 1
    BY KeyPlaces
  <1>3. job.pc \in {"check", "store"} /\ job.ch # Newline => u.x < COLS
    BY TerminalType, ScreenSize
  <1>4. Statement(u, q, job)
    BY <1>2, <1>3, NothingEmptied DEF Statement
  <1> QED
    BY <1>1, <1>4 DEF Consistent

LEMMA PrefixType ==
    ASSUME NEW S, NEW s \in Seq(S), NEW m \in 0..Len(s)
    PROVE  SubSeq(s, 1, m) \in Seq(S) /\ Len(SubSeq(s, 1, m)) = m
  OBVIOUS

LEMMA InputType ==
    ASSUME EntryOK(entry, page)
    PROVE  /\ entry.input \in Seq({Typed, Colour}) /\ Len(entry.input) \in Nat /\ Len(entry.input) <= MaxInput
           /\ entry.input # <<>> => /\ Rubbed \in Seq({Typed, Colour}) /\ Len(entry.input) > 0
                                    /\ Len(Rubbed) = Len(entry.input) - 1
  <1>1. /\ entry \in [input : Seq({Typed, Colour}), ready : BOOLEAN, running : BOOLEAN]
        /\ entry.input \in Seq({Typed, Colour}) /\ Len(entry.input) \in Nat /\ Len(entry.input) <= MaxInput
    BY DEF EntryOK
  <1>3. ASSUME entry.input # <<>>
        PROVE  /\ Rubbed \in Seq({Typed, Colour}) /\ Len(entry.input) > 0
               /\ Len(Rubbed) = Len(entry.input) - 1
    <2>1. Len(entry.input) > 0
      BY <1>1, <1>3, EmptySeq
    <2>2. Len(entry.input) - 1 \in 0..Len(entry.input)
      BY <1>1, <2>1
    <2> QED
      BY <1>1, <2>1, <2>2, PrefixType DEF Rubbed
  <1> QED
    BY <1>1, <1>3

LEMMA EntryWith ==
    ASSUME EntryOK(entry, page), PageOK(page), NEW q, PageOK(q), NEW w \in Seq({Typed, Colour}), NEW d \in Int,
           Len(w) = Len(entry.input) + d, Len(w) <= MaxInput, q.tail <= page.tail + d \/ q.tail <= Len(w)
    PROVE  EntryOK([entry EXCEPT !.input = w], q)
  <1>1. PICK e : e = [entry EXCEPT !.input = w]
    OBVIOUS
  <1>2. /\ entry \in [input : Seq({Typed, Colour}), ready : BOOLEAN, running : BOOLEAN]
        /\ page.tail <= Len(entry.input) + (IF entry.ready THEN 0 ELSE MaxInput)
    BY DEF EntryOK
  <1>3. /\ e \in [input : Seq({Typed, Colour}), ready : BOOLEAN, running : BOOLEAN]
        /\ e.input = w /\ e.ready = entry.ready
    BY <1>1, <1>2
  <1>4. Len(entry.input) \in Nat /\ Len(w) \in Nat /\ MaxInput \in Nat /\ q.tail \in Nat
        /\ page.tail \in Nat
    BY <1>2, InputFits, PageType
  <1>5. CASE entry.ready
    <2>1. page.tail <= Len(entry.input) + 0
      BY <1>2, <1>5
    <2>2. q.tail <= Len(w) + 0
      BY <1>4, <2>1
    <2> QED
      BY <1>1, <1>3, <1>5, <2>2 DEF EntryOK
  <1>6. CASE ~entry.ready
    <2>1. page.tail <= Len(entry.input) + MaxInput
      BY <1>2, <1>6
    <2>2. q.tail <= Len(w) + MaxInput
      BY <1>4, <2>1
    <2> QED
      BY <1>1, <1>3, <1>6, <2>2 DEF EntryOK
  <1> QED
    BY <1>5, <1>6

LEMMA TailFits ==
    ASSUME EntryOK(entry, page), PageOK(page)
    PROVE  page.tail <= Len(entry.input) + MaxInput
  <1>1. /\ entry.input \in Seq({Typed, Colour}) /\ Len(entry.input) \in Nat /\ MaxInput \in Nat
        /\ page.tail \in Nat
    BY InputType, InputFits, PageType
  <1>2. page.tail <= Len(entry.input) + (IF entry.ready THEN 0 ELSE MaxInput)
    BY DEF EntryOK
  <1>3. CASE entry.ready
    <2>1. page.tail <= Len(entry.input) + 0
      BY <1>2, <1>3
    <2> QED
      BY <1>1, <2>1
  <1>4. CASE ~entry.ready
    BY <1>2, <1>4
  <1> QED
    BY <1>3, <1>4

LEMMA LetterSound ==
    ASSUME Consistent(tty, page, job), EntryOK(entry, page), ~torn', EchoLetter
    PROVE  Consistent(tty', page', job) /\ EntryOK(entry', page')
  <1>1. tty \in Terminal /\ PageOK(page) /\ TailOK(page)
    BY DEF Consistent
  <1>2. ~KeyTears /\ ~FillsLine /\ tty' = PrintChar(tty, Typed) /\ page' = Write(page, Typed)
    BY DEF EchoLetter
  <1>3. Typed \in {Output, Typed} /\ Typed \in {Newline, Output, Typed}
    OBVIOUS
  <1>4. ~Hidden(tty) /\ (Good(tty, page) \/ Fallen(tty, page) \/ Fed(tty, page))
    BY <1>2, KeyPlaces
  <1>5. tty' \in Terminal /\ Good(tty', page')
    BY <1>1, <1>2, <1>3, <1>4, LetterPrinted, PlainIsGood
  <1>6. /\ entry.input \in Seq({Typed, Colour}) /\ Len(entry.input) \in Nat
        /\ Len(entry.input) < MaxInput /\ MaxInput \in Nat /\ page.tail \in Nat
    BY <1>1, InputType, InputFits, PageType DEF EchoLetter
  <1>7. page.tail < 2 * MaxInput
    <2>1. page.tail <= Len(entry.input) + MaxInput
      BY <1>1, TailFits
    <2> QED
      BY <1>6, <2>1
  <1>8. PageOK(page') /\ TailOK(page')
    BY <1>1, <1>2, <1>3, <1>7, WritePage, WriteTail
  <1>9. page'.tail = page.tail + 1
    BY <1>1, <1>2, <1>3, WriteIs
  <1>10. Consistent(tty', page', job)
    <2>1. job.pc \in {"check", "store"} /\ job.ch # Newline => tty'.x # COLS
      BY <1>2 DEF FillsLine
    <2> QED
      BY <1>2, <1>5, <1>8, <2>1, KeySettles
  <1>11. PICK w : w = Append(entry.input, Typed)
    OBVIOUS
  <1>12. w \in Seq({Typed, Colour}) /\ Len(w) = Len(entry.input) + 1 /\ Len(w) <= MaxInput
    BY <1>6, <1>11
  <1>13. entry' = [entry EXCEPT !.input = w]
    BY <1>11 DEF EchoLetter
  <1>14. EntryOK(entry', page')
    <2>1. 1 \in Int /\ page'.tail <= page.tail + 1
      BY <1>6, <1>9
    <2> QED
      BY <1>1, <1>8, <1>12, <1>13, <2>1, EntryWith
  <1> QED
    BY <1>10, <1>14

LEMMA BackslashSound ==
    ASSUME Consistent(tty, page, job), EntryOK(entry, page), EchoBackslash
    PROVE  Consistent(tty', page', job) /\ EntryOK(entry', page')
  <1>1. /\ tty \in Terminal /\ PageOK(page) /\ TailOK(page) /\ JobOK(job) /\ Statement(tty, page, job)
    BY DEF Consistent
  <1>2. page.tail \in Nat
    BY <1>1, PageType
  <1>3. tty' = tty /\ page' = [page EXCEPT !.tail = 0]
    BY DEF EchoBackslash
  <1>4. PageOK(page') /\ TailOK(page') /\ page'.lines = page.lines /\ page'.top = page.top /\ page'.tail = 0
    BY <1>1, <1>2, <1>3, TailCut
  <1>5. Statement(tty, page', job)
    BY <1>1, <1>4, SamePage
  <1>6. Len(entry.input) < MaxInput /\ entry.input \in Seq({Typed, Colour}) /\ Len(entry.input) \in Nat /\ MaxInput \in Nat
    BY InputType, InputFits DEF EchoBackslash
  <1>7. PICK w : w = Append(entry.input, Colour)
    OBVIOUS
  <1>8. w \in Seq({Typed, Colour}) /\ Len(w) = Len(entry.input) + 1 /\ Len(w) <= MaxInput
    BY <1>6, <1>7
  <1>9. entry' = [entry EXCEPT !.input = w]
    BY <1>7 DEF EchoBackslash
  <1>10. page'.tail <= Len(w)
    BY <1>4, <1>6, <1>8
  <1>11. EntryOK(entry', page')
    <2>1. 1 \in Int
      OBVIOUS
    <2> QED
      BY <1>1, <1>4, <1>8, <1>9, <1>10, <2>1, EntryWith
  <1> QED
    BY <1>1, <1>3, <1>4, <1>5, <1>11 DEF Consistent

(* Where a letter may be rubbed out. *)
LEMMA RubStep ==
    ASSUME Consistent(tty, page, job), ~KeyTears, ~EraseTears
    PROVE  /\ DoBackspace(tty) \in Terminal /\ Good(DoBackspace(tty), Erased) /\ DoBackspace(tty).x # COLS
           /\ PageOK(Erased) /\ TailOK(Erased) /\ Erased.tail = page.tail - 1
  <1>1. tty \in Terminal /\ PageOK(page) /\ TailOK(page)
    BY DEF Consistent
  <1>2. page.tail > 0 /\ tty.x # COLS /\ ~HasFed
    BY <1>1, PageType DEF EraseTears
  <1>3. Good(tty, page)
    BY <1>2, KeyPlaces
  <1>4. Erased = Erase(page)
    BY <1>2 DEF Erased
  <1>5. Erase(page).tail = page.tail - 1
    BY <1>1, <1>2, EraseIs
  <1>6. DoBackspace(tty) \in Terminal /\ Good(DoBackspace(tty), Erase(page)) /\ DoBackspace(tty).x # COLS
    BY <1>1, <1>2, <1>3, RubOut
  <1>7. PageOK(Erase(page)) /\ TailOK(Erase(page))
    BY <1>1, <1>2, ErasePage
  <1> QED
    BY <1>4, <1>5, <1>6, <1>7

LEMMA BackspaceSound ==
    ASSUME Consistent(tty, page, job), EntryOK(entry, page), ~torn', EchoBackspace
    PROVE  Consistent(tty', page', job) /\ EntryOK(entry', page')
  <1>1. PageOK(page) /\ page.tail \in Nat
    BY PageType DEF Consistent
  <1>2. ~KeyTears /\ ~EraseTears /\ tty' = DoBackspace(tty) /\ page' = Erased
    BY DEF EchoBackspace
  <1>3. /\ tty' \in Terminal /\ Good(tty', page') /\ tty'.x # COLS
        /\ PageOK(page') /\ TailOK(page') /\ page'.tail = page.tail - 1
    BY <1>2, RubStep
  <1>4. Consistent(tty', page', job)
    BY <1>2, <1>3, KeySettles
  <1>5. PICK w : w = Rubbed
    OBVIOUS
  <1>6. /\ w \in Seq({Typed, Colour}) /\ Len(w) = Len(entry.input) - 1 /\ Len(entry.input) \in Nat
        /\ Len(entry.input) <= MaxInput /\ MaxInput \in Nat
    BY <1>5, InputType, InputFits DEF EchoBackspace
  <1>7. Len(w) = Len(entry.input) + (-1) /\ Len(w) <= MaxInput /\ page'.tail <= page.tail + (-1)
    BY <1>1, <1>3, <1>6
  <1>8. entry' = [entry EXCEPT !.input = w] /\ -1 \in Int
    BY <1>5 DEF EchoBackspace
  <1>9. EntryOK(entry', page')
    BY <1>1, <1>3, <1>6, <1>7, <1>8, EntryWith
  <1> QED
    BY <1>4, <1>9

LEMMA TypingType ==
    ASSUME NEW n \in Nat
    PROVE  /\ Typing(n) \in Seq({Typed}) /\ Len(Typing(n)) = n
           /\ \A k \in 1..n : Typing(n)[k] = Typed
  <1>1. PICK s : s = [k \in 1..n |-> Typed]
    OBVIOUS
  <1>2. s \in Seq({Typed}) /\ Len(s) = n /\ \A k \in 1..n : s[k] = Typed
    BY <1>1
  <1> QED
    BY <1>1, <1>2 DEF Typing

LEMMA CompletionSound ==
    ASSUME Consistent(tty, page, job), EntryOK(entry, page), ~torn', EchoCompletion
    PROVE  Consistent(tty', page', job) /\ EntryOK(entry', page')
  <1>1. PageOK(page) /\ page.tail \in Nat
    BY PageType DEF Consistent
  <1>2. PICK t : t = DoBackspace(tty)
    OBVIOUS
  <1>3. PICK p : p = Erased
    OBVIOUS
  <1>4. PICK m : m = IF Len(entry.input) < MaxInput THEN 2 ELSE 1
    OBVIOUS
  <1>5. PICK text : text = Typing(m)
    OBVIOUS
  <1>6. /\ ~KeyTears /\ ~EraseTears /\ ~FillsLine /\ entry.input # <<>>
        /\ tty' = Echo(t, p, text).tty /\ page' = Echo(t, p, text).page
        /\ entry' = [entry EXCEPT !.input = Rubbed \o text]
    BY <1>2, <1>3, <1>4, <1>5 DEF EchoCompletion, Completed
  <1>7. /\ t \in Terminal /\ Good(t, p) /\ PageOK(p) /\ TailOK(p) /\ p.tail = page.tail - 1
    BY <1>2, <1>3, <1>6, RubStep
  <1>8. /\ Rubbed \in Seq({Typed, Colour}) /\ Len(Rubbed) = Len(entry.input) - 1 /\ Len(entry.input) \in Nat
        /\ Len(entry.input) <= MaxInput /\ MaxInput \in Nat /\ Len(entry.input) > 0
    BY <1>6, InputType, InputFits
  <1>9. m \in {1, 2} /\ Len(entry.input) - 1 + m <= MaxInput
    <2>1. CASE Len(entry.input) < MaxInput
      BY <1>4, <1>8, <2>1
    <2>2. CASE ~(Len(entry.input) < MaxInput)
      BY <1>4, <1>8, <2>2
    <2> QED
      BY <2>1, <2>2
  <1>10. text \in Seq({Typed}) /\ Len(text) = m /\ \A n \in 1..m : text[n] = Typed
    BY <1>5, <1>9, TypingType
  <1>11. text \in Seq({Newline, Output, Typed}) /\ text \in Seq({Typed, Colour}) /\ text # <<>> /\ 0 \in 0..Len(text)
    BY <1>9, <1>10
  <1>12. p.tail + Len(text) <= 2 * MaxInput
    <2>1. page.tail <= Len(entry.input) + MaxInput
      BY <1>1, TailFits
    <2> QED
      BY <1>1, <1>7, <1>8, <1>9, <1>10, <2>1
  <1>13. \A n \in 1..Len(text) : text[n] = Typed <=> n > 0
    BY <1>9, <1>10
  <1>14. /\ tty' \in Terminal /\ Plain(tty', page') /\ PageOK(page') /\ TailOK(page')
         /\ page'.tail = p.tail + Len(text)
    BY <1>6, <1>7, <1>11, <1>12, <1>13, EchoStep
  <1>15. Consistent(tty', page', job)
    <2>1. job.pc \in {"check", "store"} /\ job.ch # Newline => tty'.x # COLS
      BY <1>6 DEF FillsLine
    <2> QED
      BY <1>6, <1>14, <2>1, PlainIsGood, KeySettles
  <1>16. PICK w : w = Rubbed \o text
    OBVIOUS
  <1>17. w \in Seq({Typed, Colour}) /\ Len(w) = Len(Rubbed) + m
    BY <1>8, <1>10, <1>11, <1>16
  <1>18. PICK d \in Int : d = m - 1
    BY <1>9
  <1>19. Len(w) = Len(entry.input) + d /\ Len(w) <= MaxInput /\ page'.tail <= page.tail + d
    BY <1>1, <1>7, <1>8, <1>9, <1>10, <1>14, <1>17, <1>18
  <1>20. EntryOK(entry', page')
    BY <1>1, <1>6, <1>14, <1>16, <1>17, <1>19, EntryWith
  <1> QED
    BY <1>15, <1>20

(* The letters of the line, and those behind the last colour. *)
LEMMA RunLength ==
    ASSUME NEW s \in Seq({Typed, Colour})
    PROVE  LET n == Cardinality({k \in DOMAIN s : s[k] = Typed})
           IN  n \in Nat /\ n <= Len(s) /\ LastRun(s) \in Nat /\ LastRun(s) <= n
  <1> DEFINE All == {k \in DOMAIN s : s[k] = Typed}
             Ending == {k \in DOMAIN s : \A l \in k..Len(s) : s[l] = Typed}
  <1>1. Len(s) \in Nat /\ DOMAIN s = 1..Len(s)
    OBVIOUS
  <1>2. All \in SUBSET (1..Len(s))
    BY <1>1
  <1>3. Ending \in SUBSET All
    BY <1>1
  <1>4. LastRun(s) = Cardinality(Ending)
    BY DEF LastRun
  <1> HIDE DEF All, Ending
  <1>5. IsFiniteSet(1..Len(s)) /\ Cardinality(1..Len(s)) = Len(s)
    BY <1>1, FS_Interval
  <1>6. IsFiniteSet(All) /\ Cardinality(All) <= Len(s)
    BY <1>2, <1>5, FS_Subset
  <1>7. IsFiniteSet(Ending) /\ Cardinality(Ending) <= Cardinality(All)
    BY <1>3, <1>6, FS_Subset
  <1>8. Cardinality(All) \in Nat /\ Cardinality(Ending) \in Nat
    BY <1>6, <1>7, FS_CardinalityType
  <1> QED
    BY <1>4, <1>6, <1>7, <1>8 DEF All

LEMMA JoinIs ==
    ASSUME NEW S, NEW a \in Seq(S), NEW b \in Seq(S)
    PROVE  /\ a \o b \in Seq(S) /\ Len(a \o b) = Len(a) + Len(b)
           /\ \A n \in 1..Len(a) : (a \o b)[n] = a[n]
           /\ \A n \in 1..Len(b) : (a \o b)[Len(a) + n] = b[n]
  OBVIOUS

LEMMA ListSound ==
    ASSUME Consistent(tty, page, job), EntryOK(entry, page), ~torn', EchoList
    PROVE  Consistent(tty', page', job) /\ EntryOK(entry', page')
  <1>1. tty \in Terminal /\ PageOK(page) /\ TailOK(page) /\ page.tail \in Nat
    BY PageType DEF Consistent
  <1>2. PICK t : t = DoClearCursor(tty)
    OBVIOUS
  <1>3. PICK m : m = Cardinality({k \in DOMAIN entry.input : entry.input[k] = Typed})
    OBVIOUS
  <1>4. PICK text : text = Listing \o Typing(m)
    OBVIOUS
  <1>5. PICK r : r = LastRun(entry.input)
    OBVIOUS
  <1>6. PICK p : p = Echo(t, page, text).page
    OBVIOUS
  <1>7. /\ ~KeyTears /\ ~FeedTears /\ ~FillsLine /\ entry' = entry
        /\ tty' = Echo(t, page, text).tty /\ page' = [p EXCEPT !.tail = r]
    BY <1>2, <1>3, <1>4, <1>5, <1>6 DEF EchoList, Shown
  <1>8. Good(tty, page) /\ tty.x # COLS
    BY <1>7, KeyPlaces DEF FeedTears
  <1>9. t \in Terminal /\ Plain(t, page)
    BY <1>1, <1>2, <1>8, ClearCursorStep
  <1>10. /\ entry.input \in Seq({Typed, Colour}) /\ Len(entry.input) \in Nat
         /\ Len(entry.input) <= MaxInput /\ MaxInput \in Nat
    BY InputType, InputFits
  <1>11. m \in Nat /\ m <= Len(entry.input) /\ r \in Nat /\ r <= m
    BY <1>3, <1>5, <1>10, RunLength
  <1>12. /\ text \in Seq({Newline, Output, Typed}) /\ Len(text) = 4 + m /\ text # <<>>
         /\ \A n \in 1..Len(text) : text[n] = Typed <=> n > 4
    <2>1. /\ Typing(m) \in Seq({Newline, Output, Typed}) /\ Len(Typing(m)) = m
          /\ \A k \in 1..m : Typing(m)[k] = Typed
      BY <1>11, TypingType
    <2>2. /\ Listing \in Seq({Newline, Output, Typed}) /\ Len(Listing) = 4
          /\ \A k \in 1..4 : Listing[k] # Typed
      <3>1. \A k \in 1..4 : k = 1 \/ k = 2 \/ k = 3 \/ k = 4
        OBVIOUS
      <3>2. Listing[1] # Typed /\ Listing[2] # Typed /\ Listing[3] # Typed /\ Listing[4] # Typed
        BY GlyphsApart DEF Listing
      <3>3. Listing \in Seq({Newline, Output, Typed}) /\ Len(Listing) = 4
        BY DEF Listing
      <3> QED
        BY <3>1, <3>2, <3>3
    <2>3. PICK S : S = {Newline, Output, Typed}
      OBVIOUS
    <2>4. PICK a \in Seq(S) : a = Listing
      BY <2>2, <2>3
    <2>5. PICK b \in Seq(S) : b = Typing(m)
      BY <2>1, <2>3
    <2>6. text = a \o b /\ Len(a) = 4 /\ Len(b) = m
      BY <1>4, <2>1, <2>2, <2>4, <2>5
    <2>7. /\ a \o b \in Seq(S) /\ Len(a \o b) = Len(a) + Len(b)
          /\ \A n \in 1..Len(a) : (a \o b)[n] = a[n]
          /\ \A n \in 1..Len(b) : (a \o b)[Len(a) + n] = b[n]
      BY JoinIs
    <2>8. text \in Seq(S) /\ Len(text) = 4 + m
      BY <2>6, <2>7
    <2>9. ASSUME NEW n \in 1..Len(text)
          PROVE  text[n] = Typed <=> n > 4
      <3>1. CASE n <= 4
        <4>1. n \in 1..4
          BY <1>11, <2>8, <3>1
        <4>2. text[n] = a[n]
          BY <2>6, <2>7, <4>1
        <4> QED
          BY <2>2, <2>4, <3>1, <4>1, <4>2
      <3>2. CASE n > 4
        <4>1. n - 4 \in 1..m /\ 4 + (n - 4) = n
          BY <1>11, <2>8, <3>2
        <4>2. text[n] = b[n - 4]
          BY <2>6, <2>7, <4>1
        <4> QED
          BY <2>1, <2>5, <3>2, <4>1, <4>2
      <3> QED
        BY <1>11, <2>8, <3>1, <3>2
    <2>10. text # <<>>
      <3>1. Len(text) # 0
        BY <1>11, <2>8
      <3> QED
        BY <3>1
    <2> QED
      BY <2>3, <2>8, <2>9, <2>10
  <1>13. 4 \in 0..Len(text) /\ Len(text) - 4 = m /\ Len(text) - 4 <= 2 * MaxInput
    BY <1>10, <1>11, <1>12
  <1>14. PICK four : four = 4
    OBVIOUS
  <1>15. /\ tty' \in Terminal /\ Plain(tty', p) /\ PageOK(p) /\ TailOK(p) /\ p.tail = m
    <2>1. /\ four \in 0..Len(text) /\ four # 0 /\ Len(text) - four = m /\ Len(text) - four <= 2 * MaxInput
          /\ \A n \in 1..Len(text) : text[n] = Typed <=> n > four
      BY <1>12, <1>13, <1>14
    <2> QED
      BY <1>1, <1>6, <1>7, <1>9, <1>12, <2>1, EchoStep
  <1>16. PageOK(page') /\ TailOK(page') /\ page'.lines = p.lines /\ page'.top = p.top /\ page'.tail = r
    BY <1>7, <1>11, <1>15, TailCut
  <1>17. Good(tty', page')
    BY <1>15, <1>16, PlainIsGood DEF Good, AtEnd, LastLine
  <1>18. Consistent(tty', page', job)
    <2>1. job.pc \in {"check", "store"} /\ job.ch # Newline => tty'.x # COLS
      BY <1>7 DEF FillsLine
    <2> QED
      BY <1>7, <1>15, <1>16, <1>17, <2>1, KeySettles
  <1>19. EntryOK(entry, page')
    <2>1. r <= Len(entry.input) + 0 /\ r <= Len(entry.input) + MaxInput
      BY <1>10, <1>11
    <2> QED
      BY <1>16, <2>1 DEF EntryOK
  <1> QED
    BY <1>7, <1>18, <1>19

LEMMA EnterSound ==
    ASSUME Consistent(tty, page, job), EntryOK(entry, page), ~torn', EchoEnter
    PROVE  Consistent(tty', page', job) /\ EntryOK(entry', page')
  <1>1. tty \in Terminal /\ PageOK(page) /\ TailOK(page)
    BY DEF Consistent
  <1>2. PICK t : t = DoClearCursor(tty)
    OBVIOUS
  <1>3. /\ ~KeyTears /\ ~FeedTears /\ tty' = PrintChar(t, Newline) /\ page' = Write(page, Newline)
        /\ entry' = [entry EXCEPT !.ready = TRUE]
    BY <1>2 DEF EchoEnter
  <1>4. Good(tty, page) /\ tty.x # COLS
    BY <1>3, KeyPlaces DEF FeedTears
  <1>5. t \in Terminal /\ Plain(t, page)
    BY <1>1, <1>2, <1>4, ClearCursorStep
  <1>6. tty' \in Terminal /\ Plain(tty', page')
    BY <1>1, <1>3, <1>5, NewlinePrinted
  <1>7. Newline \in {Newline, Output, Typed} /\ Newline # Typed
    BY GlyphsApart
  <1>8. PageOK(page') /\ TailOK(page')
    BY <1>1, <1>3, <1>7, WritePage, WriteTail
  <1>9. page'.tail = 0 /\ Len(LastLine(page')) = 0
    BY <1>1, <1>3, <1>7, WriteIs
  <1>10. tty'.x # COLS
    BY <1>6, <1>9, ScreenSize DEF Plain, AtEnd
  <1>11. Consistent(tty', page', job)
    BY <1>3, <1>6, <1>8, <1>10, PlainIsGood, KeySettles
  <1>12. EntryOK(entry', page')
    <2>1. /\ entry \in [input : Seq({Typed, Colour}), ready : BOOLEAN, running : BOOLEAN]
          /\ Len(entry.input) <= MaxInput
      BY DEF EntryOK
    <2>2. /\ entry' \in [input : Seq({Typed, Colour}), ready : BOOLEAN, running : BOOLEAN]
          /\ entry'.input = entry.input /\ entry'.ready = TRUE
      BY <1>3, <2>1
    <2>3. 0 <= Len(entry.input) + 0
      BY <2>1
    <2> QED
      BY <1>9, <2>1, <2>2, <2>3 DEF EntryOK
  <1> QED
    BY <1>11, <1>12

-----------------------------------------------------------------------------
(* The whole. *)

LEMMA FirstConsole == ConsoleInit => ConsoleInv
  <1> SUFFICES ASSUME ConsoleInit PROVE Consistent(tty, page, job) /\ EntryOK(entry, page)
    BY DEF ConsoleInv
  <1>1. PICK b : b = [c \in Cell |-> Blank]
    OBVIOUS
  <1>2. b \in [Cell -> Glyph] /\ \A c \in Cell : b[c] = Blank
    BY <1>1 DEF Glyph
  <1>3. tty = [screen |-> b, buf |-> b, x |-> 0, y |-> 0, blink |-> FALSE, drawn |-> None]
    BY <1>1 DEF ConsoleInit
  <1>4. 0 \in 0..COLS /\ 0 \in 0..ROWS /\ None \in Cell \cup Nowhere
    BY ScreenSize DEF Nowhere
  <1>5. tty \in Terminal /\ tty.screen = b /\ tty.x = 0 /\ tty.y = 0 /\ tty.drawn = None
    BY <1>2, <1>3, <1>4 DEF Terminal
  <1>6. PICK ls : ls = << <<>> >>
    OBVIOUS
  <1>7. ls \in Seq(Seq(Ink)) /\ Len(ls) = 1 /\ ls[1] = <<>> /\ Len(ls[1]) = 0
    BY <1>6
  <1>8. page = [lines |-> ls, top |-> 0, tail |-> 0]
    BY <1>6 DEF ConsoleInit
  <1>9. page \in Paper /\ page.lines = ls /\ page.top = 0 /\ page.tail = 0
    BY <1>7, <1>8 DEF Paper
  <1>10. PageOK(page)
    <2>1. 0 < Len(ls) /\ Len(ls) <= 0 + ROWS
      BY <1>7, ScreenSize
    <2>2. \A n \in 1..Len(ls) : Len(ls[n]) <= COLS
      <3>1. \A n \in 1..Len(ls) : n = 1
        BY <1>7
      <3> QED
        BY <1>7, <3>1, ScreenSize
    <2> QED
      BY <1>9, <2>1, <2>2 DEF PageOK
  <1>11. TailOK(page)
    <2>1. 1 - 0 - 1 = 0 /\ \A j \in 1..1-1 : FALSE
      OBVIOUS
    <2>2. 0 <= Cells(1 - 0 - 1) + 0
      BY <2>1, CellsOf
    <2>3. Len(page.lines) = 1 /\ page.top = 0 /\ page.tail = 0 /\ Len(page.lines[1]) = 0
      BY <1>7, <1>9
    <2> QED
      BY <2>1, <2>2, <2>3 DEF TailOK
  <1>12. LastLine(page) = <<>> /\ Len(LastLine(page)) = 0 /\ Len(page.lines) - page.top - 1 = 0
    <2>1. page.lines[Len(page.lines)] = <<>>
      BY <1>7, <1>9
    <2>2. Len(page.lines) = 1 /\ page.top = 0 /\ 1 - 0 - 1 = 0
      BY <1>7, <1>9
    <2>3. Len(page.lines) - page.top - 1 = 0
      BY <2>2
    <2>4. Len(<<>>) = 0
      OBVIOUS
    <2> QED
      BY <2>1, <2>3, <2>4 DEF LastLine
  <1>13. Good(tty, page)
    <2>1. AtEnd(tty, page)
      BY <1>5, <1>12 DEF AtEnd
    <2>2. ASSUME NEW c \in Cell
          PROVE  tty.screen[c] = TextAt(page.lines, page.top, c)
      <3>1. \/ page.top + c[1] + 1 > Len(page.lines)
            \/ page.top + c[1] + 1 = Len(page.lines) /\ c[2] >= Len(LastLine(page))
        BY <1>7, <1>9, <1>12, CellPair, ScreenSize
      <3>2. TextAt(page.lines, page.top, c) = Blank
        BY <1>9, <1>10, <3>1, TextEnds
      <3> QED
        BY <1>2, <1>5, <3>2
    <2> QED
      BY <1>5, <2>1, <2>2 DEF Good, Lit, Known, Nowhere
  <1>14. job = [pc |-> "idle", ch |-> Blank, k |-> 1]
    BY DEF ConsoleInit
  <1>15. JobOK(job) /\ job.pc = "idle"
    BY <1>14 DEF JobOK, PrintPlaces
  <1>16. Statement(tty, page, job)
    BY <1>13, <1>15 DEF Statement
  <1>17. EntryOK(entry, page)
    <2>1. entry = [input |-> <<>>, ready |-> FALSE, running |-> TRUE]
      BY DEF ConsoleInit
    <2>2. entry.input = <<>> /\ entry.ready = FALSE /\ Len(entry.input) = 0 /\ MaxInput \in Nat
      BY <2>1, InputFits
    <2>3. entry \in [input : Seq({Typed, Colour}), ready : BOOLEAN, running : BOOLEAN]
      BY <2>1
    <2> QED
      BY <1>9, <2>2, <2>3 DEF EntryOK
  <1> QED
    BY <1>5, <1>10, <1>11, <1>15, <1>16, <1>17 DEF Consistent

LEMMA BeginSound ==
    ASSUME Consistent(tty, page, job), Begin
    PROVE  Consistent(tty', page', job')
  <1>1. /\ tty \in Terminal /\ PageOK(page) /\ TailOK(page) /\ JobOK(job) /\ Statement(tty, page, job)
    BY DEF Consistent
  <1>2. job.pc = "idle" /\ tty' = tty /\ page' = page
    BY DEF Begin, Printing
  <1>3. Good(tty, page)
    BY <1>1, <1>2 DEF Statement
  <1>4. \/ \E c \in {Output, Newline} : job' = [pc |-> "test", ch |-> c, k |-> 1]
        \/ job' = [pc |-> "clear", ch |-> Blank, k |-> 1]
    BY DEF Begin
  <1>5. CASE \E c \in {Output, Newline} : job' = [pc |-> "test", ch |-> c, k |-> 1]
    <2>1. PICK c \in {Output, Newline} : job' = [pc |-> "test", ch |-> c, k |-> 1]
      BY <1>5
    <2>2. c # Blank
      BY GlyphsApart
    <2>3. JobOK(job') /\ job'.pc = "test"
      BY <2>1, <2>2 DEF JobOK, PrintPlaces, ClearPlaces
    <2> QED
      BY <1>1, <1>2, <1>3, <2>3 DEF Consistent, Statement
  <1>6. CASE job' = [pc |-> "clear", ch |-> Blank, k |-> 1]
    <2>1. JobOK(job') /\ job'.pc = "clear" /\ job'.k = 1
      BY <1>6 DEF JobOK, PrintPlaces, ClearPlaces
    <2> QED
      BY <1>1, <1>2, <1>3, <2>1, NothingEmptied DEF Consistent, Statement
  <1> QED
    BY <1>4, <1>5, <1>6

LEMMA SconfSound ==
    ASSUME EntryOK(entry, page), PageOK(page), Sconf
    PROVE  EntryOK(entry', page)
  <1>1. /\ entry \in [input : Seq({Typed, Colour}), ready : BOOLEAN, running : BOOLEAN]
        /\ Len(entry.input) \in Nat /\ Len(entry.input) <= MaxInput
    BY DEF EntryOK
  <1>2. CASE entry.running /\ entry' = [entry EXCEPT !.running = FALSE]
    <2>1. /\ entry' \in [input : Seq({Typed, Colour}), ready : BOOLEAN, running : BOOLEAN]
          /\ entry'.input = entry.input /\ entry'.ready = entry.ready
      BY <1>1, <1>2
    <2> QED
      BY <1>1, <2>1 DEF EntryOK
  <1>3. CASE ~entry.running /\ entry.ready /\ entry' = [input |-> <<>>, ready |-> FALSE, running |-> TRUE]
    <2>1. entry'.input = <<>> /\ entry'.ready = FALSE /\ Len(entry'.input) = 0
      BY <1>3
    <2>2. entry' \in [input : Seq({Typed, Colour}), ready : BOOLEAN, running : BOOLEAN]
      BY <1>3
    <2>3. page.tail <= Len(entry.input) + 0
      BY <1>3 DEF EntryOK
    <2>4. page.tail <= 0 + MaxInput /\ 0 <= MaxInput
      BY <1>1, <2>3, InputFits, PageType
    <2> QED
      BY <2>1, <2>2, <2>4 DEF EntryOK
  <1> QED
    BY <1>2, <1>3 DEF Sconf

(* The command's characters only end the run of typed letters. *)
LEMMA EntryKept ==
    ASSUME EntryOK(entry, page), PageOK(page), NEW q, q.tail \in {page.tail, 0}
    PROVE  EntryOK(entry, q)
  <1>1. Len(entry.input) \in Nat /\ MaxInput \in Nat
    BY InputType, InputFits
  <1>2. 0 <= Len(entry.input) + (IF entry.ready THEN 0 ELSE MaxInput)
    <2>1. 0 <= Len(entry.input) + 0 /\ 0 <= Len(entry.input) + MaxInput
      BY <1>1
    <2> QED
      BY <2>1
  <1> QED
    BY <1>2 DEF EntryOK

LEMMA ConsoleStep == ConsoleInv /\ [ConsoleNext]_consoleVars => ConsoleInv'
  <1> SUFFICES ASSUME ConsoleInv, [ConsoleNext]_consoleVars, ~torn'
               PROVE  Consistent(tty', page', job') /\ EntryOK(entry', page')
    BY DEF ConsoleInv
  <1>1. CASE UNCHANGED consoleVars
    BY <1>1 DEF ConsoleInv, consoleVars
  <1>2. ~torn => Consistent(tty, page, job) /\ EntryOK(entry, page) /\ PageOK(page)
    BY DEF ConsoleInv, Consistent
  <1>3. CASE PrintStep /\ UNCHANGED <<entry, prints, strokes, ticks>>
    <2>1. ~torn
      BY <1>3 DEF PrintStep
    <2> QED
      BY <1>2, <1>3, <2>1, PrintSound, EntryKept
  <1>4. CASE ScreenClear /\ UNCHANGED <<page, entry, torn, prints, strokes, ticks>>
    BY <1>2, <1>4, ClearSound
  <1>5. CASE PrintCenter /\ UNCHANGED <<entry, torn, prints, strokes, ticks>>
    BY <1>2, <1>5, CenterSound, EntryKept
  <1>6. CASE Begin
    <2>1. ~torn /\ page' = page /\ entry' = entry
      BY <1>6 DEF Begin
    <2> QED
      BY <1>2, <1>6, <2>1, BeginSound
  <1>7. CASE Sconf
    <2>1. ~torn /\ tty' = tty /\ page' = page /\ job' = job
      BY <1>7 DEF Sconf
    <2> QED
      BY <1>2, <1>7, <2>1, SconfSound
  <1>8. CASE Blink
    <2>1. ~torn /\ page' = page /\ entry' = entry
      BY <1>8 DEF Blink
    <2> QED
      BY <1>2, <1>8, <2>1, BlinkSound
  <1>9. CASE Key
    <2>1. job' = job
      BY <1>9 DEF Key
    <2>2. CASE EchoLetter
      BY <1>2, <2>1, <2>2, LetterSound DEF EchoLetter
    <2>3. CASE EchoBackslash
      BY <1>2, <2>1, <2>3, BackslashSound DEF EchoBackslash
    <2>4. CASE EchoBackspace
      BY <1>2, <2>1, <2>4, BackspaceSound DEF EchoBackspace
    <2>5. CASE EchoCompletion
      BY <1>2, <2>1, <2>5, CompletionSound DEF EchoCompletion
    <2>6. CASE EchoList
      BY <1>2, <2>1, <2>6, ListSound DEF EchoList
    <2>7. CASE EchoEnter
      BY <1>2, <2>1, <2>7, EnterSound DEF EchoEnter
    <2> QED
      BY <1>9, <2>2, <2>3, <2>4, <2>5, <2>6, <2>7 DEF Key
  <1> QED
    BY <1>1, <1>3, <1>4, <1>5, <1>6, <1>7, <1>8, <1>9 DEF ConsoleNext

LEMMA ConsoleInductive == ConsoleSpec => []ConsoleInv
  <1> QED
    BY FirstConsole, ConsoleStep, PTL DEF ConsoleSpec

(* print_char stores within screen_buf, however many rows and columns the     *)
(* screen has and whatever interrupts come, up to the windows that `torn`     *)
(* names.                                                                     *)
THEOREM ConsoleStoresInside == ConsoleSpec => []StoresInside
  <1>1. ConsoleInv => StoresInside
    <2> SUFFICES ASSUME ConsoleInv, job.pc = "store", ~torn
                 PROVE  Here(tty) \in Cell
      BY DEF StoresInside
    <2>1. /\ tty \in Terminal /\ PageOK(page)
          /\ (Good(tty, page) /\ tty.x < COLS) \/ (Fed(tty, page) /\ tty.y < ROWS)
      BY DEF ConsoleInv, Consistent, Statement
    <2>2. tty.x # COLS /\ tty.y # ROWS
      <3>1. CASE Good(tty, page) /\ tty.x < COLS
        BY <2>1, <3>1, EndInside, ScreenSize
      <3>2. CASE Fed(tty, page) /\ tty.y < ROWS
        BY <3>2, ScreenSize DEF Fed
      <3> QED
        BY <2>1, <3>1, <3>2
    <2> QED
      BY <2>1, <2>2, TerminalType
  <1> QED
    BY <1>1, ConsoleInductive, PTL

(* Between two characters of the command the screen shows the text that was   *)
(* written and not erased, and nothing else but the cursor behind it          *)
(* (print_char, do_backspace, handle_tab, timer_vga_callback and clear, in    *)
(* any order, up to the windows that `torn` names).                           *)
THEOREM ConsoleTextIsShown == ConsoleSpec => []TextIsShown
  <1>1. ConsoleInv => TextIsShown
    <2> SUFFICES ASSUME ConsoleInv, ~Printing, ~torn
                 PROVE  /\ Here(tty) = <<Len(page.lines) - page.top - 1, Len(LastLine(page))>>
                        /\ \A c \in Cell : \/ tty.screen[c] = TextAt(page.lines, page.top, c)
                                           \/ c = Here(tty) /\ tty.screen[c] = Cursor
      BY DEF TextIsShown
    <2>1. Good(tty, page)
      BY DEF ConsoleInv, Consistent, Statement, Printing
    <2>2. Here(tty) = <<Len(page.lines) - page.top - 1, Len(LastLine(page))>>
      BY <2>1 DEF Good, AtEnd, Here
    <2> QED
      BY <2>1, <2>2 DEF Good, Lit
  <1> QED
    BY <1>1, ConsoleInductive, PTL
=============================================================================
