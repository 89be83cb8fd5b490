----------------------------- MODULE LineEditor -----------------------------
(***************************************************************************)
(* The input line in which a setting is typed (Input, SelectionState,      *)
(* UndoRedoHistory and TextHelper of cpptui).                              *)
(*                                                                         *)
(* The text is a sequence of bytes, the cursor and the selection count     *)
(* characters, the view and the mouse count cells, and a key carries one   *)
(* byte. Bytes are taken by what the code tells apart: a word character, a *)
(* space, a line end, the first byte of a character of two and its second. *)
(* The latter stands for the wide characters as well: it fills two cells.  *)
(***************************************************************************)
EXTENDS Integers, SequencesExt

CONSTANTS
    LineWidth,    \* the cells of the line
    KeyByte,      \* what a key may carry
    FieldText,    \* the values a field may have when it is opened
    PasteText,    \* what a terminal may paste, or other programs put in the clipboard
    HistorySize,  \* MAX_HISTORY, 100 in the code
    MaxLineInput, \* bound on what the user does
    MaxBytes      \* bound on the text

Typeable == {"a", " ", "lead", "cont"}
Byte == Typeable \cup {"newline"}

ASSUME LineAssumption ==
    /\ LineWidth \in Nat \ {0} /\ HistorySize \in Nat \ {0} /\ MaxLineInput \in Nat /\ MaxBytes \in Nat
    /\ KeyByte \subseteq Typeable /\ FieldText \subseteq Seq(Typeable) /\ PasteText \subseteq Seq(Byte)

None0 == -1

VARIABLES
    line,      \* the text, the cursor, the selection and the view
    undo,      \* UndoRedoHistory
    clipboard, \* what the clipboard holds
    lineWas    \* history: the texts before each edit and after each undo, and what went wrong

lineVars == <<line, undo, clipboard, lineWas>>

-----------------------------------------------------------------------------
(* Text.                                                                   *)

\* prepare_text_for_render(): a first byte takes whatever follows it, one at the end of the
\* text is skipped.
Read(so, b) ==
    IF so.lead THEN [chars |-> Append(so.chars, <<"lead", b>>), lead |-> FALSE]
    ELSE IF b = "lead" THEN [chars |-> so.chars, lead |-> TRUE]
    ELSE [chars |-> Append(so.chars, <<b>>), lead |-> FALSE]
Readings(text) ==
    LET read[i \in 0 .. Len(text)] ==
            IF i = 0 THEN [chars |-> <<>>, lead |-> FALSE] ELSE Read(read[i - 1], text[i])
    IN  read
Chars(text) == Readings(text)[Len(text)].chars
CharCount(text) == Len(Chars(text))

\* char_to_byte_pos(): past the last character is the end, a byte that was skipped included.
ByteAt(text, k) ==
    IF k > CharCount(text) THEN Len(text) ELSE Len(FlattenSeq(SubSeq(Chars(text), 1, k)))
Cut(text, from, to) == SubSeq(text, 1, from) \o SubSeq(text, to + 1, Len(text))
Inserted(text, at, bytes) == SubSeq(text, 1, at) \o bytes \o SubSeq(text, at + 1, Len(text))

CellsOf(char) == IF char[1] = "lead" THEN 2 ELSE 1
Cells(chars) ==
    LET upTo[k \in 0 .. Len(chars)] == IF k = 0 THEN 0 ELSE upTo[k - 1] + CellsOf(chars[k])
    IN  upTo
CellOf(chars, k) == Cells(chars)[Min({k, Len(chars)})]
CellAt(text, k) == CellOf(Chars(text), k)

\* visual_to_char_pos().
CharAt(text, cell) ==
    LET chars == Chars(text) IN
    Min({Len(chars)} \cup {i \in 0 .. Len(chars) - 1 : CellOf(chars, i) + (CellsOf(chars[i + 1]) \div 2) >= cell})

\* select_word_at(): a character outside a word is selected alone.
WordAt(text, k) ==
    LET chars == Chars(text)
        InWord(i) == chars[i] = <<"a">>
    IN  IF k >= Len(chars) THEN <<k, k>>
        ELSE IF ~InWord(k + 1) THEN <<k, k + 1>>
        ELSE <<Min({s \in 0 .. k : \A i \in s + 1 .. k : InWord(i)}),
               Max({e \in k + 1 .. Len(chars) : \A i \in k + 1 .. e : InWord(i)})>>

IsSpace(text, i) == Chars(text)[i] = <<" ">>
NextWord(text, k) ==
    LET n == CharCount(text)
        word == Min({n} \cup {i \in k .. n - 1 : ~IsSpace(text, i + 1)})
    IN  IF k > n THEN k ELSE Min({n} \cup {i \in word .. n - 1 : IsSpace(text, i + 1)})

\* find_prev_word_boundary() reads past the characters when the cursor is there: whatever it
\* finds, it ends before the cursor.
PrevWord(text, k) ==
    LET last == Max({0} \cup {i \in 1 .. k - 1 : ~IsSpace(text, i + 1)})
    IN  IF k > CharCount(text) THEN 0 .. k - 1
        ELSE {Max({0} \cup {i \in 1 .. last : IsSpace(text, i)})}

-----------------------------------------------------------------------------
(* The line and its history.                                               *)

\* update_view_offset().
InView(l) ==
    LET x == CellAt(l.text, l.cursor) IN
    [l EXCEPT !.view = IF x < @ THEN x ELSE IF x >= @ + LineWidth THEN x - LineWidth + 1 ELSE @]

Unselected(l) == [l EXCEPT !.start = None0, !.end = None0, !.anchor = None0, !.down = FALSE]
Selecting(l) == l.start # None0 /\ l.end # None0 /\ l.start # l.end

\* delete_selection().
Deleted(l) ==
    LET from == ByteAt(l.text, l.start)
        to == ByteAt(l.text, l.end)
    IN  IF Selecting(l) /\ to > from
        THEN Unselected([l EXCEPT !.text = Cut(@, from, to), !.cursor = l.start]) ELSE l

\* insert_text_at_cursor(): the cursor moves on by the characters that came.
Put(l, bytes) ==
    [l EXCEPT !.text = Inserted(@, ByteAt(l.text, l.cursor), bytes), !.cursor = @ + CharCount(bytes)]

LineState == [text |-> line.text, cursor |-> line.cursor]

\* UndoRedoHistory::push().
Pushed(h) ==
    LET kept == Append(SubSeq(h.list, 1, h.at), LineState) IN
    IF Len(kept) > HistorySize THEN [h EXCEPT !.list = Tail(kept)]
    ELSE [list |-> kept, at |-> h.at + 1]

\* restore_state().
Restored(state) ==
    InView(Unselected([line EXCEPT !.text = state.text, !.cursor = Min({state.cursor, CharCount(state.text)})]))

\* Bytes that come one by one make the cursor run ahead of the characters, and what was
\* pasted may not be characters at all.
Torn(bytes) == Len(FlattenSeq(Chars(bytes))) # Len(bytes) \/ \E i \in DOMAIN Chars(bytes) :
                   Chars(bytes)[i] = <<"cont">> \/ (Len(Chars(bytes)[i]) = 2 /\ Chars(bytes)[i][2] # "cont")

\* save_undo_state(), the edit, and what it leaves of the selection.
Edit(new) ==
    /\ Len(new.text) <= MaxBytes
    /\ line' = new
    /\ undo' = Pushed(undo)
    /\ lineWas' = [lineWas EXCEPT !.past = IF Len(@) = HistorySize THEN Append(Tail(@), line.text)
                                           ELSE Append(@, line.text),
                                  !.future = <<>>, !.inputs = @ + 1,
                                  !.torn = @ \/ Torn(new.text), !.stale = new.anchor # None0]
Moves(new) ==
    /\ line' = new
    /\ lineWas' = [lineWas EXCEPT !.stale = @ /\ new.anchor = line.anchor /\ new.anchor # None0,
                                  !.inputs = @ + 1]
    /\ UNCHANGED <<undo, clipboard>>

\* set_value(), as the editor of a field calls it on a line that is empty. The empty text is
\* kept for undo as any other.
LineInit ==
    /\ \E v \in FieldText :
           /\ line = InView([text |-> v, cursor |-> CharCount(v), start |-> None0, end |-> None0, anchor |-> None0,
                             down |-> FALSE, view |-> 0])
           /\ undo = IF v = <<>> THEN [list |-> <<>>, at |-> 0]
                     ELSE [list |-> <<[text |-> <<>>, cursor |-> 0]>>, at |-> 1]
           /\ lineWas = [past |-> IF v = <<>> THEN <<>> ELSE <<<<>>>>, future |-> <<>>, inputs |-> 0,
                         overrun |-> FALSE, torn |-> Torn(v), stale |-> FALSE]
    /\ clipboard = <<>>

-----------------------------------------------------------------------------
(* Keys.                                                                   *)

TypeByte(b) ==
    /\ LET l == Deleted(line) IN
       Edit(InView(Unselected([l EXCEPT !.text = Inserted(@, ByteAt(l.text, l.cursor), <<b>>), !.cursor = @ + 1])))
    /\ UNCHANGED clipboard

\* Backspace and Delete keep the text for undo whether or not they change it.
Backspace ==
    /\ LET from == ByteAt(line.text, line.cursor - 1)
           to == ByteAt(line.text, line.cursor)
       IN  Edit(InView(IF Selecting(line) THEN Deleted(line)
                       ELSE IF line.text # <<>> /\ line.cursor > 0
                       THEN [line EXCEPT !.text = Cut(@, from, to), !.cursor = @ - 1] ELSE line))
    /\ UNCHANGED clipboard

DeleteKey ==
    /\ LET from == ByteAt(line.text, line.cursor)
           to == ByteAt(line.text, line.cursor + 1)
       IN  Edit(InView(IF Selecting(line) THEN Deleted(line)
                       ELSE IF line.cursor < CharCount(line.text) THEN [line EXCEPT !.text = Cut(@, from, to)] ELSE line))
    /\ UNCHANGED clipboard

\* copy_to_clipboard() takes no empty text.
Copied == LET s == SubSeq(line.text, ByteAt(line.text, line.start) + 1, ByteAt(line.text, line.end))
          IN  IF s = <<>> THEN clipboard ELSE s

CopyKey ==
    /\ Selecting(line)
    /\ clipboard' = Copied
    /\ lineWas' = [lineWas EXCEPT !.inputs = @ + 1]
    /\ UNCHANGED <<line, undo>>

CutKey ==
    /\ Selecting(line)
    /\ clipboard' = Copied
    /\ Edit(InView(Deleted(line)))

TextOf(bytes) ==
    LET taken[i \in 0 .. Len(bytes)] ==
            IF i = 0 THEN <<>>
            ELSE IF bytes[i] = "newline" THEN taken[i - 1] ELSE Append(taken[i - 1], bytes[i])
    IN  taken[Len(bytes)]

\* Ctrl+V takes the clipboard, of this program or another, character by character.
PasteKey ==
    /\ \E text \in PasteText \cup {clipboard} :
           LET l == Deleted(line)
               filtered == TextOf(FlattenSeq(Chars(text)))
           IN  text # <<>> /\ Edit(IF filtered = <<>> THEN l ELSE InView(Put(l, filtered)))
    /\ UNCHANGED clipboard

\* The terminal pastes byte by byte.
TerminalPaste ==
    /\ \E text \in PasteText :
           text # <<>> /\ Edit(InView(Unselected(Put(Deleted(line), TextOf(text)))))
    /\ UNCHANGED clipboard

\* undo() keeps the present for redo when there is none yet; redo() past the last one gives
\* nothing, and forgets where it was.
UndoKey ==
    /\ undo.at > 0
    /\ LET list == IF undo.at = Len(undo.list) THEN Append(undo.list, LineState) ELSE undo.list IN
           /\ undo' = [list |-> list, at |-> undo.at - 1]
           /\ line' = Restored(list[undo.at])
    /\ lineWas' = [lineWas EXCEPT !.future = <<line.text>> \o @, !.inputs = @ + 1, !.stale = FALSE,
                                  !.past = IF @ = <<>> THEN @ ELSE Front(@)]
    /\ UNCHANGED clipboard

RedoKey ==
    /\ undo.at < Len(undo.list)
    /\ undo' = [undo EXCEPT !.at = @ + 1]
    /\ LET there == undo.at + 2 <= Len(undo.list) IN
           /\ line' = IF there THEN Restored(undo.list[undo.at + 2]) ELSE line
           /\ lineWas' = IF there
                         THEN [lineWas EXCEPT !.past = Append(@, line.text), !.inputs = @ + 1, !.stale = FALSE,
                                              !.future = IF @ = <<>> THEN @ ELSE Tail(@)]
                         ELSE [lineWas EXCEPT !.overrun = TRUE, !.inputs = @ + 1]
    /\ UNCHANGED clipboard

SelectAll ==
    LET n == CharCount(line.text) IN
    /\ line' = InView([line EXCEPT !.anchor = 0, !.cursor = n, !.start = 0, !.end = n])
    /\ lineWas' = [lineWas EXCEPT !.stale = FALSE, !.inputs = @ + 1]
    /\ UNCHANGED <<undo, clipboard>>

\* Arrows, Home and End; with Shift they select from where the first one started.
Navigate(to, shift) ==
    LET from == IF ~shift THEN Unselected(line)
                ELSE IF line.anchor < 0 THEN [line EXCEPT !.anchor = line.cursor] ELSE line
    IN  Moves(InView(IF from.anchor = None0 THEN [from EXCEPT !.cursor = to]
                     ELSE [from EXCEPT !.cursor = to, !.start = Min({from.anchor, to}),
                                       !.end = Max({from.anchor, to})]))

NavKey ==
    \E shift \in BOOLEAN :
        \/ Navigate(Max({0, line.cursor - 1}), shift)
        \/ Navigate(IF line.cursor < CharCount(line.text) THEN line.cursor + 1 ELSE line.cursor, shift)
        \/ Navigate(0, shift)
        \/ Navigate(CharCount(line.text), shift)
        \/ \E to \in IF line.cursor = 0 THEN {0} ELSE PrevWord(line.text, line.cursor) : Navigate(to, shift)
        \/ Navigate(NextWord(line.text, line.cursor), shift)

-----------------------------------------------------------------------------
(* The mouse.                                                              *)

\* A press, a second and a third one; a drag within the line counts as a press too.
Press(cell, clicks) ==
    LET at == CharAt(line.text, line.view + cell)
        range == CASE clicks = 1 -> <<at, at>>
                   [] clicks = 2 -> WordAt(line.text, at)
                   [] clicks = 3 -> <<0, CharCount(line.text)>>
        l == [line EXCEPT !.start = range[1], !.end = range[2], !.anchor = range[2], !.down = TRUE,
                          !.cursor = IF range[1] # range[2] THEN range[2] ELSE at]
    IN  /\ line' = InView(l)
        /\ lineWas' = [lineWas EXCEPT !.stale = FALSE, !.inputs = @ + 1]
        /\ UNCHANGED <<undo, clipboard>>

\* A drag that has left the line, to either side.
DragOutside ==
    /\ line.down
    /\ \E cell \in {-1, LineWidth} :
           LET at == IF line.view + cell < 0 THEN 0 ELSE CharAt(line.text, line.view + cell) IN
           Moves(InView([line EXCEPT !.start = Min({line.anchor, at}), !.end = Max({line.anchor, at}),
                                     !.cursor = at]))

ReleaseMouse == line.down /\ Moves([line EXCEPT !.down = FALSE])
BlurLine == Moves(Unselected(line))

\* Input::render(): which character a cell shows. One that is cut by the left edge is not
\* drawn, and the cursor lies over the cell it stands before.
ShownAt(l) ==
    LET chars == Chars(l.text)
        left(i) == CellOf(chars, i - 1) - l.view
    IN  [cell \in 0 .. LineWidth - 1 |->
             {i \in DOMAIN chars : left(i) >= 0 /\ cell \in left(i) .. left(i) + CellsOf(chars[i]) - 1}]
CursorCell(l) == CellAt(l.text, l.cursor) - l.view

DrawLine == line # InView(line) /\ line' = InView(line) /\ UNCHANGED <<undo, clipboard, lineWas>>

LineInput ==
    \/ \E b \in KeyByte : TypeByte(b)
    \/ Backspace \/ DeleteKey \/ CopyKey \/ CutKey \/ PasteKey \/ TerminalPaste
    \/ UndoKey \/ RedoKey \/ SelectAll \/ NavKey
    \/ \E cell \in 0 .. LineWidth - 1, clicks \in 1 .. 3 : Press(cell, clicks)
    \/ DragOutside \/ ReleaseMouse \/ BlurLine

LineNext == (lineWas.inputs < MaxLineInput /\ LineInput) \/ DrawLine

LineSpec == LineInit /\ [][LineNext]_lineVars

-----------------------------------------------------------------------------
(* Properties.                                                             *)

LineTypeOK ==
    /\ line.text \in Seq(Typeable) /\ line.cursor \in Nat /\ line.view \in Nat /\ line.down \in BOOLEAN
    /\ {line.start, line.end, line.anchor} \subseteq Nat \cup {None0}
    /\ undo.at \in 0 .. Len(undo.list) /\ clipboard \in Seq(Byte)

Texts(states) == [i \in DOMAIN states |-> states[i].text]

\* Undo brings back the texts before the edits, the last first, and redo those that were
\* undone, whatever was typed between, as far as the history goes and until it is asked to
\* redo what it does not have (UndoRedoHistory).
UndoKeepsTexts ==
    ~lineWas.overrun =>
        /\ Texts(SubSeq(undo.list, 1, undo.at)) = lineWas.past
        /\ undo.at < Len(undo.list) => undo.list[undo.at + 1].text = line.text
        /\ Texts(SubSeq(undo.list, undo.at + 2, Len(undo.list))) = lineWas.future

\* While no character came byte by byte, the text is one of characters and the cursor lies
\* in it, whatever is cut, pasted, undone and clicked (Input::on_event).
CursorInText == ~lineWas.torn => line.cursor <= CharCount(line.text)

\* What is selected lies in the text and ends at the cursor, so that what is copied, cut or
\* typed over is what is shown selected.
SelectionTrue ==
    Selecting(line) /\ ~lineWas.stale /\ ~lineWas.torn =>
        /\ line.start \in 0 .. line.end - 1 /\ line.end <= CharCount(line.text)
        /\ line.cursor \in {line.start, line.end}

\* The cell on which a character is drawn is the one that puts the cursor before it, and
\* the cursor is on the line (Input::render, visual_to_char_pos).
CellsFit ==
    LET l == InView(line) IN
    /\ CursorCell(l) \in DOMAIN ShownAt(l)
    /\ \A cell \in DOMAIN ShownAt(l) : \A i \in ShownAt(l)[cell] : CharAt(l.text, l.view + cell) = i - 1

LineSound == LineTypeOK /\ UndoKeepsTexts /\ CursorInText /\ SelectionTrue /\ CellsFit
=============================================================================
