------------------------------- MODULE Toolkit -------------------------------
(***************************************************************************)
(* The loop of the terminal programs (App, Terminal and Widget of cpptui)  *)
(* under the screens of the settings editor: a form whose buttons open an  *)
(* editor, and the editor with its input line and two buttons.             *)
(*                                                                         *)
(* Two pointers say who has the keyboard. The application's, here held, is *)
(* moved by Tab and by clicks, and keeps its widget alive; the class's,    *)
(* here focus, is moved by every set_focus(), the screens' own included.   *)
(* A widget takes itself for focused when the second points at it.         *)
(***************************************************************************)
EXTENDS Integers, SequencesExt

CONSTANTS
    MaxInput,  \* bound on what the user does
    TermSize   \* the sizes of the terminal

ASSUME ToolkitAssumption == MaxInput \in Nat /\ TermSize # {} /\ "none" \notin TermSize

NoWidget == "none"
Gone == "gone"     \* a widget of a screen that was popped
NoSize == "none"
Form == <<"first", "second">>
FieldEditor == <<"input", "save", "cancel">>
Button == {"first", "second", "save", "cancel"}
Widget == Button \cup {"input"}

\* What a user does. An arrow whose bytes the line tears apart is read as Escape and
\* characters, which are here.
KeyPress == {"enter", "esc", "tab", "down", "up", "char", "ctrlS", "all", "copy"}
Mouse == {"move", "press", "drag", "release"}
Row == 0 .. 3
NoRow == 0
UserEvent == (KeyPress \X {NoRow}) \cup (Mouse \X Row)

VARIABLES
    ui,         \* the widgets, the screens and what App keeps about them
    console,    \* how much the terminal has sent that was not read
    loop,       \* where App::run() is
    timers,     \* the application has a timer
    winch,      \* g_resize_pending
    termSize,   \* the size of the terminal
    pendingSize,\* pending_resize_w, pending_resize_h
    bufferSize, \* the size of the buffers
    picture,    \* what was drawn last
    arrived     \* history: how much the user did

toolkitVars == <<ui, console, loop, timers, winch, termSize, pendingSize, bufferSize, picture, arrived>>

ScreenOf(u) == IF u.depth = 1 THEN Form ELSE IF u.depth = 2 THEN FieldEditor ELSE <<>>
OnTop(u) == Range(ScreenOf(u))
At(u, row) == IF row \in DOMAIN ScreenOf(u) THEN ScreenOf(u)[row] ELSE NoWidget

ToolkitTypeOK ==
    /\ ui.depth \in 0 .. 2 /\ ui.row \in DOMAIN Form /\ ui.calls \in Seq({"start", "open", "close", "write"})
    /\ ui.held \in Widget \cup {NoWidget, Gone} /\ ui.focus \in Widget \cup {NoWidget}
    /\ ui.hovered \in Widget \cup {NoWidget, Gone}
    /\ ui.hot \subseteq Widget /\ ui.active \subseteq Button /\ ui.pressed \subseteq Button
    /\ {ui.running, ui.dirty, ui.woken, ui.note, ui.selected, timers, winch} \subseteq BOOLEAN
    /\ {ui.text, ui.stored, ui.acts, arrived} \subseteq Nat
    /\ console \in 0 .. MaxInput /\ loop \in {"turn", "wait", "batch", "ended"}
    /\ {termSize, bufferSize} \subseteq TermSize /\ pendingSize \in TermSize \cup {NoSize}

-----------------------------------------------------------------------------
(* Widgets.                                                                *)

\* Widget::set_focus(). The input line drops its selection when it is blurred.
Focused(u, w) == [u EXCEPT !.focus = w, !.selected = @ /\ u.focus = "input" /\ w = "input"]
Blurred(u, w) == IF u.focus = w THEN [u EXCEPT !.focus = NoWidget, !.selected = FALSE] ELSE u
Hold(u, w) == Focused([u EXCEPT !.held = w, !.dirty = TRUE], w)

Took(u) == [u EXCEPT !.dirty = TRUE]
Acted(u) == [u EXCEPT !.dirty = TRUE, !.acts = @ + 1]

\* post(): the byte in the wakeup pipe is read before anything typed.
Posted(u, call) == [u EXCEPT !.calls = Append(@, call), !.woken = TRUE]

PopScreen(u) == IF u.depth > 1 THEN Posted(u, "close") ELSE u

\* The callbacks of the buttons: a text the field does not take is shown as an error.
Activated(u, b, fits) ==
    LET v == Acted(u) IN
    CASE b \in Range(Form) -> Posted(v, "open")
      [] b = "cancel" -> PopScreen(v)
      [] b = "save" -> IF fits THEN PopScreen([v EXCEPT !.stored = v.text]) ELSE [v EXCEPT !.note = TRUE]

\* Which keys a focused widget consumes: an input line all but Tab.
Consumes(w, key) == IF w = "input" THEN key # "tab" ELSE key = "enter"

\* Input::on_event(): what is printable is typed, control held or not.
Typed(u, key) ==
    CASE key = "all" -> [u EXCEPT !.selected = u.text > 0]
      [] key \in {"char", "ctrlS"} ->
             Acted([u EXCEPT !.text = IF u.selected THEN 1 ELSE @ + 1, !.selected = FALSE])
      [] OTHER -> u

WidgetKey(u, w, key, fits) ==
    Took(IF w = "input" THEN Typed(u, key) ELSE Activated(u, w, fits))

\* A button under the mouse. A drag of the left button is a press as well, and a motion
\* without a button a release; whoever learns that the mouse came or left ends there.
Hit(u, b, row) == At(u, row) = b
Left(mouse) == mouse \in {"press", "drag"}
MouseTakes(u, w, mouse, row) ==
    IF w = "input" THEN Left(mouse) /\ Hit(u, w, row)
    ELSE \/ Hit(u, w, row) # (w \in u.hot)
         \/ Left(mouse) /\ Hit(u, w, row)
         \/ ~Left(mouse) /\ w \in u.pressed

ButtonMouse(u, b, mouse, row, fits) ==
    LET hit == Hit(u, b, row) IN
    IF hit # (b \in u.hot)
    THEN [u EXCEPT !.hot = IF hit THEN @ \cup {b} ELSE @ \ {b},
                   !.pressed = IF b \notin u.active THEN @ ELSE IF hit THEN @ \cup {b} ELSE @ \ {b}]
    ELSE IF Left(mouse) THEN [u EXCEPT !.active = @ \cup {b}, !.pressed = @ \cup {b}]
    ELSE LET v == [u EXCEPT !.active = @ \ {b}, !.pressed = @ \ {b}] IN
         IF hit THEN Activated(v, b, fits) ELSE v

WidgetMouse(u, w, mouse, row, fits) ==
    Took(IF w = "input" THEN Focused(u, w) ELSE ButtonMouse(u, w, mouse, row, fits))

\* Container::on_event(): the last child first, until one takes the event.
ChildrenMouse(u, mouse, row, fits) ==
    LET rows == {i \in DOMAIN ScreenOf(u) : MouseTakes(u, ScreenOf(u)[i], mouse, row)}
        taker == CHOOSE i \in rows : \A j \in rows : j <= i
        let == {ScreenOf(u)[i] : i \in {j \in DOMAIN ScreenOf(u) : rows = {} \/ j > taker}}
        v == IF Left(mouse) THEN u ELSE [u EXCEPT !.active = @ \ let]
    IN  IF rows = {} THEN v ELSE WidgetMouse(v, ScreenOf(u)[taker], mouse, row, fits)

-----------------------------------------------------------------------------
(* The screens.                                                            *)

\* navigator::on_event(), then form_screen's or field_editor's, then their children.
ScreenKey(u, key, fits) ==
    LET step == IF key = "down" THEN 1 ELSE Len(Form) - 1
        next == ((u.row + step - 1) % Len(Form)) + 1
    IN  CASE key = "esc" -> IF u.depth > 1 THEN PopScreen(Acted(u)) ELSE Acted([u EXCEPT !.running = FALSE])
          [] key = "ctrlS" -> Posted(Acted(u), "write")
          [] key \in {"down", "up"} /\ u.depth = 1 -> Focused(Acted([u EXCEPT !.row = next]), Form[next])
          [] key \in {"down", "up"} /\ u.depth = 2 ->
                 Focused(Acted(u), IF key = "down" THEN "save" ELSE "cancel")
          [] OTHER -> IF u.focus \in OnTop(u) /\ Consumes(u.focus, key)
                      THEN WidgetKey(u, u.focus, key, fits) ELSE u

\* The callbacks that were posted: push, pop, and the key bound to saving. A widget of a
\* screen that is gone lives on while the application holds it.
LeftBehind(w) == IF w \in Range(FieldEditor) THEN Gone ELSE w
Callback(u, call) ==
    LET v == [u EXCEPT !.dirty = TRUE] IN
    CASE call = "start" -> Focused([v EXCEPT !.depth = @ + 1], Form[u.row])
      [] call = "open" -> Focused([v EXCEPT !.depth = @ + 1, !.text = u.stored], "input")
      [] call = "close" ->
             Focused([v EXCEPT !.depth = @ - 1, !.held = LeftBehind(@), !.hovered = LeftBehind(@),
                               !.hot = @ \ Range(FieldEditor), !.active = @ \ Range(FieldEditor),
                               !.pressed = @ \ Range(FieldEditor)], Form[u.row])
      [] call = "write" -> [v EXCEPT !.note = TRUE]

-----------------------------------------------------------------------------
(* What App::run() makes of an event.                                      *)

\* handle_tab(): from the widget held, or else the first.
TabTo(u) ==
    LET here == {i \in DOMAIN ScreenOf(u) : ScreenOf(u)[i] = u.held}
        next == IF here = {} THEN 1 ELSE ((CHOOSE i \in here : TRUE) % Len(ScreenOf(u))) + 1
    IN  IF ScreenOf(u) = <<>> THEN u ELSE Hold(Blurred(u, u.held), ScreenOf(u)[next])

\* Ctrl+C ends the program, unless the input line held has a selection to copy.
Quits(u, key) == key = "copy" /\ ~(u.held = "input" /\ u.selected)

OnKey(u, key, fits) ==
    IF Quits(u, key) THEN [u EXCEPT !.running = FALSE]
    ELSE IF u.held # NoWidget /\ u.held = u.focus /\ Consumes(u.held, key)
    THEN WidgetKey(u, u.held, key, fits)
    ELSE IF key = "tab" THEN TabTo(u)
    ELSE ScreenKey(u, key, fits)

\* Click-to-focus, then the hover state, then the widgets.
ClickFocus(u, w) ==
    IF w # NoWidget THEN Hold(Blurred(u, u.held), w)
    ELSE IF u.held # NoWidget THEN Took([Blurred(u, u.held) EXCEPT !.held = NoWidget]) ELSE u
Hover(u, w) ==
    IF w = u.hovered THEN u
    ELSE Took([u EXCEPT !.hovered = w, !.hot = (@ \ {u.hovered}) \cup ({w} \ {NoWidget})])

OnMouse(u, mouse, row, fits) ==
    LET w == At(u, row)
        v == IF Left(mouse) THEN ClickFocus(u, w) ELSE u
    IN  ChildrenMouse(IF mouse \in {"move", "drag"} THEN Hover(v, w) ELSE v, mouse, row, fits)

Handled(u, e, fits) ==
    LET v == [u EXCEPT !.acts = 0] IN
    IF e[1] \in KeyPress THEN OnKey(v, e[1], fits) ELSE OnMouse(v, e[1], e[2], fits)

-----------------------------------------------------------------------------
(* The loop.                                                               *)

Drawing(u, size) ==
    <<u.depth, u.row, u.focus, u.text, u.note, u.selected, u.hot \cap OnTop(u), u.pressed \cap OnTop(u), size>>

ToolkitInit ==
    /\ ui = [depth |-> 0, row |-> 1, held |-> NoWidget, focus |-> NoWidget, hovered |-> NoWidget,
             hot |-> {}, active |-> {}, pressed |-> {}, text |-> 0, stored |-> 1, selected |-> FALSE,
             note |-> FALSE, calls |-> <<"start">>, woken |-> FALSE, dirty |-> TRUE, running |-> TRUE, acts |-> 0]
    /\ console = 0 /\ loop = "turn" /\ timers \in BOOLEAN /\ winch = FALSE
    /\ termSize \in TermSize /\ bufferSize = termSize /\ pendingSize = NoSize
    /\ picture = <<>> /\ arrived = 0

\* Callbacks, timers, a resize that has rested, and the picture if anything asks for it. A
\* notification that is over leaves the picture only when one is drawn.
TurnLoop ==
    /\ loop = "turn" /\ ui.running
    /\ \E fires \in {timers, FALSE}, rested, over \in BOOLEAN :
           LET ran == FoldLeft(Callback, [ui EXCEPT !.calls = <<>>], ui.calls)
               resizes == pendingSize # NoSize /\ rested
               draws == ran.dirty \/ fires \/ resizes
               drawn == [ran EXCEPT !.dirty = FALSE, !.note = @ /\ ~over]
           IN  /\ bufferSize' = IF resizes THEN pendingSize ELSE bufferSize
               /\ pendingSize' = IF resizes THEN NoSize ELSE pendingSize
               /\ ui' = IF draws THEN drawn ELSE ran
               /\ picture' = IF draws THEN Drawing(drawn, bufferSize') ELSE picture
    /\ loop' = "wait"
    /\ UNCHANGED <<console, timers, winch, termSize, arrived>>

LeaveLoop ==
    /\ loop = "turn" /\ ~ui.running
    /\ loop' = "ended"
    /\ UNCHANGED <<ui, console, timers, winch, termSize, pendingSize, bufferSize, picture, arrived>>

Reading == loop \in {"wait", "batch"}

\* A resize is told before anything is read; the wakeup pipe comes before the terminal.
ReadResize ==
    /\ Reading /\ winch
    /\ winch' = FALSE /\ pendingSize' = termSize /\ ui' = [ui EXCEPT !.dirty = TRUE]
    /\ loop' = "batch"
    /\ UNCHANGED <<console, timers, termSize, bufferSize, picture, arrived>>

ReadWakeup ==
    /\ Reading /\ ~winch /\ ui.woken
    /\ ui' = [ui EXCEPT !.woken = FALSE, !.dirty = TRUE]
    /\ loop' = "turn"
    /\ UNCHANGED <<console, timers, winch, termSize, pendingSize, bufferSize, picture, arrived>>

ReadInput ==
    /\ Reading /\ ~winch /\ ~ui.woken /\ console > 0
    /\ \E e \in UserEvent, fits \in BOOLEAN :
           /\ ui' = Handled(ui, e, fits)
           /\ loop' = IF Quits(ui, e[1]) THEN "turn" ELSE "batch"
    /\ console' = console - 1
    /\ UNCHANGED <<timers, winch, termSize, pendingSize, bufferSize, picture, arrived>>

\* Nothing to read: within a batch at once, else when the next timer is due. Without a
\* timer the wait has no end, not even for a resize that has to rest.
ReadNothing ==
    /\ Reading /\ ~winch /\ ~ui.woken /\ console = 0
    /\ loop = "batch" \/ timers
    /\ loop' = "turn"
    /\ UNCHANGED <<ui, console, timers, winch, termSize, pendingSize, bufferSize, picture, arrived>>

\* What is typed or clicked is chosen when it is read.
UserActs ==
    /\ loop # "ended" /\ arrived < MaxInput
    /\ arrived' = arrived + 1
    /\ \/ console' = console + 1 /\ UNCHANGED <<winch, termSize>>
       \/ /\ termSize' \in TermSize \ {termSize} /\ winch' = TRUE
          /\ UNCHANGED console
    /\ UNCHANGED <<ui, loop, timers, pendingSize, bufferSize, picture>>

\* A size comes to rest.
TakesSize == TurnLoop /\ pendingSize # NoSize /\ pendingSize' = NoSize

LoopStep == TurnLoop \/ LeaveLoop \/ ReadResize \/ ReadWakeup \/ ReadInput \/ ReadNothing
ToolkitNext == LoopStep \/ UserActs
\* The loop is a thread of its own, time passes for its timers, and a user lets go of the
\* border of the terminal.
ToolkitFairness == WF_toolkitVars(LoopStep) /\ SF_toolkitVars(TakesSize)
ToolkitSpec == ToolkitInit /\ [][ToolkitNext]_toolkitVars /\ ToolkitFairness

-----------------------------------------------------------------------------
(* Properties.                                                             *)

\* What was posted is run before another key is handled, so that a key typed ahead meets
\* the screen it opens and no screen is popped twice (App::post, Terminal::readRawEvent).
PostedComesFirst == ui.calls # <<>> /\ Reading => ui.woken
ScreensLeft == ui.depth = 0 => ui.calls = <<"start">>

\* The keyboard belongs to a widget of the screen in front, whatever was clicked, popped or
\* left behind, and no key or click works twice, though it is offered to the widget held
\* and to the screens (App::run, Widget::set_focus, screen::on_enter).
FocusInFront == ui.focus # NoWidget => ui.focus \in OnTop(ui)
WorksOnce == ui.acts <= 1

\* While the loop waits, what it drew last is what there is.
PictureTrue == loop = "wait" => picture = Drawing(ui, bufferSize)

ToolkitSound == ToolkitTypeOK /\ PostedComesFirst /\ ScreensLeft /\ FocusInFront /\ WorksOnce /\ PictureTrue

\* All that was typed is handled, what was posted is run, a program that was told to quit
\* ends, and a program with a timer takes the size of its terminal.
LoopSettled ==
    \/ loop = "ended"
    \/ /\ loop = "wait" /\ ui.running /\ console = 0 /\ ui.calls = <<>>
       /\ timers => pendingSize = NoSize /\ bufferSize = termSize
=============================================================================
