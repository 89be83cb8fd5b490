----------------------------- MODULE LedDriver -----------------------------
(***************************************************************************)
(* The driver of the LED strip: frames and animation requests arrive in    *)
(* one queue of a single-threaded executor, a timer draws the animation,   *)
(* and the device refuses a frame that follows another too closely.        *)
(***************************************************************************)
EXTENDS Naturals, Sequences

CONSTANTS
    MaxLedRequests, \* bound on the frames and animation requests
    LedInboxSize    \* bound on the requests that wait

ASSUME LedAssumption == MaxLedRequests \in Nat /\ LedInboxSize \in Nat \ {0}

VARIABLES
    ledDevice,  \* the plugin: loaded and initialized, loaded but failed, not loaded
    ledLife,    \* the process
    ledInbox,   \* requests the executor has not taken
    animation,  \* m_animation
    strip,      \* what the LEDs show
    recent,     \* less than a frame period since m_last_write
    ledSent,    \* history: how many requests were sent
    ledMissed,  \* history: the strip was to be cleared and the device refused
    ledEnd      \* history: what the executor was at when the process ended

ledVars == <<ledDevice, ledLife, ledInbox, animation, strip, recent, ledSent, ledMissed, ledEnd>>

\* Requests are known by the order in which they were sent.
LedRequest == 1 .. MaxLedRequests

\* A request: a frame, of the right size or not, or the start of an animation, which
\* draws once, when its phase changes or at every tick, and which may end by itself.
Frame(id, fits) == [id |-> id, kind |-> "frame", fits |-> fits, ends |-> FALSE]
Animated(id, kind, ends) == [id |-> id, kind |-> kind, fits |-> TRUE, ends |-> ends]
LedMessage ==
    {Frame(id, fits) : id \in LedRequest, fits \in BOOLEAN}
        \cup {Animated(id, kind, ends) : id \in LedRequest, ends \in BOOLEAN,
                                         kind \in {"solid", "blink", "rainbow", "unknown"}}
Black == [id |-> 0, by |-> "nobody"]
NoAnimation == [id |-> 0, kind |-> "none", ends |-> FALSE, over |-> FALSE, drawn |-> FALSE]

LedTypeOK ==
    /\ ledDevice \in {"ready", "failed", "none"}
    /\ ledLife \in {"up", "ended", "undefined"}
    /\ ledInbox \in Seq(LedMessage) /\ Len(ledInbox) <= LedInboxSize
    /\ animation \in [id : LedRequest \cup {0}, kind : {"none", "solid", "blink", "rainbow"},
                      ends : BOOLEAN, over : BOOLEAN, drawn : BOOLEAN]
    /\ strip \in {Black} \cup [id : LedRequest, by : {"frame", "animation"}]
    /\ recent \in BOOLEAN /\ ledMissed \in BOOLEAN
    /\ ledSent \in 0 .. MaxLedRequests
    /\ ledEnd \in {"none", "frame", "start", "tick"}

LedInit ==
    /\ ledDevice \in {"ready", "failed", "none"}
    /\ ledLife = "up" /\ ledInbox = <<>>
    /\ animation = NoAnimation /\ strip = Black
    /\ recent = (ledDevice = "ready")
    /\ ledSent = 0 /\ ledMissed = FALSE /\ ledEnd = "none"

-----------------------------------------------------------------------------
(* base_device::write(), on a device that was initialized.                 *)

Accepts(fits, close) == fits /\ ~close

\* The executor at work: a driver that runs, on one of its callbacks.
Working == ledLife = "up"

\* A device whose initialize() threw has no frame buffer to copy into.
Undefined(what) ==
    /\ ledLife' = "undefined" /\ ledEnd' = what
    /\ UNCHANGED <<ledDevice, animation, strip, recent, ledSent, ledMissed>>

Draw(content) == IF recent THEN UNCHANGED <<strip, recent>> ELSE strip' = content /\ recent' = TRUE

\* on_frame() with a device: the animation is cancelled, which draws a black frame when
\* the device takes one; then the frame itself is drawn, and what write() throws leaves
\* the callback and ends main().
OnFrame(m) ==
    LET blackened == animation # NoAnimation /\ ~recent
        refused == ~Accepts(m.fits, recent \/ blackened)
    IN  /\ animation' = NoAnimation
        /\ strip' = IF ~refused THEN [id |-> m.id, by |-> "frame"] ELSE IF blackened THEN Black ELSE strip
        /\ recent' = (recent \/ blackened \/ ~refused)
        /\ ledMissed' = (animation # NoAnimation /\ recent)
        /\ ledLife' = IF refused THEN "ended" ELSE ledLife
        /\ ledEnd' = IF refused THEN "frame" ELSE ledEnd

TakeFrame ==
    /\ Working /\ ledInbox # <<>> /\ Head(ledInbox).kind = "frame"
    /\ ledInbox' = Tail(ledInbox)
    /\ CASE ledDevice = "ready" ->
              OnFrame(Head(ledInbox)) /\ UNCHANGED <<ledDevice, ledSent>>
         [] ledDevice = "failed" /\ Head(ledInbox).fits -> Undefined("frame")
         [] ledDevice = "failed" /\ ~Head(ledInbox).fits ->
              /\ IF animation # NoAnimation THEN Undefined("frame")
                 ELSE /\ ledLife' = "ended" /\ ledEnd' = "frame"
                      /\ UNCHANGED <<ledDevice, animation, strip, recent, ledSent, ledMissed>>
         [] OTHER -> UNCHANGED <<ledDevice, ledLife, animation, strip, recent, ledSent,
                                 ledMissed, ledEnd>>

\* animation_server::start(): the animation is replaced; one with an unknown name leaves
\* it alone, and the exception becomes the answer.
StartAnimation(m) ==
    /\ animation' = IF m.kind = "unknown" THEN animation
                    ELSE [NoAnimation EXCEPT !.id = m.id, !.kind = m.kind, !.ends = m.ends]
    /\ UNCHANGED <<ledLife, ledEnd>>

TakeStart ==
    /\ Working /\ ledInbox # <<>> /\ Head(ledInbox).kind # "frame"
    /\ ledInbox' = Tail(ledInbox)
    /\ IF ledDevice = "none" THEN UNCHANGED <<animation, ledLife, ledEnd>>
                             ELSE StartAnimation(Head(ledInbox))
    /\ UNCHANGED <<ledDevice, strip, recent, ledSent, ledMissed>>

\* Fault: the strip is left as it is.
FinishLit == animation' = NoAnimation /\ UNCHANGED <<strip, recent, ledMissed>>

\* Fault: the finished animation is kept.
FinishAgain == UNCHANGED <<animation, ledMissed>> /\ Draw(Black)

\* tick() of a finished animation: a refused black frame is not drawn again.
Finish ==
    /\ animation' = NoAnimation
    /\ ledMissed' = recent
    /\ Draw(Black)

\* tick() of one under way: "solid" draws once, "rainbow" always, "blink" when its phase
\* has changed, black every other time. A refused frame is logged.
Advance ==
    LET a == animation IN
    \/ /\ (a.kind = "solid" /\ a.drawn) \/ a.kind = "blink"
       /\ UNCHANGED <<animation, strip, recent>>
    \/ /\ a.kind = "solid" => ~a.drawn
       /\ animation' = [a EXCEPT !.drawn = TRUE]
       /\ \/ Draw([id |-> a.id, by |-> "animation"])
          \/ a.kind = "blink" /\ Draw(Black)

\* The wall timer exists when there is a device.
Tick ==
    /\ Working /\ ledDevice # "none" /\ animation # NoAnimation
    /\ IF ledDevice = "failed" THEN Undefined("tick") /\ UNCHANGED ledInbox
       ELSE /\ IF animation.over THEN Finish ELSE Advance /\ UNCHANGED ledMissed
            /\ UNCHANGED <<ledDevice, ledLife, ledInbox, ledSent, ledEnd>>

-----------------------------------------------------------------------------
(* Time, and whoever sends.                                                *)

FramePeriodPasses ==
    /\ recent
    /\ recent' = FALSE
    /\ UNCHANGED <<ledDevice, ledLife, ledInbox, animation, strip, ledSent, ledMissed, ledEnd>>

DurationPasses ==
    /\ animation.ends /\ ~animation.over
    /\ animation' = [animation EXCEPT !.over = TRUE]
    /\ UNCHANGED <<ledDevice, ledLife, ledInbox, strip, recent, ledSent, ledMissed, ledEnd>>

\* What the publisher of frames and the client of start_animation put on the wire.
Sends(m) ==
    /\ Working /\ ledSent < MaxLedRequests /\ m.id = ledSent + 1 /\ Len(ledInbox) < LedInboxSize
    /\ ledSent' = m.id
    /\ ledInbox' = Append(ledInbox, m)
    /\ UNCHANGED <<ledDevice, ledLife, animation, strip, recent, ledMissed, ledEnd>>

LedStep == TakeFrame \/ TakeStart \/ Tick \/ FramePeriodPasses \/ DurationPasses

LedNext == LedStep \/ \E m \in LedMessage : Sends(m)

\* The executor serves its queue and its timer, and time passes.
LedFairness ==
    /\ WF_ledVars(TakeFrame \/ TakeStart)
    /\ WF_ledVars(Tick)
    /\ WF_ledVars(FramePeriodPasses)
    /\ WF_ledVars(DurationPasses)

-----------------------------------------------------------------------------
(* Properties.                                                             *)

\* An animation's light stays on only while some animation runs, unless the device
\* refused to be cleared when the last one ended.
DarkAfterAnimation ==
    ledLife = "up" /\ animation = NoAnimation /\ strip.by = "animation" => ledMissed

\* Nothing ends the driver but a frame the device refuses; animations never do. Only a
\* device that failed to initialize can leave the defined.
EndedByFrame ==
    /\ ledEnd \in {"start", "tick"} => ledLife = "undefined"
    /\ ledLife = "undefined" => ledDevice = "failed"

\* What is left on the strip, and what ends the driver, in every order of frames,
\* animations, ticks and refusals (driver::on_frame, animation_server::tick and cancel).
StripAccountedFor == LedTypeOK /\ DarkAfterAnimation /\ EndedByFrame

\* What the driver rests in when no more requests come: none waits, and no animation that
\* has a duration goes on (animation_server::tick, base_animation::is_finished).
StripRests == ledLife = "up" => ledInbox = <<>> /\ (animation.id = 0 \/ ~animation.ends)

\* A direct command replaces the animation: a frame of the right size is shown when the
\* last one is a frame period old.
DirectCommandShown ==
    [][ledDevice = "ready" /\ ~recent /\ ledInbox # <<>> /\ Head(ledInbox).kind = "frame"
           /\ Head(ledInbox).fits /\ ledInbox' = Tail(ledInbox)
       => strip'.id = Head(ledInbox).id]_ledVars
=============================================================================
