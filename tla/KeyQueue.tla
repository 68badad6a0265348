------------------------------ MODULE KeyQueue ------------------------------
(***************************************************************************)
(* How a key gets from the keyboard to the menu.  The core keeps the last  *)
(* key code as a level and queues its changes (userio_osd.v); OsdGetCtrl   *)
(* (osd.c) reads the level, takes over what is queued, hands out one event *)
(* per call and repeats a held key when there is none; HandleUI (menu.c)   *)
(* keeps the modifiers.  The SPI transfers in between take time: each is a *)
(* step, and keys move between any two.                                    *)
(***************************************************************************)
EXTENDS Integers, Sequences

CONSTANTS Modifiers,    \* ctrl, lalt, lshift
          Keys,         \* other keys
          Repeating,    \* those that repeat: KEY_UP, KEY_DOWN, page keys, letters
          Joystick,     \* keys the joystick stands for
          QDepth,       \* events the core's queue holds (15)
          MaxEvents,    \* changes of the level
          None

ASSUME KeyQueueAssumption ==
    /\ QDepth \in Nat /\ QDepth > 0 /\ MaxEvents \in Nat /\ Repeating \subseteq Keys
    /\ Joystick \cap Modifiers = {}

VARIABLES held,         \* keys that are down
          code,         \* the last key code: [key, up]
          joy,          \* the key of the joystick, or None
          q, ovf,       \* the core's queue and its overflow flag
          pc, c1, n,    \* OsdGetCtrl: where it is, the level read, events to take over
          kq_buf,       \* events taken over
          mods,         \* ctrl, lalt and lshift of HandleUI
          given,        \* the last event HandleUI was given
          repeated,     \* a key repeated since
          upset,        \* an event was lost, or a modifier moved behind the joystick
          events

vars == <<held, code, joy, q, ovf, pc, c1, n, kq_buf, mods, given, repeated, upset, events>>
keyboard == <<held, code, joy>>
firmware == <<pc, c1, n, kq_buf, mods, given, repeated>>

-----------------------------------------------------------------------------
\* The core.  An event carries the modifiers that were down with it, which the
\* code does not send.

Down(k) == [key |-> k, up |-> FALSE]
Up(k) == [key |-> k, up |-> TRUE]
Level == IF joy = None THEN code ELSE Down(joy)      \* osd_ctrl

\* Slip: a full queue is taken for an empty one.
Push_Wraps(e) == q' = (IF Len(q) < QDepth THEN Append(q, e) ELSE <<e>>) /\ UNCHANGED <<ovf, upset>>
\* A change of the level is queued; a full queue drops it.
Push(e) ==
    IF Len(q) < QDepth THEN q' = Append(q, e) /\ UNCHANGED <<ovf, upset>>
    ELSE ovf' = TRUE /\ upset' = TRUE /\ UNCHANGED q

Changes == /\ events < MaxEvents /\ events' = events + 1
           /\ IF Level' = Level THEN UNCHANGED <<q, ovf, upset>>
              ELSE Push([key |-> Level'.key, up |-> Level'.up, with |-> held' \cap Modifiers])

Press(k) ==
    /\ k \notin held /\ held' = held \cup {k} /\ code' = Down(k) /\ UNCHANGED <<joy, firmware>>
    /\ IF joy # None /\ k \in Modifiers
       THEN upset' = TRUE /\ events < MaxEvents /\ events' = events + 1 /\ UNCHANGED <<q, ovf>>
       ELSE Changes
Release(k) ==
    /\ k \in held /\ held' = held \ {k} /\ code' = Up(k) /\ UNCHANGED <<joy, firmware>>
    /\ IF joy # None /\ k \in Modifiers
       THEN upset' = TRUE /\ events < MaxEvents /\ events' = events + 1 /\ UNCHANGED <<q, ovf>>
       ELSE Changes
\* While the menu is up the joystick hides the keyboard.
Move(j) ==
    /\ joy' = (IF joy = None THEN j ELSE None) /\ UNCHANGED <<held, code, firmware>> /\ Changes

-----------------------------------------------------------------------------
\* The firmware.

GetKeyLevel == /\ pc = "level" /\ pc' = "next" /\ c1' = Level
               /\ UNCHANGED <<keyboard, q, ovf, n, kq_buf, mods, given, repeated, upset, events>>

\* Slip: the queue is looked at while there are events left of the last time.
Refills_Early == TRUE
Refills == kq_buf = <<>>

\* The count byte; the flag goes with it.
Status == /\ pc = "next" /\ Refills
          /\ n' = Len(q) /\ ovf' = FALSE /\ pc' = "take" /\ kq_buf' = <<>>
          /\ UNCHANGED <<keyboard, q, c1, mods, given, repeated, upset, events>>
Pop == /\ pc = "take" /\ n > 0
       /\ kq_buf' = Append(kq_buf, q[1]) /\ q' = Tail(q) /\ n' = n - 1
       /\ UNCHANGED <<keyboard, ovf, pc, c1, mods, given, repeated, upset, events>>

\* HandleUI follows the modifiers.
After(m, e) == IF e.key \notin Modifiers THEN m ELSE IF e.up THEN m \ {e.key} ELSE m \cup {e.key}
Follow(e) == given' = e /\ repeated' = None /\ mods' = After(mods, e)

Ready == (pc = "next" /\ ~Refills) \/ (pc = "take" /\ n = 0)
Deliver == /\ Ready /\ kq_buf # <<>> /\ pc' = "level"
           /\ Follow(kq_buf[1]) /\ kq_buf' = Tail(kq_buf)
           /\ UNCHANGED <<keyboard, q, ovf, c1, n, upset, events>>
\* Slip: the key that repeats is the one held by now.
RepeatKey_Now == Level
RepeatKey == c1
Repeat == /\ Ready /\ kq_buf = <<>> /\ pc' = "level"
          /\ ~c1.up
          /\ repeated' = (IF RepeatKey.key \in Repeating /\ ~RepeatKey.up THEN RepeatKey.key ELSE None)
          /\ UNCHANGED <<keyboard, q, ovf, c1, n, kq_buf, mods, given, upset, events>>
Nothing == /\ Ready /\ kq_buf = <<>> /\ pc' = "level"
           /\ UNCHANGED <<keyboard, q, ovf, c1, n, kq_buf, mods, given, repeated, upset, events>>
\* The button on the front stands in for an event that may be waiting.
Button == /\ Ready /\ pc' = "level"
          /\ kq_buf' = (IF kq_buf = <<>> THEN kq_buf ELSE Tail(kq_buf))
          /\ upset' = (upset \/ kq_buf # <<>>)
          /\ UNCHANGED <<keyboard, q, ovf, c1, n, mods, given, repeated, events>>

Init == /\ held = {} /\ code = Up(None) /\ joy = None /\ q = <<>> /\ ovf = FALSE
        /\ pc = "level" /\ c1 = Up(None) /\ n = 0 /\ kq_buf = <<>> /\ mods = {}
        /\ given = [key |-> None, up |-> TRUE, with |-> {}] /\ repeated = None
        /\ upset = FALSE /\ events = 0
GetCtrl == GetKeyLevel \/ Status \/ Pop \/ Deliver \/ Repeat \/ Nothing \/ Button
Next == GetCtrl \/ (\E k \in Modifiers \cup Keys : Press(k) \/ Release(k)) \/ (\E j \in Joystick : Move(j))
Spec == Init /\ [][Next]_vars /\ WF_vars(GetCtrl)

-----------------------------------------------------------------------------
\* Properties.

\* When HandleUI acts on an event, its modifiers are the keys that were down
\* when the event happened, however late it comes: chords mean what the user
\* did, unless an event was lost.
ChordsMeant == ~upset => mods = given.with

\* The queue takes over only what was queued: taken over or not, nothing comes
\* twice or out of turn, and a key repeats only while its own event is the last
\* HandleUI knows of.
RepeatsLast == ~upset /\ repeated # None => repeated = given.key /\ ~given.up

\* A key-up is not left in a queue: in the end the menu's modifiers are those
\* of the keyboard.
ModifiersSettle == <>[](upset \/ joy # None \/ mods = held \cap Modifiers)
=============================================================================
