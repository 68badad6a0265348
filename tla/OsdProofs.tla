----------------------------- MODULE OsdProofs -----------------------------
(***************************************************************************)
(* The menu's input and its file selector.                                 *)
(*                                                                         *)
(* Keys.  For any keys, any depth of the core's queue and any interleaving *)
(* of the keyboard, the joystick and OsdGetCtrl: HandleUI's modifiers are  *)
(* those that were down when the event it acts on happened, and only its   *)
(* last event's key repeats, as long as no event was lost and no modifier  *)
(* moved behind the joystick.  The argument: what was given, what was      *)
(* taken over and what is queued are one chain, in which each event has    *)
(* the modifiers of the one before it, changed by its own key; its last    *)
(* event is the level of now.                                              *)
(*                                                                         *)
(* Files.  For any directories, in any order on the card, any window of    *)
(* two entries or more and any reads that fail: the window is a gapless    *)
(* part of the sorted directory, the cursor goes where the key says and a  *)
(* letter finds its entries.  The argument: for each mode an invariant of  *)
(* the loop over the entries says what the table holds of those read so    *)
(* far; at the end of the directory it says which window the scan leaves;  *)
(* and every key makes a sound window of a sound one.                      *)
(***************************************************************************)
EXTENDS KeyQueue, Directory, FiniteSetTheorems, SequenceTheorems, WellFoundedInduction, TLAPS

-----------------------------------------------------------------------------
(* The invariant.                                                          *)

Key == Modifiers \cup Keys \cup Joystick \cup {None}
Event == [key : Key, up : BOOLEAN, with : SUBSET Modifiers]

\* The queues and what is counted in them.
Types ==
    /\ q \in Seq(Event) /\ kq_buf \in Seq(Event) /\ given \in Event
    /\ n \in Nat /\ upset \in BOOLEAN
    /\ held \subseteq Key /\ joy \in Joystick \cup {None}
    /\ code.key \in Key /\ code.up \in BOOLEAN

\* OsdGetCtrl takes over no more than the queue holds.
Counted == pc = "take" => n <= Len(q)
\* The level's key is down or up as the level says.
LevelHeld == code.up <=> code.key \notin held

\* Events s that follow event a, each with the modifiers its key leaves; the last of all.
Linked(a, s) == \A i \in 1 .. Len(s) : s[i].with = After((IF i = 1 THEN a ELSE s[i - 1]).with, s[i])
LastOf(a, s) == IF s = <<>> THEN a ELSE s[Len(s)]

Chain == Linked(given, kq_buf) /\ Linked(LastOf(given, kq_buf), q)
\* The same key, the same way.
Is(e, l) == e.key = l.key /\ e.up = l.up
Latest ==
    LET e == LastOf(LastOf(given, kq_buf), q) IN Is(e, Level) /\ e.with = held \cap Modifiers
\* With nothing queued when the level was read, the level is the last event.
LevelRead ==
    /\ pc = "next" /\ kq_buf = <<>> /\ q = <<>> => Is(given, c1)
    /\ pc = "take" /\ kq_buf = <<>> /\ n = 0 => Is(given, c1)

Calm == Chain /\ Latest /\ LevelRead /\ mods = given.with /\ RepeatsLast
IInv == Types /\ Counted /\ LevelHeld /\ (~upset => Calm)
-----------------------------------------------------------------------------
(* Lemmas about links.                                                     *)

\* One more event, with the modifiers its key leaves.
LEMMA LinkAppend ==
    ASSUME NEW a, NEW s \in Seq(Event), Linked(a, s),
           NEW e \in Event, e.with = After(LastOf(a, s).with, e)
    PROVE  Linked(a, Append(s, e)) /\ LastOf(a, Append(s, e)) = e
<1> DEFINE t == Append(s, e)
<1>1. /\ t \in Seq(Event) /\ Len(t) = Len(s) + 1 /\ t[Len(t)] = e
      /\ \A i \in 1 .. Len(s) : t[i] = s[i]
  OBVIOUS
<1>2. t # <<>>
  BY <1>1
<1>3. ASSUME NEW i \in 1 .. Len(t)
      PROVE  t[i].with = After((IF i = 1 THEN a ELSE t[i - 1]).with, t[i])
  <2>1. CASE i = Len(t)
    <3>1. LastOf(a, s) = (IF i = 1 THEN a ELSE t[i - 1])
      BY <1>1, <2>1 DEF LastOf
    <3> QED
      BY <1>1, <2>1, <3>1
  <2>2. CASE i # Len(t)
    <3>1. i \in 1 .. Len(s) /\ (i # 1 => i - 1 \in 1 .. Len(s))
      BY <1>1, <2>2
    <3>2. t[i] = s[i] /\ (i # 1 => t[i - 1] = s[i - 1])
      BY <1>1, <3>1
    <3> QED
      BY <3>1, <3>2 DEF Linked
  <2> QED
    BY <2>1, <2>2
<1> QED
  BY <1>1, <1>2, <1>3 DEF Linked, LastOf

\* Without its first event, which becomes the one the others follow.
LEMMA LinkTail ==
    ASSUME NEW a, NEW s \in Seq(Event), Linked(a, s), s # <<>>
    PROVE  /\ s[1] \in Event /\ s[1].with = After(a.with, s[1])
           /\ Tail(s) \in Seq(Event) /\ Len(Tail(s)) = Len(s) - 1
           /\ Linked(s[1], Tail(s)) /\ LastOf(s[1], Tail(s)) = LastOf(a, s)
<1> DEFINE t == Tail(s)
<1>1. Len(s) \in Nat /\ Len(s) > 0 /\ s[1] \in Event
  BY EmptySeq
<1>2. t \in Seq(Event) /\ Len(t) = Len(s) - 1 /\ \A i \in 1 .. Len(t) : t[i] = s[i + 1]
  BY <1>1, HeadTailProperties
<1>3. s[1].with = After(a.with, s[1])
  BY <1>1 DEF Linked
<1>4. ASSUME NEW i \in 1 .. Len(t)
      PROVE  t[i].with = After((IF i = 1 THEN s[1] ELSE t[i - 1]).with, t[i])
  <2>1. i + 1 \in 1 .. Len(s) /\ i + 1 # 1 /\ (i + 1) - 1 = i
    BY <1>2
  <2>2. t[i] = s[i + 1] /\ s[i] = (IF i = 1 THEN s[1] ELSE t[i - 1])
    BY <1>2
  <2>3. s[i + 1].with = After(s[i].with, s[i + 1])
    BY <2>1 DEF Linked
  <2> QED
    BY <2>2, <2>3
<1>5. LastOf(s[1], t) = LastOf(a, s)
  <2>1. CASE t = <<>>
    BY <1>1, <1>2, <2>1 DEF LastOf
  <2>2. CASE t # <<>>
    BY <1>1, <1>2, <2>2, EmptySeq DEF LastOf
  <2> QED
    BY <2>1, <2>2
<1> QED
  BY <1>1, <1>2, <1>3, <1>4, <1>5 DEF Linked

-----------------------------------------------------------------------------
(* The keyboard and the joystick.                                          *)

\* What a change does to the modifiers that are down, as far as the level shows it.
Shown ==
    /\ Level' = Level => held' \cap Modifiers = held \cap Modifiers
    /\ Level' # Level => held' \cap Modifiers = After(held \cap Modifiers, Level')

\* A change of the level that is queued extends the chain; nothing else moves.
LEMMA ChangesKeep ==
    ASSUME IInv, Changes, UNCHANGED firmware, ~upset => Shown,
           Level'.key \in Key, Level'.up \in BOOLEAN
    PROVE  /\ q' \in Seq(Event) /\ Len(q') >= Len(q) /\ upset' \in BOOLEAN
           /\ ~upset' => Calm'
<1> DEFINE e == [key |-> Level'.key, up |-> Level'.up, with |-> held' \cap Modifiers]
           last == LastOf(given, kq_buf)
<1>1. e \in Event /\ e.key = Level'.key /\ e.up = Level'.up /\ e.with = held' \cap Modifiers
  BY DEF Event
<1>2. q \in Seq(Event) /\ upset \in BOOLEAN /\ UNCHANGED <<kq_buf, given, mods, repeated, pc, c1, n>>
  BY DEF IInv, Types, firmware
<1>3. CASE Level' = Level \/ ~(Len(q) < QDepth)
  <2>1. q' = q /\ upset' \in BOOLEAN /\ (~upset' => ~upset /\ Level' = Level)
    BY <1>2, <1>3 DEF Changes, Push
  <2>2. ASSUME ~upset'
        PROVE  Calm'
    <3>1. Calm /\ Shown /\ Level' = Level
      BY <2>1, <2>2 DEF IInv
    <3>2. Chain' /\ LevelRead' /\ (mods = given.with)' /\ RepeatsLast'
      BY <1>2, <2>1, <2>2, <3>1 DEF Calm, Chain, Linked, LastOf, LevelRead, Is, RepeatsLast
    <3>3. Latest'
      BY <1>2, <2>1, <3>1 DEF Calm, Latest, LastOf, Is, Shown
    <3> QED
      BY <3>2, <3>3 DEF Calm
  <2> QED
    BY <1>2, <2>1, <2>2
<1>4. CASE Level' # Level /\ Len(q) < QDepth
  <2>1. q' = Append(q, e) /\ upset' = upset
    BY <1>4 DEF Changes, Push
  <2>2. q' \in Seq(Event) /\ Len(q') = Len(q) + 1 /\ q' # <<>>
    BY <1>1, <1>2, <2>1
  <2>3. ASSUME ~upset'
        PROVE  Calm'
    <3>1. Calm /\ Shown
      BY <2>1, <2>3 DEF IInv
    <3>2. e.with = After(LastOf(last, q).with, e)
      BY <1>1, <1>4, <3>1 DEF Calm, Latest, Shown, After
    <3>3. Linked(last, q)
      BY <3>1 DEF Calm, Chain
    <3>4. Linked(last, q') /\ LastOf(last, q') = e
      <4> HIDE DEF e, last
      <4> QED
        BY <1>1, <1>2, <2>1, <3>2, <3>3, LinkAppend
    <3>5. LastOf(given, kq_buf)' = last
      BY <1>2 DEF LastOf
    <3>6. Chain'
      BY <1>2, <3>1, <3>4, <3>5 DEF Calm, Chain, Linked
    <3>7. Latest'
      <4>1. LastOf(LastOf(given, kq_buf)', q') = e
        BY <3>4, <3>5
      <4> QED
        BY <1>1, <4>1 DEF Latest, Is, LastOf
    <3>8. LevelRead' /\ (mods = given.with)' /\ RepeatsLast'
      BY <1>2, <2>1, <2>2, <3>1 DEF Calm, LevelRead, Is, RepeatsLast
    <3> QED
      BY <3>6, <3>7, <3>8 DEF Calm
  <2> QED
    BY <1>2, <2>1, <2>2, <2>3
<1> QED
  BY <1>3, <1>4

\* A key goes down or up: the level changes unless the joystick hides it, and
\* then the key is no modifier or the run is upset.
LEMMA KeyKeeps ==
    ASSUME IInv, NEW k \in Modifiers \cup Keys, Press(k) \/ Release(k)
    PROVE  IInv'
<1> DEFINE hidden == joy # None /\ k \in Modifiers
<1>1. /\ UNCHANGED <<joy, kq_buf, given, mods, repeated, pc, c1, n>>
      /\ code' = [key |-> k, up |-> code'.up] /\ code'.up \in BOOLEAN
      /\ code'.up <=> k \notin held'
      /\ held' = (IF code'.up THEN held \ {k} ELSE held \cup {k})
      /\ code'.up <=> k \in held
  <2>1. CASE Press(k)
    BY <2>1 DEF Press, Down, firmware
  <2>2. CASE Release(k)
    BY <2>2 DEF Release, Up, firmware
  <2> QED
    BY <2>1, <2>2
<1>2. (hidden => upset' = TRUE /\ UNCHANGED q) /\ (~hidden => Changes)
  <2>1. CASE Press(k)
    BY <2>1 DEF Press
  <2>2. CASE Release(k)
    BY <2>2 DEF Release
  <2> QED
    BY <2>1, <2>2
<1>3. held' \subseteq Key /\ code'.key \in Key /\ code'.key = k
  BY <1>1 DEF IInv, Types, Key
<1>4. Level'.key \in Key /\ Level'.up \in BOOLEAN
  BY <1>1, <1>3 DEF Level, Down, IInv, Types, Key
<1>5. LevelHeld'
  BY <1>1, <1>3 DEF LevelHeld
<1>6. /\ q' \in Seq(Event) /\ Len(q') >= Len(q) /\ upset' \in BOOLEAN
      /\ ~upset' => Calm'
  <2>1. CASE hidden
    BY <1>2, <2>1 DEF IInv, Types
  <2>2. CASE ~hidden
    <3>1. Shown
      <4>1. CASE joy # None
        BY <1>1, <2>2, <4>1 DEF Shown, Level
      <4>2. CASE joy = None
        <5>1. Level' = code' /\ Level = code
          BY <1>1, <4>2 DEF Level
        <5>2. code' # code
          BY <1>1, <1>3 DEF IInv, LevelHeld
        <5>3. held' \cap Modifiers = After(held \cap Modifiers, code')
          BY <1>1, <1>3 DEF After
        <5> QED
          BY <5>1, <5>2, <5>3 DEF Shown
      <4> QED
        BY <4>1, <4>2
    <3> QED
      BY <1>1, <1>2, <1>4, <2>2, <3>1, ChangesKeep DEF firmware
  <2> QED
    BY <2>1, <2>2
<1>7. Types' /\ Counted'
  BY <1>1, <1>3, <1>6 DEF IInv, Types, Counted
<1> QED
  BY <1>5, <1>6, <1>7 DEF IInv

\* The joystick moves: its keys are no modifiers, and the keyboard's level that
\* it hid or uncovers agrees with the keys that are down.
LEMMA JoyKeeps ==
    ASSUME IInv, NEW j \in Joystick, Move(j)
    PROVE  IInv'
<1>1. /\ UNCHANGED <<held, code, kq_buf, given, mods, repeated, pc, c1, n>>
      /\ joy' \in {None, j} /\ Changes
  BY DEF Move, firmware
<1>2. Level'.key \in Key /\ Level'.up \in BOOLEAN
  BY <1>1 DEF Level, Down, IInv, Types, Key
<1>3. Shown
  <2>1. held' \cap Modifiers = held \cap Modifiers
    BY <1>1
  <2>2. After(held \cap Modifiers, Level') = held \cap Modifiers
    <3>1. CASE joy' = None
      <4>1. Level' = code
        BY <1>1, <3>1 DEF Level
      <4> QED
        BY <4>1 DEF After, IInv, LevelHeld, Types
    <3>2. CASE joy' # None
      <4>1. Level'.key \notin Modifiers
        BY <1>1, <3>2, KeyQueueAssumption DEF Level, Down
      <4> QED
        BY <4>1 DEF After
    <3> QED
      BY <3>1, <3>2
  <2> QED
    BY <2>1, <2>2 DEF Shown
<1>4. /\ q' \in Seq(Event) /\ Len(q') >= Len(q) /\ upset' \in BOOLEAN
      /\ ~upset' => Calm'
  BY <1>1, <1>2, <1>3, ChangesKeep DEF firmware
<1>5. Types' /\ Counted' /\ LevelHeld'
  BY <1>1, <1>4 DEF IInv, Types, Counted, LevelHeld
<1> QED
  BY <1>4, <1>5 DEF IInv

-----------------------------------------------------------------------------
(* The firmware.                                                           *)

\* While nothing moves on the keyboard's side, the level stays.
LEMMA LevelStays ==
    ASSUME UNCHANGED keyboard
    PROVE  UNCHANGED <<held, code, joy, Level>>
BY DEF keyboard, Level

\* The level is read: with nothing queued it is the last event.
LEMMA ReadKeeps ==
    ASSUME IInv, GetKeyLevel
    PROVE  IInv'
<1>1. UNCHANGED <<held, code, joy, Level, q, n, kq_buf, mods, given, repeated, upset>>
  BY LevelStays DEF GetKeyLevel
<1>2. pc' = "next" /\ c1' = Level
  BY DEF GetKeyLevel
<1>3. Types' /\ Counted' /\ LevelHeld'
  BY <1>1, <1>2 DEF IInv, Types, Counted, LevelHeld
<1>4. ASSUME ~upset'
      PROVE  Calm'
  <2>1. Calm
    BY <1>1, <1>4 DEF IInv
  <2>2. Chain' /\ Latest' /\ (mods = given.with)' /\ RepeatsLast'
    BY <1>1, <2>1 DEF Calm, Chain, Linked, LastOf, Latest, Is, RepeatsLast
  <2>3. LevelRead'
    BY <1>1, <1>2, <2>1 DEF Calm, Latest, LastOf, Is, LevelRead
  <2> QED
    BY <2>2, <2>3 DEF Calm
<1> QED
  BY <1>3, <1>4 DEF IInv

\* The count is read, with nothing left of the last time.
LEMMA StatusKeeps ==
    ASSUME IInv, Status
    PROVE  IInv'
<1>1. UNCHANGED <<held, code, joy, Level, q, c1, kq_buf, mods, given, repeated, upset>>
  BY LevelStays DEF Status, Refills
<1>2. pc = "next" /\ pc' = "take" /\ kq_buf = <<>> /\ n' = Len(q)
  BY DEF Status, Refills
<1>3. q \in Seq(Event)
  BY DEF IInv, Types
<1>4. Types' /\ Counted' /\ LevelHeld'
  BY <1>1, <1>2, <1>3 DEF IInv, Types, Counted, LevelHeld
<1>5. ASSUME ~upset'
      PROVE  Calm'
  <2>1. Calm
    BY <1>1, <1>5 DEF IInv
  <2>2. Chain' /\ Latest' /\ (mods = given.with)' /\ RepeatsLast'
    BY <1>1, <2>1 DEF Calm, Chain, Linked, LastOf, Latest, Is, RepeatsLast
  <2>3. n' = 0 => q = <<>>
    BY <1>2, <1>3, EmptySeq
  <2>4. LevelRead'
    BY <1>1, <1>2, <2>1, <2>3 DEF Calm, Is, LevelRead
  <2> QED
    BY <2>2, <2>4 DEF Calm
<1> QED
  BY <1>4, <1>5 DEF IInv

\* An event changes queues, and the chain stays what it is.
LEMMA PopKeeps ==
    ASSUME IInv, Pop
    PROVE  IInv'
<1> DEFINE e == q[1]
           last == LastOf(given, kq_buf)
<1>1. UNCHANGED <<held, code, joy, Level, pc, c1, mods, given, repeated, upset>>
  BY LevelStays DEF Pop
<1>2. pc = "take" /\ n > 0 /\ kq_buf' = Append(kq_buf, e) /\ q' = Tail(q) /\ n' = n - 1
  BY DEF Pop
<1>3. q \in Seq(Event) /\ kq_buf \in Seq(Event) /\ n \in Nat /\ n <= Len(q)
  BY <1>2 DEF IInv, Types, Counted
<1>4. q # <<>> /\ e \in Event /\ Len(q) > 0
  BY <1>2, <1>3, EmptySeq
<1>5. q' \in Seq(Event) /\ Len(q') = Len(q) - 1
  BY <1>2, <1>3, <1>4, HeadTailProperties
<1>6. kq_buf' \in Seq(Event) /\ kq_buf' # <<>>
  BY <1>2, <1>3, <1>4
<1>7. Types' /\ Counted' /\ LevelHeld'
  BY <1>1, <1>2, <1>3, <1>5, <1>6 DEF IInv, Types, Counted, LevelHeld
<1>8. ASSUME ~upset'
      PROVE  Calm'
  <2>1. Calm
    BY <1>1, <1>8 DEF IInv
  <2>2. Linked(given, kq_buf) /\ Linked(last, q)
    BY <2>1 DEF Calm, Chain
  <2>3. e.with = After(last.with, e) /\ Linked(e, q') /\ LastOf(e, q') = LastOf(last, q)
    <3> HIDE DEF last
    <3> QED
      BY <1>2, <1>3, <1>4, <2>2, LinkTail
  <2>4. Linked(given, kq_buf') /\ LastOf(given, kq_buf') = e
    <3> HIDE DEF e
    <3> QED
      BY <1>2, <1>3, <1>4, <2>2, <2>3, LinkAppend
  <2>5. Chain'
    BY <1>1, <2>3, <2>4 DEF Chain, Linked, LastOf
  <2>6. LastOf(LastOf(given, kq_buf), q)' = LastOf(last, q)
    BY <1>1, <2>3, <2>4 DEF LastOf
  <2>7. Latest'
    BY <1>1, <2>1, <2>6 DEF Calm, Latest, Is
  <2>8. LevelRead' /\ (mods = given.with)' /\ RepeatsLast'
    BY <1>1, <1>2, <1>6, <2>1 DEF Calm, LevelRead, RepeatsLast
  <2> QED
    BY <2>5, <2>7, <2>8 DEF Calm
<1> QED
  BY <1>7, <1>8 DEF IInv

\* HandleUI is given the first event: it follows it as the chain does.
LEMMA DeliverKeeps ==
    ASSUME IInv, Deliver
    PROVE  IInv'
<1> DEFINE e == kq_buf[1]
<1>1. UNCHANGED <<held, code, joy, Level, q, c1, n, upset>>
  BY LevelStays DEF Deliver
<1>2. /\ kq_buf # <<>> /\ kq_buf' = Tail(kq_buf) /\ pc' = "level"
      /\ given' = e /\ repeated' = None /\ mods' = After(mods, e)
  BY DEF Deliver, Follow
<1>3. kq_buf \in Seq(Event)
  BY DEF IInv, Types
<1>4. e \in Event /\ kq_buf' \in Seq(Event)
  BY <1>2, <1>3, EmptySeq, HeadTailProperties
<1>5. Types' /\ Counted' /\ LevelHeld'
  BY <1>1, <1>2, <1>4 DEF IInv, Types, Counted, LevelHeld
<1>6. ASSUME ~upset'
      PROVE  Calm'
  <2>1. Calm
    BY <1>1, <1>6 DEF IInv
  <2>2. Linked(given, kq_buf)
    BY <2>1 DEF Calm, Chain
  <2>3. /\ e.with = After(given.with, e) /\ Linked(e, kq_buf')
        /\ LastOf(e, kq_buf') = LastOf(given, kq_buf)
    BY <1>2, <1>3, <2>2, LinkTail
  <2>4. LastOf(given, kq_buf)' = LastOf(given, kq_buf)
    BY <1>2, <2>3 DEF LastOf
  <2>5. Chain'
    BY <1>1, <1>2, <2>1, <2>3, <2>4 DEF Calm, Chain, Linked
  <2>6. Latest'
    BY <1>1, <2>1, <2>4 DEF Calm, Latest, LastOf, Is
  <2>7. LevelRead' /\ (mods = given.with)' /\ RepeatsLast'
    BY <1>2, <2>1, <2>3 DEF Calm, LevelRead, RepeatsLast
  <2> QED
    BY <2>5, <2>6, <2>7 DEF Calm
<1> QED
  BY <1>5, <1>6 DEF IInv

\* The call ends with nothing taken over: what repeats is the level read, and
\* that is the last event; or an event is thrown away, and the run is upset.
LEMMA EndKeeps ==
    ASSUME IInv, Repeat \/ Nothing \/ Button
    PROVE  IInv'
<1>1. /\ UNCHANGED <<held, code, joy, Level, q, c1, n, mods, given>>
      /\ Ready /\ pc' = "level"
  BY LevelStays DEF Repeat, Nothing, Button
<1>2. \/ kq_buf = <<>> /\ UNCHANGED <<kq_buf, upset>>
      \/ kq_buf # <<>> /\ kq_buf' = Tail(kq_buf) /\ upset' = TRUE
  <2>1. CASE Repeat \/ Nothing
    BY <2>1 DEF Repeat, Nothing
  <2>2. CASE Button /\ kq_buf = <<>>
    <3>1. upset \in BOOLEAN /\ upset' = (upset \/ FALSE) /\ kq_buf' = kq_buf
      BY <2>2 DEF Button, IInv, Types
    <3> QED
      BY <2>2, <3>1
  <2>3. CASE Button /\ kq_buf # <<>>
    <3>1. upset' = TRUE /\ kq_buf' = Tail(kq_buf)
      BY <2>3 DEF Button
    <3> QED
      BY <2>3, <3>1
  <2> QED
    BY <2>1, <2>2, <2>3
<1>3. kq_buf' \in Seq(Event) /\ upset' \in BOOLEAN
  BY <1>2, HeadTailProperties DEF IInv, Types
<1>4. Types' /\ Counted' /\ LevelHeld'
  BY <1>1, <1>3 DEF IInv, Types, Counted, LevelHeld
<1>5. ASSUME ~upset'
      PROVE  Calm'
  <2>1. Calm /\ UNCHANGED <<kq_buf, upset>> /\ kq_buf = <<>>
    BY <1>2, <1>5 DEF IInv
  <2>2. Is(given, c1)
    BY <1>1, <2>1 DEF Ready, Refills, Calm, LevelRead
  <2>3. repeated' = repeated \/ (repeated' # None => repeated' = c1.key /\ ~c1.up)
    BY DEF Repeat, RepeatKey, Nothing, Button
  <2>4. RepeatsLast'
    BY <1>1, <1>5, <2>1, <2>2, <2>3 DEF Calm, Is, RepeatsLast
  <2>5. Chain' /\ Latest' /\ (mods = given.with)' /\ LevelRead'
    BY <1>1, <2>1 DEF Calm, Chain, Linked, LastOf, Latest, Is, LevelRead
  <2> QED
    BY <2>4, <2>5 DEF Calm
<1> QED
  BY <1>4, <1>5 DEF IInv

-----------------------------------------------------------------------------
(* The theorems.                                                           *)

LEMMA InitHolds == Init => IInv
<1> SUFFICES ASSUME Init
             PROVE  IInv
  OBVIOUS
<1>1. Types /\ Counted /\ LevelHeld
  <2>1. given \in Event /\ code.key \in Key /\ code.up = TRUE
    BY DEF Init, Event, Key, Up
  <2>2. q \in Seq(Event) /\ kq_buf \in Seq(Event)
    BY EmptySeq DEF Init
  <2> QED
    BY <2>1, <2>2 DEF Init, Types, Counted, LevelHeld
<1>2. Chain /\ Latest /\ LevelRead /\ mods = given.with /\ RepeatsLast
  BY DEF Init, Chain, Linked, LastOf, Latest, Is, Level, Up, LevelRead, RepeatsLast
<1> QED
  BY <1>1, <1>2 DEF IInv, Calm

LEMMA NextKeeps == IInv /\ [Next]_vars => IInv'
<1> SUFFICES ASSUME IInv, [Next]_vars
             PROVE  IInv'
  OBVIOUS
<1>1. CASE GetCtrl
  BY <1>1, ReadKeeps, StatusKeeps, PopKeeps, DeliverKeeps, EndKeeps DEF GetCtrl
<1>2. ASSUME NEW k \in Modifiers \cup Keys, Press(k) \/ Release(k)
      PROVE  IInv'
  BY <1>2, KeyKeeps
<1>3. ASSUME NEW j \in Joystick, Move(j)
      PROVE  IInv'
  BY <1>3, JoyKeeps
<1>4. CASE UNCHANGED vars
  <2>1. UNCHANGED <<held, code, joy, Level, q, pc, c1, n, kq_buf, mods, given, repeated, upset>>
    BY <1>4 DEF vars, Level
  <2> QED
    BY <2>1 DEF IInv, Types, Counted, LevelHeld, Calm, Chain, Linked, LastOf, Latest, Is,
                LevelRead, RepeatsLast
<1> QED
  BY <1>1, <1>2, <1>3, <1>4 DEF Next

\* Always, OsdGetCtrl takes over no more than is queued, and the chain holds
\* unless the run is upset.
THEOREM ChainHolds == Spec => []IInv
BY InitHolds, NextKeeps, PTL DEF Spec

\* HandleUI's modifiers (menu.c) are those of the event it was given last, at
\* whatever distance it follows the keyboard.
THEOREM ChordsAreMeant == Spec => []ChordsMeant
<1>1. IInv => ChordsMeant
  BY DEF IInv, Calm, ChordsMeant
<1> QED
  BY <1>1, ChainHolds, PTL

\* What OsdGetCtrl repeats is the key of the last event, which is down.
THEOREM OnlyTheLastRepeats == Spec => []RepeatsLast
<1>1. IInv => RepeatsLast
  BY DEF IInv, Calm, RepeatsLast
<1> QED
  BY <1>1, ChainHolds, PTL

-----------------------------------------------------------------------------
\* Numbers

\* A set of naturals that is not empty has a least element.
LEMMA LeastNatural ==
  ASSUME NEW S \in SUBSET Nat, S # {}
  PROVE  \E m \in S : \A k \in S : m <= k
  <1> DEFINE T == {0..m : m \in S}
  <1>1. T \subseteq FiniteSubsetsOf(Nat)
    <2>1. ASSUME NEW m \in S PROVE 0..m \in FiniteSubsetsOf(Nat)
      BY FS_Interval DEF FiniteSubsetsOf
    <2> QED
      BY <2>1
  <1>2. PICK t \in T : \A u \in T : ~ (<<u, t>> \in StrictSubsetOrdering(Nat))
    <2> HIDE DEF T
    <2>1. T # {}
      BY DEF T
    <2> QED
      BY <1>1, <2>1, FS_StrictSubsetOrderingWellFounded, WFMin
  <1>3. PICK m \in S : t = 0..m
    OBVIOUS
  <1>4. ASSUME NEW k \in S, k < m
        PROVE  FALSE
    <2>1. 0..k \in T
      OBVIOUS
    <2>2. 0..k \subseteq 0..m /\ 0..k # 0..m
      BY <1>4
    <2>3. <<0..k, t>> \in StrictSubsetOrdering(Nat)
      BY <1>3, <2>2 DEF StrictSubsetOrdering
    <2> QED
      BY <1>2, <2>1, <2>3
  <1> QED
    BY <1>4

\* What holds of 0 and passes from i to i + 1 holds of every natural number.
LEMMA Induct ==
  ASSUME NEW S \in SUBSET Nat, 0 \in S, \A i \in S : i + 1 \in S
  PROVE  \A i \in Nat : i \in S
  <1> SUFFICES ASSUME Nat \ S # {} PROVE FALSE
    OBVIOUS
  <1>1. PICK m \in Nat \ S : \A k \in Nat \ S : m <= k
    BY LeastNatural
  <1>2. m - 1 \in Nat /\ m - 1 \notin Nat \ S
    BY <1>1
  <1>3. (m - 1) + 1 \in S
    BY <1>2
  <1> QED
    BY <1>3

LEMMA MinIs ==
  ASSUME NEW a \in Int, NEW c \in Int
  PROVE  Min({a, c}) = IF a <= c THEN a ELSE c
  <1>1. \E x \in {a, c} : \A y \in {a, c} : x <= y
    OBVIOUS
  <1>2. Min({a, c}) \in {a, c} /\ \A y \in {a, c} : Min({a, c}) <= y
    BY <1>1 DEF Min
  <1> QED
    BY <1>2

LEMMA MaxIs ==
  ASSUME NEW a \in Int, NEW c \in Int
  PROVE  Max({a, c}) = IF a <= c THEN c ELSE a
  <1>1. \E x \in {a, c} : \A y \in {a, c} : x >= y
    OBVIOUS
  <1>2. Max({a, c}) \in {a, c} /\ \A y \in {a, c} : Max({a, c}) >= y
    BY <1>1 DEF Max
  <1> QED
    BY <1>2

-----------------------------------------------------------------------------
\* The order of a directory

M == MAXDIRENTRIES
Total(S, back) ==
    /\ \A e \in S : ~Before(e, e, back)
    /\ \A e, f \in S : e = f \/ Before(e, f, back) \/ Before(f, e, back)
    /\ \A e, f, g \in S : Before(e, f, back) /\ Before(f, g, back) => Before(e, g, back)
Sorted(w, back) == \A i, j \in DOMAIN w : i < j => Before(w[i], w[j], back)

\* CompareDirEntries orders the entries of a directory, upwards and downwards.
LEMMA DirectoryOrder ==
  ASSUME NEW d \in DOMAIN Dirs, NEW back \in BOOLEAN
  PROVE  Total(Range(Dirs[d]), back)
  <1> DEFINE S == Range(Dirs[d])
  <1>1. \A e \in S : e.place \in Nat /\ e.dir \in BOOLEAN
    BY DirectoryAssumption DEF Entries
  <1>2. \A e, f \in S : e = f \/ Less(e, f) \/ Less(f, e)
    <2> TAKE e, f \in S
    <2>1. PICK i \in DOMAIN Dirs[d] : e = Dirs[d][i]
      BY DEF Range
    <2>2. PICK j \in DOMAIN Dirs[d] : f = Dirs[d][j]
      BY DEF Range
    <2> QED
      BY <2>1, <2>2, DirectoryAssumption
  <1>3. \A e \in S : ~Less(e, e)
    BY <1>1 DEF Less
  <1>4. \A e, f, g \in S : Less(e, f) /\ Less(f, g) => Less(e, g)
    <2> TAKE e, f, g \in S
    <2> HAVE Less(e, f) /\ Less(f, g)
    <2>1. e.place \in Nat /\ f.place \in Nat /\ g.place \in Nat
          /\ e.dir \in BOOLEAN /\ f.dir \in BOOLEAN /\ g.dir \in BOOLEAN
      BY <1>1
    <2>2. \/ e.dir /\ ~g.dir
          \/ e.dir = g.dir /\ e.place < g.place
      BY <2>1 DEF Less
    <2> QED
      BY <2>2 DEF Less
  <1> HIDE DEF S
  <1> QED
    BY <1>2, <1>3, <1>4 DEF Total, Before, S

\* Two entries of a directory at different places differ.
LEMMA Distinct ==
  ASSUME NEW d \in DOMAIN Dirs, NEW i \in DOMAIN Dirs[d], NEW j \in DOMAIN Dirs[d], i # j
  PROVE  Dirs[d][i] # Dirs[d][j]
  <1>1. Less(Dirs[d][i], Dirs[d][j]) \/ Less(Dirs[d][j], Dirs[d][i])
    BY DirectoryAssumption
  <1>2. Dirs[d][i] \in Range(Dirs[d])
    BY DEF Range
  <1>3. ~Less(Dirs[d][i], Dirs[d][i])
    BY <1>2, DirectoryOrder DEF Total, Before
  <1> QED
    BY <1>1, <1>3

-----------------------------------------------------------------------------
\* The loop

\* What the loop makes of the k-th entry.
Turn(mode, letter, b, ext, k, r) ==
    IF Passes(Dirs[b.cur][k], ext) THEN Step(mode, letter, b, r, Dirs[b.cur][k]) ELSE r
Begin(mode, b) == [w |-> IF mode \in InPlace THEN b.win ELSE <<>>, new |-> FALSE]

\* What holds of the table at first and is kept by each entry holds of the result.  J is
\* the invariant: the pairs of what is read and the table.
LEMMA LoopKeeps ==
  ASSUME NEW mode, NEW letter, NEW b, NEW ext, NEW m \in Nat, NEW J,
         <<0, Begin(mode, b)>> \in J,
         \A k \in 0..(m - 1) : \A r :
            <<k, r>> \in J => <<k + 1, Turn(mode, letter, b, ext, k + 1, r)>> \in J
  PROVE  m = Len(Dirs[b.cur]) => <<m, Loop(mode, letter, b, ext, Dirs[b.cur])>> \in J
  <1> DEFINE a == Begin(mode, b)
             T(k, r) == Turn(mode, letter, b, ext, k, r)
             IsLoop(f, k) == f = [i \in 0..k |-> IF i = 0 THEN a ELSE T(i, f[i - 1])]
  <1> DEFINE P == {k \in Nat : \E f : IsLoop(f, k)}
  <1>1. 0 \in P
    <2> DEFINE f == [i \in 0..0 |-> a]
    <2>1. f = [i \in 0..0 |-> IF i = 0 THEN a ELSE T(i, f[i - 1])]
      OBVIOUS
    <2>2. IsLoop(f, 0)
      BY <2>1
    <2> QED
      BY <2>2
  <1>2. ASSUME NEW k \in P
        PROVE  k + 1 \in P
    <2>1. PICK f : IsLoop(f, k)
      OBVIOUS
    <2> DEFINE h == [i \in 0..(k + 1) |-> IF i <= k THEN f[i] ELSE T(k + 1, f[k])]
    <2> HIDE DEF T, a
    <2>2. \A i \in 0..k : f[i] = IF i = 0 THEN a ELSE T(i, f[i - 1])
      BY <2>1
    <2>3. ASSUME NEW i \in 0..(k + 1)
          PROVE  h[i] = IF i = 0 THEN a ELSE T(i, h[i - 1])
      <3>1. CASE i <= k
        <4>1. i \in 0..k /\ h[i] = f[i]
          BY <3>1
        <4>2. i # 0 => i - 1 \in 0..(k + 1) /\ h[i - 1] = f[i - 1]
          BY <4>1
        <4> HIDE DEF h
        <4> QED
          BY <2>2, <4>1, <4>2
      <3>2. CASE i = k + 1
        <4>1. i # 0 /\ i - 1 = k /\ k \in 0..(k + 1)
          BY <3>2
        <4>2. h[i] = T(k + 1, f[k]) /\ h[k] = f[k]
          BY <3>2, <4>1
        <4> HIDE DEF h
        <4> QED
          BY <3>2, <4>1, <4>2
      <3> QED
        BY <3>1, <3>2
    <2> DEFINE v == [i \in 0..(k + 1) |-> IF i = 0 THEN a ELSE T(i, h[i - 1])]
    <2>4. h = v
      BY <2>3
    <2>5. IsLoop(h, k + 1)
      BY <2>4
    <2> HIDE DEF IsLoop, h
    <2> QED
      BY <2>5
  <1>3. m \in P
    <2> HIDE DEF P
    <2>1. P \in SUBSET Nat
      BY DEF P
    <2> QED
      BY <1>1, <1>2, <2>1, Induct
  <1>4. PICK f : IsLoop(f, m) /\ (m = Len(Dirs[b.cur]) => Loop(mode, letter, b, ext, Dirs[b.cur]) = f[m])
    <2>1. PICK h : IsLoop(h, m)
      BY <1>3
    <2> QED
      BY <2>1 DEF Loop, Begin, Turn
  <1> HIDE DEF T, a
  <1>5. \A i \in 0..m : f[i] = IF i = 0 THEN a ELSE T(i, f[i - 1])
    BY <1>4
  <1> HIDE DEF IsLoop, P
  <1> DEFINE R == {k \in Nat : k \in 0..m => <<k, f[k]>> \in J}
  <1>6. 0 \in R
    BY <1>5 DEF a
  <1>7. ASSUME NEW k \in R
        PROVE  k + 1 \in R
    <2>1. CASE k + 1 \in 0..m
      <3>1. k \in 0..(m - 1) /\ <<k, f[k]>> \in J
        BY <2>1
      <3>2. f[k + 1] = T(k + 1, f[k])
        <4>1. k + 1 # 0 /\ (k + 1) - 1 = k
          OBVIOUS
        <4> QED
          BY <1>5, <2>1, <4>1
      <3>3. <<k + 1, T(k + 1, f[k])>> \in J
        BY <3>1 DEF T
      <3> QED
        BY <3>2, <3>3
    <2> QED
      BY <2>1
  <1>8. m \in R
    <2> HIDE DEF R
    <2>1. R \in SUBSET Nat
      BY DEF R
    <2> QED
      BY <1>6, <1>7, <2>1, Induct
  <1> QED
    BY <1>4, <1>8

-----------------------------------------------------------------------------
\* Sorting while reading

LEMMA SlotIs ==
  ASSUME NEW back \in BOOLEAN, NEW S, Total(S, back), NEW w \in Seq(S), Sorted(w, back),
         NEW e \in S, e \notin Range(w)
  PROVE  /\ Slot(e, w, back) \in 0..Len(w)
         /\ \A i \in 1..Slot(e, w, back) : Before(w[i], e, back)
         /\ \A i \in (Slot(e, w, back) + 1)..Len(w) : Before(e, w[i], back)
  <1> DEFINE A == {k \in 0..Len(w) : \A i \in (k + 1)..Len(w) : Before(e, w[i], back)}
  <1>1. Len(w) \in Nat /\ DOMAIN w = 1..Len(w)
    OBVIOUS
  <1>2. PICK k \in A : \A j \in A : k <= j
    <2>1. Len(w) \in A
      BY <1>1
    <2>2. A \in SUBSET Nat
      BY <1>1
    <2> HIDE DEF A
    <2> QED
      BY <2>1, <2>2, LeastNatural
  <1>3. k \in 0..Len(w) /\ \A i \in (k + 1)..Len(w) : Before(e, w[i], back)
    OBVIOUS
  <1>4. k > 0 => ~Before(e, w[k], back)
    <2> SUFFICES ASSUME k > 0, Before(e, w[k], back) PROVE FALSE
      OBVIOUS
    <2>1. k - 1 \in 0..Len(w) /\ \A i \in ((k - 1) + 1)..Len(w) : i = k \/ i \in (k + 1)..Len(w)
      BY <1>1, <1>3
    <2>2. k - 1 \in A
      BY <1>3, <2>1
    <2> QED
      BY <1>2, <1>3, <2>2
  <1>5. \E j \in 0..Len(w) : /\ j > 0 => ~Before(e, w[j], back)
                             /\ \A i \in (j + 1)..Len(w) : Before(e, w[i], back)
    BY <1>3, <1>4
  <1> DEFINE s == Slot(e, w, back)
  <1>6. /\ s \in 0..Len(w) /\ (s > 0 => ~Before(e, w[s], back))
        /\ \A i \in (s + 1)..Len(w) : Before(e, w[i], back)
    BY <1>5 DEF Slot
  <1> HIDE DEF s, A
  <1>7. ASSUME NEW i \in 1..s
        PROVE  Before(w[i], e, back)
    <2>1. s \in 1..Len(w) /\ i \in 1..Len(w) /\ w[s] \in S /\ w[i] \in S
      BY <1>1, <1>6
    <2>2. w[s] # e
      BY <1>1, <2>1 DEF Range
    <2>3. Before(w[s], e, back)
      BY <1>6, <2>1, <2>2 DEF Total
    <2>4. i = s \/ Before(w[i], w[s], back)
      BY <1>1, <2>1 DEF Sorted
    <2> QED
      BY <2>1, <2>3, <2>4 DEF Total
  <1> QED
    BY <1>6, <1>7 DEF s

\* The foremost of P, in order: as many as there is room for.
Foremost(w, P, back) ==
    /\ w \in Seq(P) /\ Sorted(w, back) /\ Len(w) <= M
    /\ \A f \in P \ Range(w) : Len(w) = M /\ Before(w[M], f, back)

LEMMA ForemostOfNone ==
  ASSUME NEW back
  PROVE  Foremost(<<>>, {}, back)
  <1>1. M \in Nat /\ M >= 2
    BY DirectoryAssumption DEF M
  <1> QED
    BY <1>1 DEF Foremost, Sorted

LEMMA ForemostPlaced ==
  ASSUME NEW back \in BOOLEAN, NEW S, Total(S, back), NEW P \in SUBSET S,
         NEW w, Foremost(w, P, back), NEW e \in S, e \notin P
  PROVE  /\ Foremost(Placed(e, w, back), P \cup {e}, back)
         /\ Len(Placed(e, w, back)) >= 1
  <1> DEFINE k == Slot(e, w, back)
             p == Placed(e, w, back)
             l == Len(w)
  <1>0. M \in Nat /\ M >= 2
    BY DirectoryAssumption DEF M
  <1>1. w \in Seq(P) /\ w \in Seq(S) /\ l \in Nat /\ l <= M /\ DOMAIN w = 1..l /\ Range(w) \subseteq P
        /\ \A i \in 1..l : w[i] \in P /\ w[i] \in S
    BY DEF Foremost, Range
  <1>2. Sorted(w, back) /\ e \notin Range(w)
    BY <1>1 DEF Foremost
  <1>3. /\ k \in 0..l
        /\ \A i \in 1..k : Before(w[i], e, back)
        /\ \A i \in (k + 1)..l : Before(e, w[i], back)
    BY <1>1, <1>2, SlotIs
  <1>4. Min({l + 1, M}) = IF l < M THEN l + 1 ELSE M
    BY <1>0, <1>1, MinIs
  <1> DEFINE m == IF l < M THEN l + 1 ELSE M
  <1>5. m \in Nat /\ m \in 1..M /\ m <= l + 1
    BY <1>0, <1>1
  <1>6. p = [i \in 1..m |-> IF i <= k THEN w[i] ELSE IF i = k + 1 THEN e ELSE w[i - 1]]
    BY <1>4 DEF Placed, M
  <1> HIDE DEF k, p, l
  <1>7. \A i \in 1..m : p[i] = IF i <= k THEN w[i] ELSE IF i = k + 1 THEN e ELSE w[i - 1]
    BY <1>6
  <1>8. \A i \in 1..m : (i <= k => i \in 1..l) /\ (i > k + 1 => i - 1 \in (k + 1)..l /\ i - 1 \in 1..l)
    BY <1>1, <1>3, <1>5
  <1>9. \A i \in 1..m : p[i] \in P \cup {e}
    BY <1>1, <1>3, <1>7, <1>8
  <1>10. p \in Seq(P \cup {e}) /\ Len(p) = m /\ DOMAIN p = 1..m
    <2> HIDE DEF m
    <2>1. p \in [1..m -> P \cup {e}]
      BY <1>6, <1>9
    <2> QED
      BY <1>5, <2>1
  <1> HIDE DEF m
  <1>11. Sorted(p, back)
    <2> SUFFICES ASSUME NEW i \in 1..m, NEW j \in 1..m, i < j
                 PROVE  Before(p[i], p[j], back)
      BY <1>10 DEF Sorted
    <2>1. \A x, y \in 1..l : x < y => Before(w[x], w[y], back)
      BY <1>1, <1>2 DEF Sorted
    <2>2. CASE j <= k
      <3>1. p[i] = w[i] /\ p[j] = w[j] /\ i \in 1..l /\ j \in 1..l
        BY <1>3, <1>7, <1>8, <2>2
      <3> QED
        BY <2>1, <3>1
    <2>3. CASE j = k + 1
      <3>1. p[i] = w[i] /\ p[j] = e /\ i \in 1..k
        BY <1>3, <1>7, <2>3
      <3> QED
        BY <1>3, <3>1
    <2>4. CASE j > k + 1
      <3>1. p[j] = w[j - 1] /\ j - 1 \in (k + 1)..l /\ j - 1 \in 1..l
        BY <1>3, <1>7, <1>8, <2>4
      <3>2. CASE i <= k
        BY <1>3, <1>7, <1>8, <2>1, <3>1, <3>2
      <3>3. CASE i = k + 1
        BY <1>3, <1>7, <3>1, <3>3
      <3>4. CASE i > k + 1
        <4>1. p[i] = w[i - 1] /\ i - 1 \in 1..l /\ i - 1 < j - 1
          BY <1>3, <1>7, <1>8, <3>4
        <4> QED
          BY <2>1, <3>1, <4>1
      <3> QED
        BY <1>3, <3>2, <3>3, <3>4
    <2> QED
      BY <1>3, <2>2, <2>3, <2>4
  <1>12. \A j \in 1..l : (j <= m /\ j <= k => p[j] = w[j]) /\ (j >= k + 1 /\ j + 1 <= m => p[j + 1] = w[j])
    <2> TAKE j \in 1..l
    <2>1. j <= m /\ j <= k => p[j] = w[j]
      BY <1>1, <1>3, <1>5, <1>7
    <2>2. ASSUME j >= k + 1, j + 1 <= m
          PROVE  p[j + 1] = w[j]
      <3>1. j + 1 \in 1..m /\ ~(j + 1 <= k) /\ j + 1 # k + 1 /\ (j + 1) - 1 = j
        BY <1>1, <1>3, <1>5, <2>2
      <3> QED
        BY <1>7, <3>1
    <2> QED
      BY <2>1, <2>2
  <1>13. ASSUME NEW f \in (P \cup {e}) \ Range(p)
         PROVE  m = M /\ Before(p[M], f, back)
    <2>0. \A i \in 1..m : f # p[i]
      BY <1>10 DEF Range
    <2>1. CASE f \in Range(w)
      <3>1. PICK j \in 1..l : f = w[j]
        BY <1>1, <2>1 DEF Range
      <3>5. ~(j \in 1..m /\ j <= k) /\ ~(j >= k + 1 /\ j + 1 \in 1..m)
        BY <1>12, <2>0, <3>1
      <3>6. m = (IF l < M THEN l + 1 ELSE M) /\ j \in 1..l /\ k \in 0..l /\ l \in Nat /\ l <= M
        BY <1>1, <1>3 DEF m
      <3>2. j = l /\ m = l /\ l = M /\ j >= k + 1
        <4> HIDE DEF M
        <4> QED
          BY <1>0, <3>5, <3>6
      <3>3. p[M] = IF M = k + 1 THEN e ELSE w[M - 1]
        BY <1>3, <1>5, <1>7, <3>2
      <3>4. M # k + 1 => M - 1 \in 1..l
        BY <1>0, <3>2
      <3> QED
        BY <1>1, <1>2, <1>3, <3>1, <3>2, <3>3, <3>4 DEF Sorted
    <2>2. CASE f = e
      <3>1. ~(k + 1 \in 1..m)
        <4>1. k + 1 \in 1..m => p[k + 1] = e
          BY <1>3, <1>7
        <4> QED
          BY <2>0, <2>2, <4>1
      <3>2. m = M /\ k = M /\ l = M
        BY <1>0, <1>1, <1>3, <3>1 DEF m
      <3>3. p[M] = w[M] /\ M \in 1..k
        BY <1>0, <1>7, <3>2
      <3> QED
        BY <1>3, <2>2, <3>2, <3>3
    <2>3. CASE f \in P \ Range(w)
      <3>1. l = M /\ Before(w[M], f, back)
        BY <2>3 DEF Foremost, l
      <3>2. m = M /\ M \in 1..l /\ M \in 1..m
        BY <1>0, <3>1 DEF m
      <3>3. w[M] \in S /\ f \in S /\ p[M] \in S
        BY <1>1, <1>9, <2>3, <3>2
      <3>4. p[M] = w[M] \/ Before(p[M], w[M], back)
        <4>1. CASE M <= k
          BY <1>7, <3>2, <4>1
        <4>2. CASE M = k + 1
          BY <1>3, <1>7, <3>2, <4>2
        <4>3. CASE M > k + 1
          <5>1. p[M] = w[M - 1] /\ M - 1 \in 1..l
            BY <1>3, <1>7, <1>8, <3>2, <4>3
          <5> QED
            BY <1>0, <1>1, <1>2, <3>2, <5>1 DEF Sorted
        <4> QED
          BY <1>0, <1>3, <4>1, <4>2, <4>3
      <3> QED
        BY <3>1, <3>2, <3>3, <3>4 DEF Total
    <2> QED
      BY <2>1, <2>2, <2>3
  <1>14. Foremost(p, P \cup {e}, back)
    BY <1>5, <1>10, <1>11, <1>13 DEF Foremost
  <1>15. Len(p) >= 1
    BY <1>5, <1>10
  <1> QED
    BY <1>14, <1>15 DEF p

\* An entry that comes after the first leaves it where it is.
LEMMA TopStays ==
  ASSUME NEW back \in BOOLEAN, NEW S, Total(S, back), NEW w \in Seq(S), Sorted(w, back), Len(w) >= 1,
         NEW e \in S, e \notin Range(w), Before(w[1], e, back)
  PROVE  Placed(e, w, back)[1] = w[1]
  <1> DEFINE k == Slot(e, w, back)
             l == Len(w)
  <1>0. M \in Nat /\ M >= 2 /\ l \in Nat /\ 1 \in 1..l /\ w[1] \in S
    BY DirectoryAssumption DEF M
  <1>1. k \in 0..l /\ \A i \in (k + 1)..l : Before(e, w[i], back)
    BY SlotIs
  <1>2. Min({l + 1, M}) = (IF l < M THEN l + 1 ELSE M) /\ 1 \in 1..(IF l < M THEN l + 1 ELSE M)
    BY <1>0, MinIs
  <1>3. ~(1 \in (k + 1)..l)
    <2>1. ~Before(e, w[1], back)
      BY <1>0 DEF Total
    <2> HIDE DEF k, l
    <2> QED
      BY <1>1, <2>1
  <1>4. 1 <= k
    <2> HIDE DEF k, l
    <2> QED
      BY <1>0, <1>1, <1>3
  <1> QED
    BY <1>2, <1>4 DEF Placed, M

-----------------------------------------------------------------------------
\* What each mode makes of a directory

\* What of the directory has been read, and passes the filter.
Read(b, ext, k) == {e \in {Dirs[b.cur][j] : j \in 1..k} : Passes(e, ext)}

LEMMA Reading ==
  ASSUME NEW b, b.cur \in DOMAIN Dirs, NEW ext
  PROVE  /\ Len(Dirs[b.cur]) \in Nat
         /\ Read(b, ext, 0) = {}
         /\ Read(b, ext, Len(Dirs[b.cur])) = Listed(b.cur, ext)
         /\ Listed(b.cur, ext) \subseteq Range(Dirs[b.cur])
         /\ \A k \in 0..(Len(Dirs[b.cur]) - 1) :
               LET e == Dirs[b.cur][k + 1] IN
               /\ e \in Range(Dirs[b.cur]) /\ e \notin Read(b, ext, k)
               /\ Read(b, ext, k) \subseteq Range(Dirs[b.cur])
               /\ Passes(e, ext) => Read(b, ext, k + 1) = Read(b, ext, k) \cup {e}
               /\ ~Passes(e, ext) => Read(b, ext, k + 1) = Read(b, ext, k)
  <1> DEFINE s == Dirs[b.cur]
             m == Len(s)
  <1>1. s \in Seq(Range(s))
    BY DirectoryAssumption
  <1>2. m \in Nat /\ DOMAIN s = 1..m
    BY <1>1
  <1>3. Read(b, ext, 0) = {}
    BY DEF Read
  <1>4. {s[j] : j \in 1..m} = Range(s)
    BY <1>2 DEF Range
  <1>5. Read(b, ext, m) = Listed(b.cur, ext)
    BY <1>4 DEF Read, Listed
  <1>6. Listed(b.cur, ext) \subseteq Range(s)
    BY DEF Listed
  <1>7. ASSUME NEW k \in 0..(m - 1)
        PROVE  LET e == s[k + 1] IN
               /\ e \in Range(s) /\ e \notin Read(b, ext, k)
               /\ Read(b, ext, k) \subseteq Range(s)
               /\ Passes(e, ext) => Read(b, ext, k + 1) = Read(b, ext, k) \cup {e}
               /\ ~Passes(e, ext) => Read(b, ext, k + 1) = Read(b, ext, k)
    <2> DEFINE e == s[k + 1]
    <2>1. k + 1 \in 1..m /\ \A j \in 1..k : j \in 1..m /\ j # k + 1
      BY <1>2
    <2>2. e \in Range(s)
      BY <1>2, <2>1 DEF Range
    <2>3. \A j \in 1..k : s[j] # e
      BY <1>2, <2>1, Distinct
    <2>4. {s[j] : j \in 1..k} \subseteq Range(s)
      BY <1>2, <2>1 DEF Range
    <2>5. 1..(k + 1) = (1..k) \cup {k + 1}
      OBVIOUS
    <2>6. {s[j] : j \in 1..(k + 1)} = {s[j] : j \in 1..k} \cup {e}
      BY <2>5
    <2> HIDE DEF e, s
    <2>7. e \notin Read(b, ext, k) /\ Read(b, ext, k) \subseteq Range(s)
      BY <2>3, <2>4 DEF Read, s
    <2>8. /\ Passes(e, ext) => Read(b, ext, k + 1) = Read(b, ext, k) \cup {e}
          /\ ~Passes(e, ext) => Read(b, ext, k + 1) = Read(b, ext, k)
      BY <2>6 DEF Read, s
    <2> QED
      BY <2>2, <2>7, <2>8 DEF e
  <1> QED
    BY <1>2, <1>3, <1>5, <1>6, <1>7

Own == {"INIT", "NEXT_PAGE", "PREV_PAGE", "FIND_FILE", "FIND_DIR", "FIND_NEXT"}
Tables(b) == [w : Seq(Range(Dirs[b.cur])), new : BOOLEAN]

LEMMA CollectStep ==
  ASSUME NEW mode \in Own \cup {"INIT_NEXT"}, NEW letter, NEW b, NEW r, NEW e
  PROVE  Step(mode, letter, b, r, e) =
            IF Collects(mode, letter, b, e)
            THEN [w |-> Placed(e, r.w, mode = "PREV_PAGE"), new |-> TRUE] ELSE r
  BY DEF Step, Own

\* The modes that sort leave the foremost of what they collect.
LEMMA Collected ==
  ASSUME NEW mode \in Own, NEW letter, NEW b, b.cur \in DOMAIN Dirs, NEW ext
  PROVE  Foremost(Loop(mode, letter, b, ext, Dirs[b.cur]).w,
                  {e \in Listed(b.cur, ext) : Collects(mode, letter, b, e)}, mode = "PREV_PAGE")
  <1> DEFINE m == Len(Dirs[b.cur])
             S == Range(Dirs[b.cur])
             back == (mode = "PREV_PAGE")
             P(k) == {e \in Read(b, ext, k) : Collects(mode, letter, b, e)}
             J == {x \in (0..m) \X Tables(b) : Foremost(x[2].w, P(x[1]), back)}
  <1>1. m \in Nat /\ back \in BOOLEAN /\ Total(S, back)
    BY Reading, DirectoryOrder
  <1>2. <<0, Begin(mode, b)>> \in J
    <2>1. Begin(mode, b) = [w |-> <<>>, new |-> FALSE]
      BY DEF Begin, InPlace, Own
    <2>2. P(0) = {}
      BY Reading
    <2>3. Foremost(<<>>, {}, back)
      BY ForemostOfNone
    <2>4. Begin(mode, b) \in Tables(b) /\ 0 \in 0..m
      BY <1>1, <2>1 DEF Tables
    <2>5. Begin(mode, b).w = <<>>
      BY <2>1
    <2> HIDE DEF P, back, m
    <2>6. Foremost(Begin(mode, b).w, P(0), back)
      BY <2>2, <2>3, <2>5
    <2> QED
      BY <2>4, <2>6
  <1>3. ASSUME NEW k \in 0..(m - 1), NEW r, <<k, r>> \in J
        PROVE  <<k + 1, Turn(mode, letter, b, ext, k + 1, r)>> \in J
    <2> DEFINE e == Dirs[b.cur][k + 1]
               v == Turn(mode, letter, b, ext, k + 1, r)
    <2>0. r \in Tables(b) /\ Foremost(r.w, P(k), back)
      <3> HIDE DEF P, back, m
      <3> QED
        BY <1>3
    <2>1. r \in Tables(b) /\ Foremost(r.w, P(k), back) /\ k + 1 \in 0..m
      BY <1>1, <2>0
    <2>2. /\ e \in S /\ e \notin Read(b, ext, k) /\ Read(b, ext, k) \subseteq S
          /\ Passes(e, ext) => Read(b, ext, k + 1) = Read(b, ext, k) \cup {e}
          /\ ~Passes(e, ext) => Read(b, ext, k + 1) = Read(b, ext, k)
      BY Reading
    <2>3. CASE Passes(e, ext) /\ Collects(mode, letter, b, e)
      <3>1. v = [w |-> Placed(e, r.w, back), new |-> TRUE]
        BY <2>3, CollectStep DEF Turn
      <3>2. P(k + 1) = P(k) \cup {e} /\ e \notin P(k) /\ P(k) \subseteq S /\ P(k + 1) \subseteq S
        BY <2>2, <2>3
      <3> HIDE DEF e, v, P, S, back
      <3>3. Foremost(Placed(e, r.w, back), P(k + 1), back)
        BY <1>1, <2>1, <2>2, <3>2, ForemostPlaced
      <3>4. Placed(e, r.w, back) \in Seq(S)
        BY <3>2, <3>3 DEF Foremost
      <3>5. v \in Tables(b) /\ v.w = Placed(e, r.w, back)
        BY <3>1, <3>4 DEF Tables, S
      <3> QED
        BY <2>1, <3>3, <3>5 DEF v
    <2>4. CASE ~(Passes(e, ext) /\ Collects(mode, letter, b, e))
      <3>1. v = r
        BY <2>4, CollectStep DEF Turn
      <3>2. P(k + 1) = P(k)
        BY <2>2, <2>4
      <3> HIDE DEF e, v, P, S, back
      <3> QED
        BY <2>1, <3>1, <3>2 DEF v
    <2> QED
      BY <2>3, <2>4
  <1>4. <<m, Loop(mode, letter, b, ext, Dirs[b.cur])>> \in J
    <2>1. m = Len(Dirs[b.cur])
      OBVIOUS
    <2> HIDE DEF J, m
    <2> QED
      BY <1>1, <1>2, <1>3, <2>1, LoopKeeps
  <1>5. P(m) = {e \in Listed(b.cur, ext) : Collects(mode, letter, b, e)}
    BY Reading
  <1> HIDE DEF P, m, back
  <1>6. Foremost(Loop(mode, letter, b, ext, Dirs[b.cur]).w, P(m), back)
    BY <1>4
  <1> QED
    BY <1>5, <1>6 DEF m, back

\* SCAN_INIT_NEXT fills the window below its top with what comes next.
LEMMA InitNextLoop ==
  ASSUME NEW b, b.cur \in DOMAIN Dirs, NEW ext, NEW top \in Listed(b.cur, ext), b.win = <<top>>
  PROVE  LET w == Loop("INIT_NEXT", 0, b, ext, Dirs[b.cur]).w IN
         /\ Foremost(w, {top} \cup {e \in Listed(b.cur, ext) : Less(top, e)}, FALSE)
         /\ Len(w) >= 1 /\ w[1] = top
  <1> DEFINE m == Len(Dirs[b.cur])
             S == Range(Dirs[b.cur])
             mode == "INIT_NEXT"
             back == FALSE
             P(k) == {top} \cup {e \in Read(b, ext, k) : Less(top, e)}
             J == {x \in (0..m) \X Tables(b) :
                      Foremost(x[2].w, P(x[1]), back) /\ Len(x[2].w) >= 1 /\ x[2].w[1] = top}
  <1>1. m \in Nat /\ Total(S, back) /\ top \in S /\ M \in Nat /\ M >= 2 /\ back \in BOOLEAN
    BY Reading, DirectoryOrder, DirectoryAssumption DEF M
  <1>2. \A e : Collects(mode, 0, b, e) <=> Less(top, e)
    BY DEF Collects
  <1>3. <<0, Begin(mode, b)>> \in J
    <2>1. Begin(mode, b) = [w |-> <<top>>, new |-> FALSE]
      BY DEF Begin, InPlace
    <2>2. P(0) = {top}
      BY Reading
    <2>3. Foremost(<<top>>, {top}, back)
      <3> DEFINE t == <<top>>
      <3>1. t \in Seq({top}) /\ Len(t) = 1 /\ DOMAIN t = 1..1 /\ t[1] = top
        OBVIOUS
      <3> HIDE DEF t, back
      <3>2. top \in Range(t)
        BY <3>1 DEF Range
      <3>3. Sorted(t, back) /\ Len(t) <= M
        BY <1>1, <3>1 DEF Sorted
      <3> QED
        BY <3>1, <3>2, <3>3 DEF Foremost, t
    <2>4. Begin(mode, b) \in Tables(b) /\ 0 \in 0..m
      <3> DEFINE t == <<top>>
      <3>1. t \in Seq(S)
        BY <1>1
      <3>2. Begin(mode, b) = [w |-> t, new |-> FALSE]
        BY <2>1
      <3> HIDE DEF t, S
      <3>4. [w |-> t, new |-> FALSE] \in [w : Seq(S), new : BOOLEAN]
        BY <3>1
      <3>3. Begin(mode, b) \in [w : Seq(S), new : BOOLEAN]
        BY <3>2, <3>4
      <3> QED
        BY <1>1, <3>3 DEF Tables, S
    <2>5. Begin(mode, b).w = <<top>> /\ Len(<<top>>) >= 1 /\ <<top>>[1] = top
      BY <2>1
    <2> HIDE DEF P, m, mode, back
    <2>6. Foremost(Begin(mode, b).w, P(0), back) /\ Len(Begin(mode, b).w) >= 1 /\ Begin(mode, b).w[1] = top
      BY <2>2, <2>3, <2>5
    <2> QED
      BY <2>4, <2>6
  <1>4. ASSUME NEW k \in 0..(m - 1), NEW r, <<k, r>> \in J
        PROVE  <<k + 1, Turn(mode, 0, b, ext, k + 1, r)>> \in J
    <2> DEFINE e == Dirs[b.cur][k + 1]
               v == Turn(mode, 0, b, ext, k + 1, r)
    <2>0. r \in Tables(b) /\ Foremost(r.w, P(k), back) /\ Len(r.w) >= 1 /\ r.w[1] = top
      <3> HIDE DEF P, m, back
      <3> QED
        BY <1>4
    <2>1. k + 1 \in 0..m
      BY <1>1
    <2>2. /\ e \in S /\ e \notin Read(b, ext, k) /\ Read(b, ext, k) \subseteq S
          /\ Passes(e, ext) => Read(b, ext, k + 1) = Read(b, ext, k) \cup {e}
          /\ ~Passes(e, ext) => Read(b, ext, k + 1) = Read(b, ext, k)
      BY Reading
    <2>3. CASE Passes(e, ext) /\ Less(top, e)
      <3>1. v = [w |-> Placed(e, r.w, back), new |-> TRUE]
        BY <1>2, <2>3, CollectStep DEF Turn
      <3>2. e # top
        BY <1>1, <2>3 DEF Total, Before, back
      <3>3. P(k + 1) = P(k) \cup {e} /\ e \notin P(k) /\ P(k) \subseteq S /\ P(k + 1) \subseteq S
        BY <1>1, <2>2, <2>3, <3>2
      <3>4. Before(r.w[1], e, back)
        BY <2>0, <2>3 DEF Before, back
      <3> HIDE DEF e, v, P, S, mode, back
      <3>9. Foremost(r.w, P(k), back) /\ Len(r.w) >= 1 /\ r.w[1] = top /\ e \in S /\ Total(S, back)
            /\ back \in BOOLEAN
        BY <1>1, <2>0, <2>2
      <3> DEFINE pl == Placed(e, r.w, back)
      <3>11. Foremost(pl, P(k) \cup {e}, back)
        BY <3>3, <3>9, ForemostPlaced
      <3>12. Len(pl) >= 1
        BY <3>3, <3>9, ForemostPlaced
      <3>13. pl[1] = r.w[1]
        <4>1. r.w \in Seq(S) /\ Sorted(r.w, back) /\ e \notin Range(r.w)
          BY <3>3, <3>9 DEF Foremost, Range
        <4> QED
          BY <3>4, <3>9, <4>1, TopStays
      <3>10. Foremost(pl, P(k) \cup {e}, back) /\ Len(pl) >= 1 /\ pl[1] = r.w[1]
        BY <3>11, <3>12, <3>13
      <3>5. /\ Foremost(Placed(e, r.w, back), P(k + 1), back)
            /\ Len(Placed(e, r.w, back)) >= 1 /\ Placed(e, r.w, back)[1] = top
        BY <3>3, <3>9, <3>10
      <3>6. Placed(e, r.w, back) \in Seq(S)
        BY <3>3, <3>5 DEF Foremost
      <3>7. v \in Tables(b) /\ v.w = Placed(e, r.w, back)
        BY <3>1, <3>6 DEF Tables, S
      <3> QED
        BY <2>1, <3>5, <3>7 DEF v
    <2>4. CASE ~(Passes(e, ext) /\ Less(top, e))
      <3>1. v = r
        BY <1>2, <2>4, CollectStep DEF Turn
      <3>2. P(k + 1) = P(k)
        BY <2>2, <2>4
      <3> HIDE DEF e, v, P, S, mode, back
      <3> QED
        BY <2>0, <2>1, <3>1, <3>2 DEF v
    <2> QED
      BY <2>3, <2>4
  <1>5. <<m, Loop(mode, 0, b, ext, Dirs[b.cur])>> \in J
    <2>1. m = Len(Dirs[b.cur])
      OBVIOUS
    <2> HIDE DEF J, m
    <2> QED
      BY <1>1, <1>3, <1>4, <2>1, LoopKeeps
  <1>6. P(m) = {top} \cup {e \in Listed(b.cur, ext) : Less(top, e)}
    BY Reading
  <1> HIDE DEF P, m, back
  <1>7. LET w == Loop(mode, 0, b, ext, Dirs[b.cur]).w IN Foremost(w, P(m), back) /\ Len(w) >= 1 /\ w[1] = top
    BY <1>5
  <1> QED
    BY <1>6, <1>7 DEF m, back

\* SCAN_INIT_FIRST finds the entry of the directory that was left, if there is one.
LEMMA InitFirstLoop ==
  ASSUME NEW b, b.cur \in DOMAIN Dirs, NEW ext
  PROVE  LET r == Loop("INIT_FIRST", 0, b, ext, Dirs[b.cur]) IN
         /\ r.new \in BOOLEAN
         /\ r.new => \E e \in Listed(b.cur, ext) : r.w = <<e>> /\ e.cluster = b.prev
         /\ (\E e \in Listed(b.cur, ext) : e.cluster = b.prev) => r.new
  <1> DEFINE m == Len(Dirs[b.cur])
             S == Range(Dirs[b.cur])
             mode == "INIT_FIRST"
             Q(k, r) == /\ r.new => \E e \in Read(b, ext, k) : r.w = <<e>> /\ e.cluster = b.prev
                        /\ (\E e \in Read(b, ext, k) : e.cluster = b.prev) => r.new
             U == {Begin(mode, b)} \cup [w : Seq(S), new : BOOLEAN]
             J == {x \in (0..m) \X U : Q(x[1], x[2])}
  <1>1. m \in Nat
    BY Reading
  <1>2. <<0, Begin(mode, b)>> \in J
    <2>1. Begin(mode, b).new = FALSE
      BY DEF Begin
    <2>2. Q(0, Begin(mode, b))
      BY <2>1, Reading
    <2> HIDE DEF Q, m, mode
    <2> QED
      BY <1>1, <2>2
  <1>3. ASSUME NEW k \in 0..(m - 1), NEW r, <<k, r>> \in J
        PROVE  <<k + 1, Turn(mode, 0, b, ext, k + 1, r)>> \in J
    <2> DEFINE e == Dirs[b.cur][k + 1]
               v == Turn(mode, 0, b, ext, k + 1, r)
    <2>0. r \in U /\ Q(k, r)
      <3> HIDE DEF Q, m, U
      <3> QED
        BY <1>3
    <2>1. k + 1 \in 0..m
      BY <1>1
    <2>2. /\ e \in S
          /\ Passes(e, ext) => Read(b, ext, k + 1) = Read(b, ext, k) \cup {e}
          /\ ~Passes(e, ext) => Read(b, ext, k + 1) = Read(b, ext, k)
      BY Reading
    <2>3. CASE Passes(e, ext) /\ e.cluster = b.prev
      <3>1. v = [w |-> <<e>>, new |-> TRUE]
        BY <2>3 DEF Turn, Step, StepFirst
      <3>2. v \in U
        <4>1. <<e>> \in Seq(S)
          BY <2>2
        <4> HIDE DEF e, S, v
        <4> QED
          BY <3>1, <4>1
      <3>3. v.w = <<e>> /\ v.new = TRUE
        BY <3>1
      <3>4. Q(k + 1, v)
        BY <2>2, <2>3, <3>3
      <3> HIDE DEF Q, v, m, U
      <3> QED
        BY <2>1, <3>2, <3>4 DEF v
    <2>4. CASE ~(Passes(e, ext) /\ e.cluster = b.prev)
      <3>1. v = r
        BY <2>4 DEF Turn, Step, StepFirst
      <3> HIDE DEF e, v
      <3>2. Q(k + 1, r)
        BY <2>0, <2>2, <2>4
      <3> HIDE DEF Q, m, U
      <3> QED
        BY <2>0, <2>1, <3>1, <3>2 DEF v
    <2> QED
      BY <2>3, <2>4
  <1>4. <<m, Loop(mode, 0, b, ext, Dirs[b.cur])>> \in J
    <2>1. m = Len(Dirs[b.cur])
      OBVIOUS
    <2> HIDE DEF J, m
    <2> QED
      BY <1>1, <1>2, <1>3, <2>1, LoopKeeps
  <1>5. LET r == Loop(mode, 0, b, ext, Dirs[b.cur]) IN r \in U /\ Q(m, r)
    <2> HIDE DEF Q, m, U
    <2> QED
      BY <1>4
  <1>6. \A u \in U : u.new \in BOOLEAN
    <2>1. Begin(mode, b).new \in BOOLEAN
      BY DEF Begin
    <2>2. \A u \in [w : Seq(S), new : BOOLEAN] : u.new \in BOOLEAN
      OBVIOUS
    <2> QED
      BY <2>1, <2>2
  <1>7. Read(b, ext, m) = Listed(b.cur, ext)
    BY Reading
  <1> HIDE DEF U
  <1> QED
    BY <1>5, <1>6, <1>7

-----------------------------------------------------------------------------
\* Windows

\* An entry of a directory and a window on it.
View(w, r, b, ext) == w \in Seq(Range(Dirs[b.cur])) /\ Shows(w, r, Listed(b.cur, ext)) /\ Len(w) >= 1

\* A window that was sorted from its first entry on.
LEMMA ForemostShows ==
  ASSUME NEW L, NEW P \in SUBSET L, NEW w, Foremost(w, P, FALSE), Len(w) >= 1,
         \A e \in L \ P : Less(e, w[1])
  PROVE  Shows(w, 1, L)
  <1>1. w \in Seq(P) /\ DOMAIN w = 1..Len(w) /\ Len(w) \in Nat /\ Len(w) <= M
    BY DEF Foremost
  <1>2. Range(w) \subseteq L
    BY <1>1 DEF Range
  <1>3. \A i, j \in DOMAIN w : i < j => Less(w[i], w[j])
    BY DEF Foremost, Sorted, Before
  <1>4. ASSUME NEW e \in L \ Range(w)
        PROVE  Less(e, w[1]) \/ (Less(Last(w), e) /\ Len(w) = MAXDIRENTRIES)
    <2>1. CASE e \in P
      <3>1. Len(w) = M /\ Less(w[M], e)
        BY <2>1 DEF Foremost, Before
      <3> QED
        BY <3>1 DEF Last, M
    <2>2. CASE e \notin P
      BY <2>2
    <2> QED
      BY <2>1, <2>2
  <1> QED
    BY <1>1, <1>2, <1>3, <1>4 DEF Shows, M

LEMMA ForemostEmpty ==
  ASSUME NEW P, NEW w, NEW back, Foremost(w, P, back), ~(Len(w) >= 1)
  PROVE  w = <<>> /\ P = {}
  <1>1. w \in Seq(P) /\ Len(w) \in Nat /\ M \in Nat /\ M >= 2
    BY DirectoryAssumption DEF Foremost, M
  <1>2. Len(w) = 0 /\ w = <<>>
    BY <1>1
  <1>3. Range(w) = {}
    BY <1>2 DEF Range
  <1> QED
    BY <1>1, <1>2, <1>3 DEF Foremost

\* The window after a step down.
LEMMA Slide ==
  ASSUME NEW S, NEW w \in Seq(S), Len(w) = M, NEW x \in S
  PROVE  /\ Append(Tail(w), x) \in Seq(S) /\ Len(Append(Tail(w), x)) = M
         /\ Append(Tail(w), x)[M] = x
         /\ \A i \in 1..(M - 1) : Append(Tail(w), x)[i] = w[i + 1]
         /\ \A e \in S : [Append(Tail(w), x) EXCEPT ![M] = e] = Append(Tail(w), e)
  <1> DEFINE t == Tail(w)
  <1>1. M \in Nat /\ M >= 2
    BY DirectoryAssumption DEF M
  <1>2. t \in Seq(S) /\ Len(t) = M - 1 /\ \A i \in 1..(M - 1) : t[i] = w[i + 1]
    <2>1. w # <<>>
      BY <1>1
    <2> QED
      BY <2>1, HeadTailProperties
  <1> HIDE DEF t, M
  <1>3. ASSUME NEW e \in S
        PROVE  /\ Append(t, e) \in Seq(S) /\ Len(Append(t, e)) = M /\ Append(t, e)[M] = e
               /\ \A i \in 1..(M - 1) : Append(t, e)[i] = t[i]
    BY <1>1, <1>2, AppendProperties
  <1>4. ASSUME NEW e \in S
        PROVE  [Append(t, x) EXCEPT ![M] = e] = Append(t, e)
    <2> DEFINE u == Append(t, x)
               v == [u EXCEPT ![M] = e]
    <2>1. u \in Seq(S) /\ Len(u) = M /\ M \in 1..M
      BY <1>1, <1>3
    <2> HIDE DEF u
    <2>2. v \in Seq(S) /\ Len(v) = M /\ \A j \in 1..M : v[j] = IF j = M THEN e ELSE u[j]
      BY <2>1, ExceptSeq
    <2> HIDE DEF v
    <2>3. \A j \in 1..M : v[j] = Append(t, e)[j]
      <3> TAKE j \in 1..M
      <3>1. CASE j = M
        BY <1>3, <2>2, <3>1
      <3>2. CASE j \in 1..(M - 1)
        <4>1. j # M
          BY <1>1, <3>2
        <4>2. v[j] = u[j]
          BY <2>2, <4>1
        <4>3. u[j] = t[j] /\ Append(t, e)[j] = t[j]
          BY <1>3, <3>2 DEF u
        <4> QED
          BY <4>2, <4>3
      <3>3. j = M \/ j \in 1..(M - 1)
        BY <1>1
      <3> QED
        BY <3>1, <3>2, <3>3
    <2>4. Append(t, e) \in Seq(S) /\ Len(Append(t, e)) = M
      BY <1>3
    <2>5. v = Append(t, e)
      BY <2>2, <2>3, <2>4, SeqEqual
    <2> QED
      BY <2>5 DEF v, u
  <1>5. /\ Append(t, x) \in Seq(S) /\ Len(Append(t, x)) = M /\ Append(t, x)[M] = x
        /\ \A i \in 1..(M - 1) : Append(t, x)[i] = w[i + 1]
    BY <1>2, <1>3
  <1> QED
    BY <1>4, <1>5 DEF t

\* SCAN_NEXT at the last row of a full window: the window moves down by one, if it can.
LEMMA NextLoop ==
  ASSUME NEW b, b.cur \in DOMAIN Dirs, NEW ext, View(b.win, b.sel, b, ext), Len(b.win) = M
  PROVE  LET r == Loop("NEXT", 0, b, ext, Dirs[b.cur]) IN
         \/ r.w = b.win /\ \A e \in Listed(b.cur, ext) : ~Less(b.win[M], e)
         \/ \E x \in Listed(b.cur, ext) :
               /\ r.w = Append(Tail(b.win), x) /\ Less(b.win[M], x)
               /\ \A e \in Listed(b.cur, ext) : Less(b.win[M], e) => e = x \/ Less(x, e)
  <1> DEFINE m == Len(Dirs[b.cur])
             S == Range(Dirs[b.cur])
             mode == "NEXT"
             last == b.win[M]
             Slid(x) == Append(Tail(b.win), x)
             Q(R, r) == \/ ~r.new /\ r.w = b.win /\ \A e \in R : ~Less(last, e)
                        \/ /\ r.new
                           /\ \E x \in R : /\ r.w = Slid(x) /\ Less(last, x)
                                           /\ \A e \in R : Less(last, e) => e = x \/ Less(x, e)
             J == {x \in (0..m) \X Tables(b) : Q(Read(b, ext, x[1]), x[2])}
  <1>1. m \in Nat /\ M \in Nat /\ M >= 2 /\ b.win \in Seq(S) /\ Len(b.win) = M
    BY Reading, DirectoryAssumption DEF M, View
  <1>2. /\ \A e \in S : ~Less(e, e)
        /\ \A e, f \in S : e = f \/ Less(e, f) \/ Less(f, e)
        /\ \A e, f, g \in S : Less(e, f) /\ Less(f, g) => Less(e, g)
    BY DirectoryOrder DEF Total, Before
  <1>3. ASSUME NEW x \in S
        PROVE  /\ Slid(x) \in Seq(S) /\ Len(Slid(x)) = M /\ Slid(x)[M] = x /\ Slid(x)[M - 1] = last
               /\ \A e \in S : [Slid(x) EXCEPT ![M] = e] = Slid(e)
    <2> HIDE DEF S
    <2>1. M - 1 \in 1..(M - 1) /\ (M - 1) + 1 = M
      BY <1>1
    <2> DEFINE w == b.win
    <2> HIDE DEF w
    <2>2. w \in Seq(S) /\ Len(w) = M
      BY <1>1 DEF w
    <2>3. /\ Append(Tail(w), x) \in Seq(S) /\ Len(Append(Tail(w), x)) = M
          /\ Append(Tail(w), x)[M] = x
          /\ \A i \in 1..(M - 1) : Append(Tail(w), x)[i] = w[i + 1]
          /\ \A e \in S : [Append(Tail(w), x) EXCEPT ![M] = e] = Append(Tail(w), e)
      BY <2>2, Slide
    <2>4. Append(Tail(w), x)[M - 1] = w[M]
      BY <2>1, <2>3
    <2> QED
      BY <2>3, <2>4 DEF w
  <1>4. <<0, Begin(mode, b)>> \in J
    <2>1. Begin(mode, b) = [w |-> b.win, new |-> FALSE]
      BY DEF Begin, InPlace
    <2>2. Read(b, ext, 0) = {}
      BY Reading
    <2>3. Begin(mode, b) \in Tables(b) /\ 0 \in 0..m
      <3> HIDE DEF S
      <3>1. [w |-> b.win, new |-> FALSE] \in [w : Seq(S), new : BOOLEAN]
        BY <1>1
      <3>2. Tables(b) = [w : Seq(S), new : BOOLEAN]
        BY DEF Tables, S
      <3> HIDE DEF mode, m
      <3> QED
        BY <1>1, <2>1, <3>1, <3>2
    <2>4. Begin(mode, b).w = b.win /\ Begin(mode, b).new = FALSE
      BY <2>1
    <2>5. Q(Read(b, ext, 0), Begin(mode, b))
      BY <2>2, <2>4
    <2> HIDE DEF Q, m, mode
    <2> QED
      BY <2>3, <2>5
  <1>5. ASSUME NEW k \in 0..(m - 1), NEW r, <<k, r>> \in J
        PROVE  <<k + 1, Turn(mode, 0, b, ext, k + 1, r)>> \in J
    <2> DEFINE e == Dirs[b.cur][k + 1]
               v == Turn(mode, 0, b, ext, k + 1, r)
               R == Read(b, ext, k)
               R1 == Read(b, ext, k + 1)
    <2>0. r \in Tables(b) /\ Q(R, r)
      <3> HIDE DEF Q, m
      <3> QED
        BY <1>5
    <2>1. k + 1 \in 0..m
      BY <1>1
    <2>2. /\ e \in S /\ R \subseteq S
          /\ Passes(e, ext) => R1 = R \cup {e}
          /\ ~Passes(e, ext) => R1 = R
      BY Reading
    <2>3. last \in S
      BY <1>1
    <2> SUFFICES v \in Tables(b) /\ Q(R1, v)
      <3> HIDE DEF Q, v, m, mode
      <3> QED
        BY <2>1 DEF v
    <2>4. CASE ~Passes(e, ext)
      <3>1. v = r /\ R1 = R
        BY <2>2, <2>4 DEF Turn
      <3> HIDE DEF Q, v, R, R1
      <3> QED
        BY <2>0, <3>1
    <2>5. CASE Passes(e, ext)
      <3>1. v = StepNext(r, e) /\ R1 = R \cup {e}
        BY <2>2, <2>5 DEF Turn, Step
      <3> HIDE DEF v, e, R, R1, S, last, Slid
      <3>2. CASE ~r.new
        <4>1. r.w = b.win /\ (\A f \in R : ~Less(last, f)) /\ r.w[M] = last
          BY <2>0, <3>2 DEF last
        <4>2. CASE Less(last, e)
          <5>1. v = [w |-> Slid(e), new |-> TRUE]
            BY <3>1, <3>2, <4>1, <4>2 DEF StepNext, M, Slid
          <5>2. v \in Tables(b) /\ v.w = Slid(e) /\ v.new = TRUE
            BY <1>3, <2>2, <5>1 DEF Tables, S
          <5>3. e \in R1 /\ \A f \in R1 : Less(last, f) => f = e \/ Less(e, f)
            BY <3>1, <4>1
          <5> QED
            BY <4>2, <5>2, <5>3
        <4>3. CASE ~Less(last, e)
          <5>1. v = r
            BY <3>1, <3>2, <4>1, <4>3 DEF StepNext, M
          <5> QED
            BY <2>0, <3>1, <3>2, <4>1, <4>3, <5>1
        <4> QED
          BY <4>2, <4>3
      <3>3. CASE r.new
        <4>1. PICK x \in R : /\ r.w = Slid(x) /\ Less(last, x)
                             /\ \A f \in R : Less(last, f) => f = x \/ Less(x, f)
          BY <2>0, <3>3
        <4>2. x \in S /\ r.w[M] = x /\ r.w[M - 1] = last
          BY <1>3, <2>2, <4>1
        <4>3. CASE Less(e, x) /\ Less(last, e)
          <5>1. v = [r EXCEPT !.w = [r.w EXCEPT ![M] = e]]
            BY <3>1, <3>3, <4>2, <4>3 DEF StepNext, M
          <5>2. [r.w EXCEPT ![M] = e] = Slid(e) /\ Slid(e) \in Seq(S)
            BY <1>3, <2>2, <4>1, <4>2
          <5>3. v \in Tables(b) /\ v.w = Slid(e) /\ v.new
            BY <2>0, <3>3, <5>1, <5>2 DEF Tables, S
          <5>4. \A f \in R1 : Less(last, f) => f = e \/ Less(e, f)
            BY <1>2, <2>2, <3>1, <4>1, <4>2, <4>3
          <5> QED
            BY <3>1, <4>3, <5>3, <5>4
        <4>4. CASE ~(Less(e, x) /\ Less(last, e))
          <5>1. v = r
            BY <3>1, <3>3, <4>2, <4>4 DEF StepNext, M
          <5>2. Less(last, e) => e = x \/ Less(x, e)
            BY <1>2, <2>2, <4>2, <4>4
          <5>3. \A f \in R1 : Less(last, f) => f = x \/ Less(x, f)
            BY <3>1, <4>1, <5>2
          <5> QED
            BY <2>0, <3>1, <3>3, <4>1, <5>1, <5>3
        <4> QED
          BY <4>3, <4>4
      <3> QED
        BY <3>2, <3>3
    <2> QED
      BY <2>4, <2>5
  <1>6. <<m, Loop(mode, 0, b, ext, Dirs[b.cur])>> \in J
    <2>1. m = Len(Dirs[b.cur])
      OBVIOUS
    <2> HIDE DEF J, m
    <2> QED
      BY <1>1, <1>4, <1>5, <2>1, LoopKeeps
  <1>7. Read(b, ext, m) = Listed(b.cur, ext)
    BY Reading
  <1>8. Q(Read(b, ext, m), Loop(mode, 0, b, ext, Dirs[b.cur]))
    <2> HIDE DEF Q, m
    <2> QED
      BY <1>6
  <1> QED
    BY <1>7, <1>8

\* The order of entries, as the scans up and down use it.
LEMMA Ordered ==
  ASSUME NEW d \in DOMAIN Dirs
  PROVE  /\ \A e \in Range(Dirs[d]) : ~Less(e, e)
         /\ \A e, f \in Range(Dirs[d]) : e = f \/ Less(e, f) \/ Less(f, e)
         /\ \A e, f, g \in Range(Dirs[d]) : Less(e, f) /\ Less(f, g) => Less(e, g)
  BY DirectoryOrder DEF Total, Before

\* What a window that is not empty shows.
LEMMA ViewIs ==
  ASSUME NEW b, b.cur \in DOMAIN Dirs, NEW ext, NEW w, NEW r, View(w, r, b, ext)
  PROVE  /\ w \in Seq(Range(Dirs[b.cur])) /\ Len(w) \in 1..M /\ r \in 1..Len(w) /\ DOMAIN w = 1..Len(w)
         /\ M \in Nat /\ M >= 2
         /\ \A i \in 1..Len(w) : w[i] \in Listed(b.cur, ext) /\ w[i] \in Range(Dirs[b.cur])
         /\ \A i, j \in 1..Len(w) : i < j => Less(w[i], w[j])
         /\ \A e \in Listed(b.cur, ext) \ Range(w) : Less(e, w[1]) \/ (Less(w[Len(w)], e) /\ Len(w) = M)
  <1>1. w \in Seq(Range(Dirs[b.cur])) /\ Len(w) \in Nat /\ DOMAIN w = 1..Len(w) /\ Len(w) >= 1
    BY DEF View
  <1>2. w # <<>>
    BY <1>1
  <1>3. /\ r \in DOMAIN w /\ Len(w) <= MAXDIRENTRIES
        /\ Range(w) \subseteq Listed(b.cur, ext)
        /\ \A i, j \in DOMAIN w : i < j => Less(w[i], w[j])
        /\ \A e \in Listed(b.cur, ext) \ Range(w) :
              Less(e, w[1]) \/ (Less(Last(w), e) /\ Len(w) = MAXDIRENTRIES)
    BY <1>2 DEF View, Shows
  <1>4. \A i \in 1..Len(w) : w[i] \in Listed(b.cur, ext) /\ w[i] \in Range(Dirs[b.cur])
    BY <1>1, <1>3, Reading DEF Range
  <1>5. M \in Nat /\ M >= 2
    BY DirectoryAssumption DEF M
  <1>6. \A e \in Listed(b.cur, ext) \ Range(w) : Less(e, w[1]) \/ (Less(w[Len(w)], e) /\ Len(w) = M)
    BY <1>3 DEF Last, M
  <1>7. \A i, j \in 1..Len(w) : i < j => Less(w[i], w[j])
    BY <1>1, <1>3
  <1>8. Len(w) \in 1..M /\ r \in 1..Len(w)
    BY <1>1, <1>3, <1>5 DEF M
  <1> QED
    BY <1>1, <1>4, <1>5, <1>6, <1>7, <1>8

\* What makes a window.
LEMMA ViewOf ==
  ASSUME NEW b, b.cur \in DOMAIN Dirs, NEW ext, NEW w \in Seq(Range(Dirs[b.cur])), NEW r,
         Len(w) \in 1..M, r \in 1..Len(w),
         \A i \in 1..Len(w) : w[i] \in Listed(b.cur, ext),
         \A i, j \in 1..Len(w) : i < j => Less(w[i], w[j]),
         \A e \in Listed(b.cur, ext) :
            (\A i \in 1..Len(w) : e # w[i]) => Less(e, w[1]) \/ (Less(w[Len(w)], e) /\ Len(w) = M)
  PROVE  View(w, r, b, ext)
  <1>1. DOMAIN w = 1..Len(w) /\ M \in Nat
    BY DirectoryAssumption DEF M
  <1>2. Range(w) \subseteq Listed(b.cur, ext)
    BY <1>1 DEF Range
  <1>3. \A e \in Listed(b.cur, ext) \ Range(w) : Less(e, w[1]) \/ (Less(w[Len(w)], e) /\ Len(w) = M)
    BY <1>1 DEF Range
  <1>4. \A e \in Listed(b.cur, ext) \ Range(w) :
           Less(e, w[1]) \/ (Less(Last(w), e) /\ Len(w) = MAXDIRENTRIES)
    BY <1>3 DEF Last, M
  <1>5. r \in DOMAIN w /\ Len(w) <= MAXDIRENTRIES /\ Len(w) >= 1
    BY <1>1 DEF M
  <1>6. \A i, j \in DOMAIN w : i < j => Less(w[i], w[j])
    BY <1>1
  <1>7. Shows(w, r, Listed(b.cur, ext))
    BY <1>2, <1>4, <1>5, <1>6 DEF Shows
  <1> QED
    BY <1>5, <1>7 DEF View

\* The window after a step down shows the directory.
LEMMA SlideShows ==
  ASSUME NEW b, b.cur \in DOMAIN Dirs, NEW ext, View(b.win, b.sel, b, ext), Len(b.win) = M,
         NEW x \in Listed(b.cur, ext), Less(b.win[M], x),
         \A e \in Listed(b.cur, ext) : Less(b.win[M], e) => e = x \/ Less(x, e)
  PROVE  View(Append(Tail(b.win), x), b.sel, b, ext)
  <1> DEFINE w == b.win
             S == Range(Dirs[b.cur])
             L == Listed(b.cur, ext)
             v == Append(Tail(w), x)
  <1>1. /\ w \in Seq(S) /\ Len(w) = M /\ b.sel \in 1..M /\ M \in Nat /\ M >= 2
        /\ \A i \in 1..M : w[i] \in L /\ w[i] \in S
        /\ \A i, j \in 1..M : i < j => Less(w[i], w[j])
        /\ \A e \in L \ Range(w) : Less(e, w[1]) \/ Less(w[M], e)
        /\ DOMAIN w = 1..M
    BY ViewIs
  <1>2. L \subseteq S
    BY Reading
  <1>3. /\ \A e \in S : ~Less(e, e)
        /\ \A e, f \in S : e = f \/ Less(e, f) \/ Less(f, e)
        /\ \A e, f, g \in S : Less(e, f) /\ Less(f, g) => Less(e, g)
    BY Ordered
  <1>4. x \in L /\ x \in S /\ Less(w[M], x) /\ \A e \in L : Less(w[M], e) => e = x \/ Less(x, e)
    BY <1>2
  <1> HIDE DEF w, S, L
  <1>5. /\ v \in Seq(S) /\ Len(v) = M /\ v[M] = x
        /\ \A i \in 1..(M - 1) : v[i] = w[i + 1]
    BY <1>1, <1>4, Slide
  <1> HIDE DEF v
  <1>6. \A i \in 1..M : i = M \/ (i \in 1..(M - 1) /\ i + 1 \in 1..M)
    BY <1>1
  <1>7. \A i \in 1..M : v[i] \in L
    BY <1>1, <1>4, <1>5, <1>6
  <1>8. \A i \in 1..M : w[i] = w[M] \/ Less(w[i], w[M])
    BY <1>1
  <1>9. \A i, j \in 1..M : i < j => Less(v[i], v[j])
    <2> TAKE i, j \in 1..M
    <2> HAVE i < j
    <2>1. i \in 1..(M - 1) /\ i + 1 \in 1..M /\ v[i] = w[i + 1]
      BY <1>1, <1>5
    <2>2. CASE j = M
      <3>1. w[i + 1] = w[M] \/ Less(w[i + 1], w[M])
        BY <1>8, <2>1
      <3>2. w[M] \in S /\ w[i + 1] \in S
        BY <1>1, <2>1
      <3>3. Less(w[i + 1], x)
        BY <1>3, <1>4, <3>1, <3>2
      <3> QED
        BY <1>5, <2>1, <2>2, <3>3
    <2>3. CASE j \in 1..(M - 1)
      <3>1. v[j] = w[j + 1] /\ j + 1 \in 1..M /\ i + 1 < j + 1
        BY <1>1, <1>5, <2>3
      <3> QED
        BY <1>1, <2>1, <3>1
    <2> QED
      BY <1>6, <2>2, <2>3
  <1>10. ASSUME NEW e \in L, \A i \in 1..M : e # v[i]
         PROVE  Less(e, v[1]) \/ Less(v[M], e)
    <2>1. 1 \in 1..(M - 1) /\ M \in 1..M /\ 1 \in 1..M /\ 2 \in 1..M /\ v[1] = w[2] /\ e # x
      <3>1. 1 \in 1..(M - 1) /\ M \in 1..M /\ 1 \in 1..M /\ 2 \in 1..M /\ 1 + 1 = 2
        BY <1>1
      <3> QED
        BY <1>5, <1>10, <3>1
    <2>2. Less(w[1], w[2]) /\ w[1] \in S /\ w[2] \in S /\ e \in S
      BY <1>1, <1>2, <2>1
    <2>3. CASE e \in Range(w)
      <3>1. PICK i \in 1..M : e = w[i]
        BY <1>1, <2>3 DEF Range
      <3>2. i = 1
        <4>1. i # 1 => i - 1 \in 1..(M - 1) /\ i - 1 \in 1..M /\ (i - 1) + 1 = i
          BY <1>1
        <4> QED
          BY <1>5, <1>10, <3>1, <4>1
      <3> QED
        BY <2>1, <2>2, <3>1, <3>2
    <2>4. CASE e \notin Range(w)
      <3>1. Less(e, w[1]) \/ Less(w[M], e)
        BY <1>1, <2>4
      <3>2. CASE Less(e, w[1])
        BY <1>3, <2>1, <2>2, <3>2
      <3>3. CASE Less(w[M], e)
        BY <1>4, <1>5, <2>1, <3>3
      <3> QED
        BY <3>1, <3>2, <3>3
    <2> QED
      BY <2>3, <2>4
  <1>11. View(v, b.sel, b, ext)
    <2>1. Len(v) \in 1..M /\ b.sel \in 1..Len(v) /\ Len(v) = M
      BY <1>1, <1>5
    <2>2. v \in Seq(Range(Dirs[b.cur])) /\ L = Listed(b.cur, ext)
      BY <1>5 DEF S, L
    <2> QED
      BY <1>7, <1>9, <1>10, <2>1, <2>2, ViewOf
  <1> QED
    BY <1>11 DEF v, w

\* The window after a step up: x on top, and the last entry out if there is no room.
Raised(w, x) == SubSeq(<<x>> \o w, 1, Min({Len(w) + 1, MAXDIRENTRIES}))
Room(w) == IF Len(w) < M THEN Len(w) + 1 ELSE M

LEMMA Raise ==
  ASSUME NEW S, NEW w \in Seq(S), Len(w) \in 1..M, NEW x \in S
  PROVE  /\ Raised(w, x) \in Seq(S) /\ Len(Raised(w, x)) = Room(w)
         /\ Room(w) \in 2..M /\ Room(w) <= Len(w) + 1
         /\ Raised(w, x)[1] = x
         /\ \A i \in 2..Room(w) : Raised(w, x)[i] = w[i - 1]
         /\ \A e \in S : [Raised(w, x) EXCEPT ![1] = e] = Raised(w, e)
  <1> DEFINE l == Room(w)
  <1>1. M \in Nat /\ M >= 2 /\ Len(w) \in Nat /\ Len(w) >= 1
    BY DirectoryAssumption DEF M
  <1>2. Min({Len(w) + 1, MAXDIRENTRIES}) = l
    BY <1>1, MinIs DEF Room, M
  <1>3. l \in 2..M /\ l <= Len(w) + 1 /\ l \in Nat
    BY <1>1 DEF Room
  <1> HIDE DEF l
  <1>4. ASSUME NEW e \in S
        PROVE  /\ Raised(w, e) \in Seq(S) /\ Len(Raised(w, e)) = l /\ Raised(w, e)[1] = e
               /\ \A i \in 2..l : Raised(w, e)[i] = w[i - 1]
    <2> DEFINE c == <<e>> \o w
               t == <<e>>
    <2>1. t \in Seq(S) /\ Len(t) = 1 /\ t[1] = e
      OBVIOUS
    <2>2. /\ c \in Seq(S) /\ Len(c) = Len(w) + 1
          /\ \A i \in 1..(Len(w) + 1) : c[i] = IF i <= 1 THEN t[i] ELSE w[i - 1]
      <3> HIDE DEF t
      <3>1. /\ t \o w \in Seq(S) /\ Len(t \o w) = Len(t) + Len(w)
            /\ \A i \in 1..(Len(t) + Len(w)) : (t \o w)[i] = IF i <= Len(t) THEN t[i] ELSE w[i - Len(t)]
        BY <2>1, ConcatProperties
      <3>2. Len(t) + Len(w) = Len(w) + 1
        BY <1>1, <2>1
      <3> QED
        BY <2>1, <3>1, <3>2 DEF t
    <2> HIDE DEF c, t
    <2>3. \A i \in 1..l : i \in 1..(Len(w) + 1) /\ c[i] \in S
      <3>1. \A i \in 1..l : i \in 1..(Len(w) + 1)
        BY <1>1, <1>3
      <3>2. \A i \in 1..Len(c) : c[i] \in S
        BY <2>2
      <3> QED
        BY <2>2, <3>1, <3>2
    <2>4. /\ SubSeq(c, 1, l) \in Seq(S) /\ Len(SubSeq(c, 1, l)) = l
          /\ \A i \in 1..l : SubSeq(c, 1, l)[i] = c[i]
      <3>1. /\ SubSeq(c, 1, l) \in Seq(S) /\ Len(SubSeq(c, 1, l)) = (IF 1 <= l THEN l - 1 + 1 ELSE 0)
            /\ \A i \in 1..(l - 1 + 1) : SubSeq(c, 1, l)[i] = c[1 + i - 1]
        BY <1>3, <2>3, SubSeqProperties
      <3>2. 1 <= l /\ l - 1 + 1 = l /\ \A i \in 1..l : 1 + i - 1 = i
        BY <1>3
      <3> QED
        BY <3>1, <3>2
    <2>5. Raised(w, e) = SubSeq(c, 1, l)
      BY <1>2 DEF Raised, c
    <2>6. 1 \in 1..l /\ \A i \in 2..l : i \in 1..l /\ ~(i <= 1)
      BY <1>3
    <2>7. c[1] = e
      BY <2>1, <2>2, <2>3, <2>6
    <2> QED
      BY <2>2, <2>3, <2>4, <2>5, <2>6, <2>7
  <1>5. ASSUME NEW e \in S
        PROVE  [Raised(w, x) EXCEPT ![1] = e] = Raised(w, e)
    <2> DEFINE u == Raised(w, x)
               v == [u EXCEPT ![1] = e]
    <2>1. u \in Seq(S) /\ Len(u) = l /\ 1 \in 1..l
      BY <1>3, <1>4
    <2> HIDE DEF u
    <2>2. v \in Seq(S) /\ Len(v) = l /\ \A j \in 1..l : v[j] = IF j = 1 THEN e ELSE u[j]
      BY <2>1, ExceptSeq
    <2> HIDE DEF v
    <2>3. \A j \in 1..l : v[j] = Raised(w, e)[j]
      <3> TAKE j \in 1..l
      <3>1. CASE j = 1
        BY <1>4, <2>2, <3>1
      <3>2. CASE j \in 2..l
        <4>1. j # 1
          BY <1>3, <3>2
        <4>2. v[j] = u[j]
          BY <2>2, <4>1
        <4>3. u[j] = w[j - 1] /\ Raised(w, e)[j] = w[j - 1]
          BY <1>4, <3>2 DEF u
        <4> QED
          BY <4>2, <4>3
      <3>3. j = 1 \/ j \in 2..l
        BY <1>3
      <3> QED
        BY <3>1, <3>2, <3>3
    <2>4. Raised(w, e) \in Seq(S) /\ Len(Raised(w, e)) = l
      BY <1>4
    <2>5. v = Raised(w, e)
      BY <2>2, <2>3, <2>4, SeqEqual
    <2> QED
      BY <2>5 DEF v, u
  <1> QED
    BY <1>3, <1>4, <1>5 DEF l

\* SCAN_PREV at the first row: the window moves up by one, if it can.
LEMMA PrevLoop ==
  ASSUME NEW b, b.cur \in DOMAIN Dirs, NEW ext, View(b.win, b.sel, b, ext)
  PROVE  LET r == Loop("PREV", 0, b, ext, Dirs[b.cur]) IN
         \/ r.w = b.win /\ \A e \in Listed(b.cur, ext) : ~Less(e, b.win[1])
         \/ \E x \in Listed(b.cur, ext) :
               /\ r.w = Raised(b.win, x) /\ Less(x, b.win[1])
               /\ \A e \in Listed(b.cur, ext) : Less(e, b.win[1]) => e = x \/ Less(e, x)
  <1> DEFINE m == Len(Dirs[b.cur])
             S == Range(Dirs[b.cur])
             mode == "PREV"
             first == b.win[1]
             Up1(x) == Raised(b.win, x)
             Q(R, r) == \/ ~r.new /\ r.w = b.win /\ \A e \in R : ~Less(e, first)
                        \/ /\ r.new
                           /\ \E x \in R : /\ r.w = Up1(x) /\ Less(x, first)
                                           /\ \A e \in R : Less(e, first) => e = x \/ Less(e, x)
             J == {x \in (0..m) \X Tables(b) : Q(Read(b, ext, x[1]), x[2])}
  <1>1. m \in Nat /\ M \in Nat /\ M >= 2 /\ b.win \in Seq(S) /\ Len(b.win) \in 1..M /\ first \in S
    <2>1. 1 \in 1..Len(b.win)
      BY ViewIs
    <2> QED
      BY <2>1, Reading, ViewIs
  <1>2. /\ \A e \in S : ~Less(e, e)
        /\ \A e, f \in S : e = f \/ Less(e, f) \/ Less(f, e)
        /\ \A e, f, g \in S : Less(e, f) /\ Less(f, g) => Less(e, g)
    BY Ordered
  <1>3. ASSUME NEW x \in S
        PROVE  /\ Up1(x) \in Seq(S) /\ Up1(x)[1] = x /\ Up1(x)[2] = first
               /\ \A e \in S : [Up1(x) EXCEPT ![1] = e] = Up1(e)
    <2> DEFINE w == b.win
    <2> HIDE DEF S, w
    <2>1. w \in Seq(S) /\ Len(w) \in 1..M
      BY <1>1 DEF w
    <2>2. /\ Raised(w, x) \in Seq(S) /\ Room(w) \in 2..M /\ Raised(w, x)[1] = x
          /\ \A i \in 2..Room(w) : Raised(w, x)[i] = w[i - 1]
          /\ \A e \in S : [Raised(w, x) EXCEPT ![1] = e] = Raised(w, e)
      BY <2>1, Raise
    <2>3. 2 \in 2..Room(w) /\ 2 - 1 = 1
      BY <1>1, <2>2
    <2>4. Raised(w, x)[2] = w[1]
      BY <2>2, <2>3
    <2> QED
      BY <2>2, <2>4 DEF w
  <1>4. <<0, Begin(mode, b)>> \in J
    <2>1. Begin(mode, b) = [w |-> b.win, new |-> FALSE]
      BY DEF Begin, InPlace
    <2>2. Read(b, ext, 0) = {}
      BY Reading
    <2>3. Begin(mode, b) \in Tables(b) /\ 0 \in 0..m
      <3> HIDE DEF S
      <3>1. [w |-> b.win, new |-> FALSE] \in [w : Seq(S), new : BOOLEAN]
        BY <1>1
      <3>2. Tables(b) = [w : Seq(S), new : BOOLEAN]
        BY DEF Tables, S
      <3> HIDE DEF mode, m
      <3> QED
        BY <1>1, <2>1, <3>1, <3>2
    <2>4. Begin(mode, b).w = b.win /\ Begin(mode, b).new = FALSE
      BY <2>1
    <2>5. Q(Read(b, ext, 0), Begin(mode, b))
      BY <2>2, <2>4
    <2> HIDE DEF Q, m, mode
    <2> QED
      BY <2>3, <2>5
  <1>5. ASSUME NEW k \in 0..(m - 1), NEW r, <<k, r>> \in J
        PROVE  <<k + 1, Turn(mode, 0, b, ext, k + 1, r)>> \in J
    <2> DEFINE e == Dirs[b.cur][k + 1]
               v == Turn(mode, 0, b, ext, k + 1, r)
               R == Read(b, ext, k)
               R1 == Read(b, ext, k + 1)
    <2>0. r \in Tables(b) /\ Q(R, r)
      <3> HIDE DEF Q, m
      <3> QED
        BY <1>5
    <2>1. k + 1 \in 0..m
      BY <1>1
    <2>2. /\ e \in S /\ R \subseteq S
          /\ Passes(e, ext) => R1 = R \cup {e}
          /\ ~Passes(e, ext) => R1 = R
      BY Reading
    <2> SUFFICES v \in Tables(b) /\ Q(R1, v)
      <3> HIDE DEF Q, v, m, mode
      <3> QED
        BY <2>1 DEF v
    <2>4. CASE ~Passes(e, ext)
      <3>1. v = r /\ R1 = R
        BY <2>2, <2>4 DEF Turn
      <3> HIDE DEF Q, v, R, R1
      <3> QED
        BY <2>0, <3>1
    <2>5. CASE Passes(e, ext)
      <3>1. v = StepPrev(r, e) /\ R1 = R \cup {e}
        BY <2>2, <2>5 DEF Turn, Step
      <3> HIDE DEF v, e, R, R1, S, Up1
      <3>2. CASE ~r.new
        <4>1. r.w = b.win /\ (\A f \in R : ~Less(f, first)) /\ r.w[1] = first
          BY <2>0, <3>2
        <4>2. CASE Less(e, first)
          <5>1. v = [w |-> Up1(e), new |-> TRUE]
            BY <3>1, <3>2, <4>1, <4>2 DEF StepPrev, Up1, Raised
          <5>2. v \in Tables(b) /\ v.w = Up1(e) /\ v.new = TRUE
            BY <1>3, <2>2, <5>1 DEF Tables, S
          <5>3. e \in R1 /\ \A f \in R1 : Less(f, first) => f = e \/ Less(f, e)
            BY <3>1, <4>1
          <5> QED
            BY <4>2, <5>2, <5>3
        <4>3. CASE ~Less(e, first)
          <5>1. v = r
            BY <3>1, <3>2, <4>1, <4>3 DEF StepPrev
          <5> QED
            BY <2>0, <3>1, <3>2, <4>1, <4>3, <5>1
        <4> QED
          BY <4>2, <4>3
      <3>3. CASE r.new
        <4>1. PICK x \in R : /\ r.w = Up1(x) /\ Less(x, first)
                             /\ \A f \in R : Less(f, first) => f = x \/ Less(f, x)
          BY <2>0, <3>3
        <4>2. x \in S /\ r.w[1] = x /\ r.w[2] = first
          BY <1>3, <2>2, <4>1
        <4>3. CASE Less(x, e) /\ Less(e, first)
          <5>1. v = [r EXCEPT !.w = [r.w EXCEPT ![1] = e]]
            BY <3>1, <3>3, <4>2, <4>3 DEF StepPrev
          <5>2. [r.w EXCEPT ![1] = e] = Up1(e) /\ Up1(e) \in Seq(S)
            BY <1>3, <2>2, <4>1, <4>2
          <5>3. v \in Tables(b) /\ v.w = Up1(e) /\ v.new
            BY <2>0, <3>3, <5>1, <5>2 DEF Tables, S
          <5>4. \A f \in R1 : Less(f, first) => f = e \/ Less(f, e)
            BY <1>2, <2>2, <3>1, <4>1, <4>2, <4>3
          <5> QED
            BY <3>1, <4>3, <5>3, <5>4
        <4>4. CASE ~(Less(x, e) /\ Less(e, first))
          <5>1. v = r
            BY <3>1, <3>3, <4>2, <4>4 DEF StepPrev
          <5>2. Less(e, first) => e = x \/ Less(e, x)
            BY <1>2, <2>2, <4>2, <4>4
          <5>3. \A f \in R1 : Less(f, first) => f = x \/ Less(f, x)
            BY <3>1, <4>1, <5>2
          <5> QED
            BY <2>0, <3>1, <3>3, <4>1, <5>1, <5>3
        <4> QED
          BY <4>3, <4>4
      <3> QED
        BY <3>2, <3>3
    <2> QED
      BY <2>4, <2>5
  <1>6. <<m, Loop(mode, 0, b, ext, Dirs[b.cur])>> \in J
    <2>1. m = Len(Dirs[b.cur])
      OBVIOUS
    <2> HIDE DEF J, m
    <2> QED
      BY <1>1, <1>4, <1>5, <2>1, LoopKeeps
  <1>7. Read(b, ext, m) = Listed(b.cur, ext)
    BY Reading
  <1>8. Q(Read(b, ext, m), Loop(mode, 0, b, ext, Dirs[b.cur]))
    <2> HIDE DEF Q, m
    <2> QED
      BY <1>6
  <1> QED
    BY <1>7, <1>8

\* The window after a step up shows the directory.
LEMMA RaiseShows ==
  ASSUME NEW b, b.cur \in DOMAIN Dirs, NEW ext, View(b.win, b.sel, b, ext),
         NEW x \in Listed(b.cur, ext), Less(x, b.win[1]),
         \A e \in Listed(b.cur, ext) : Less(e, b.win[1]) => e = x \/ Less(e, x)
  PROVE  View(Raised(b.win, x), b.sel, b, ext)
  <1> DEFINE w == b.win
             S == Range(Dirs[b.cur])
             L == Listed(b.cur, ext)
             v == Raised(w, x)
             l == Len(w)
             h == Room(w)
  <1>1. /\ w \in Seq(S) /\ l \in 1..M /\ b.sel \in 1..l /\ M \in Nat /\ M >= 2
        /\ \A i \in 1..l : w[i] \in L /\ w[i] \in S
        /\ \A i, j \in 1..l : i < j => Less(w[i], w[j])
        /\ \A e \in L \ Range(w) : Less(e, w[1]) \/ (Less(w[l], e) /\ l = M)
        /\ DOMAIN w = 1..l
    BY ViewIs
  <1>2. L \subseteq S
    BY Reading
  <1>3. /\ \A e \in S : ~Less(e, e)
        /\ \A e, f \in S : e = f \/ Less(e, f) \/ Less(f, e)
        /\ \A e, f, g \in S : Less(e, f) /\ Less(f, g) => Less(e, g)
    BY Ordered
  <1>4. x \in L /\ x \in S /\ Less(x, w[1]) /\ \A e \in L : Less(e, w[1]) => e = x \/ Less(e, x)
    BY <1>2
  <1>5. h = IF l < M THEN l + 1 ELSE M
    BY DEF Room
  <1> HIDE DEF w, S, L, l, h
  <1>6. /\ v \in Seq(S) /\ Len(v) = h /\ v[1] = x /\ h \in 2..M
        /\ \A i \in 2..h : v[i] = w[i - 1]
    <2>1. w \in Seq(S) /\ Len(w) \in 1..M /\ x \in S
      BY <1>1, <1>4 DEF l
    <2>2. /\ Raised(w, x) \in Seq(S) /\ Len(Raised(w, x)) = Room(w) /\ Room(w) \in 2..M
          /\ Raised(w, x)[1] = x
          /\ \A i \in 2..Room(w) : Raised(w, x)[i] = w[i - 1]
      BY <2>1, Raise
    <2> QED
      BY <2>2 DEF h
  <1> HIDE DEF v
  <1>7. \A i \in 1..h : i = 1 \/ (i \in 2..h /\ i - 1 \in 1..l)
    BY <1>1, <1>5
  <1>8. \A i \in 1..h : v[i] \in L
    BY <1>1, <1>4, <1>6, <1>7
  <1>9. \A i \in 1..l : Less(x, w[i])
    <2> TAKE i \in 1..l
    <2>1. 1 \in 1..l /\ (i = 1 \/ 1 < i)
      BY <1>1
    <2>2. i = 1 \/ Less(w[1], w[i])
      BY <1>1, <2>1
    <2> QED
      BY <1>1, <1>3, <1>4, <2>1, <2>2
  <1>10. \A i, j \in 1..h : i < j => Less(v[i], v[j])
    <2> TAKE i, j \in 1..h
    <2> HAVE i < j
    <2>1. j \in 2..h /\ j - 1 \in 1..l /\ v[j] = w[j - 1]
      BY <1>6, <1>7
    <2>2. CASE i = 1
      BY <1>6, <1>9, <2>1, <2>2
    <2>3. CASE i \in 2..h
      <3>1. v[i] = w[i - 1] /\ i - 1 \in 1..l /\ i - 1 < j - 1
        BY <1>6, <1>7, <2>1, <2>3
      <3> QED
        BY <1>1, <2>1, <3>1
    <2> QED
      BY <1>7, <2>2, <2>3
  <1>11. ASSUME NEW e \in L, \A i \in 1..h : e # v[i]
         PROVE  Less(e, v[1]) \/ (Less(v[h], e) /\ h = M)
    <2>1. h \in 1..h /\ 1 \in 1..h /\ e # x /\ 1 \in 1..l
      <3>1. h \in 1..h /\ 1 \in 1..h /\ 1 \in 1..l
        BY <1>1, <1>6
      <3> QED
        BY <1>6, <1>11, <3>1
    <2>2. l = M => h = M /\ M \in 2..h /\ M - 1 \in 1..l /\ M \in 1..l /\ M - 1 < M
      BY <1>1, <1>5
    <2>3. l = M => v[h] = w[M - 1] /\ Less(w[M - 1], w[M]) /\ w[M - 1] \in S /\ w[M] \in S
      BY <1>1, <1>6, <2>2
    <2>4. CASE e \in Range(w)
      <3>1. PICK i \in 1..l : e = w[i]
        BY <1>1, <2>4 DEF Range
      <3>2. ~(i + 1 \in 2..h)
        <4>1. i + 1 \in 2..h => i + 1 \in 1..h /\ (i + 1) - 1 = i
          BY <1>1, <1>6
        <4> QED
          BY <1>6, <1>11, <3>1, <4>1
      <3>3. i = l /\ l = M
        BY <1>1, <1>5, <3>2
      <3> QED
        BY <2>2, <2>3, <3>1, <3>3
    <2>5. CASE e \notin Range(w)
      <3>1. CASE Less(e, w[1])
        BY <1>4, <1>6, <2>1, <3>1
      <3>2. CASE Less(w[l], e) /\ l = M
        BY <1>2, <1>3, <2>2, <2>3, <3>2
      <3> QED
        BY <1>1, <2>5, <3>1, <3>2
    <2> QED
      BY <2>4, <2>5
  <1>12. View(v, b.sel, b, ext)
    <2>1. Len(v) \in 1..M /\ b.sel \in 1..Len(v) /\ Len(v) = h
      BY <1>1, <1>5, <1>6
    <2>2. v \in Seq(Range(Dirs[b.cur])) /\ L = Listed(b.cur, ext)
      BY <1>6 DEF S, L
    <2> QED
      BY <1>8, <1>10, <1>11, <2>1, <2>2, ViewOf
  <1> QED
    BY <1>12 DEF v, w

\* The window after SCAN_NEXT_PAGE: k new entries below, as many out on top.
LEMMA PageDown ==
  ASSUME NEW b, b.cur \in DOMAIN Dirs, NEW ext, View(b.win, b.sel, b, ext), Len(b.win) = M,
         NEW p, Foremost(p, {e \in Listed(b.cur, ext) : Less(b.win[M], e)}, FALSE)
  PROVE  LET v == SubSeq(b.win, Len(p) + 1, Len(b.win)) \o p IN
         /\ View(v, b.sel, b, ext) /\ Len(v) = M
         /\ Len(p) \in 0..M /\ p \in Seq(Range(Dirs[b.cur]))
         /\ v[M] = IF Len(p) = 0 THEN b.win[M] ELSE p[Len(p)]
  <1> DEFINE w == b.win
             S == Range(Dirs[b.cur])
             L == Listed(b.cur, ext)
             P == {e \in L : Less(w[M], e)}
             k == Len(p)
             u == SubSeq(w, k + 1, M)
             v == u \o p
  <1>1. /\ w \in Seq(S) /\ Len(w) = M /\ b.sel \in 1..M /\ M \in Nat /\ M >= 2
        /\ \A i \in 1..M : w[i] \in L /\ w[i] \in S
        /\ \A i, j \in 1..M : i < j => Less(w[i], w[j])
        /\ \A e \in L \ Range(w) : Less(e, w[1]) \/ Less(w[M], e)
        /\ DOMAIN w = 1..M
    BY ViewIs
  <1>2. L \subseteq S /\ P \subseteq L
    BY Reading
  <1>3. /\ \A e \in S : ~Less(e, e)
        /\ \A e, f \in S : e = f \/ Less(e, f) \/ Less(f, e)
        /\ \A e, f, g \in S : Less(e, f) /\ Less(f, g) => Less(e, g)
    BY Ordered
  <1>4. \A e : e \in P <=> e \in L /\ Less(w[M], e)
    OBVIOUS
  <1> HIDE DEF w, S, L, P
  <1>5. /\ p \in Seq(P) /\ p \in Seq(S) /\ k \in 0..M /\ DOMAIN p = 1..k
        /\ \A i \in 1..k : p[i] \in P
        /\ \A i, j \in 1..k : i < j => Less(p[i], p[j])
        /\ \A f \in P \ Range(p) : k = M /\ Less(p[M], f)
    <2>1. Foremost(p, P, FALSE)
      BY DEF P, L, w
    <2>2. /\ p \in Seq(P) /\ Sorted(p, FALSE) /\ k <= M
          /\ \A f \in P \ Range(p) : k = M /\ Before(p[M], f, FALSE)
      BY <2>1 DEF Foremost
    <2>3. P \subseteq S
      BY <1>2
    <2>4. p \in Seq(S)
      BY <2>2, <2>3
    <2>5. k \in Nat /\ DOMAIN p = 1..k /\ \A i \in 1..k : p[i] \in P
      BY <2>2
    <2>6. \A i, j \in 1..k : i < j => Less(p[i], p[j])
      BY <2>2, <2>5 DEF Sorted, Before
    <2>7. \A f \in P \ Range(p) : k = M /\ Less(p[M], f)
      BY <2>2 DEF Before
    <2>8. k \in 0..M
      <3>1. k <= M /\ k \in Nat /\ M \in Nat
        BY <1>1, <2>2, <2>5
      <3> HIDE DEF k
      <3> QED
        BY <3>1
    <2> HIDE DEF k
    <2> QED
      BY <2>2, <2>4, <2>5, <2>6, <2>7, <2>8
  <1> HIDE DEF k
  <1>6. /\ v \in Seq(S) /\ Len(v) = M
        /\ \A i \in 1..M : v[i] = IF i <= M - k THEN w[k + i] ELSE p[i - (M - k)]
    <2>1. \A i \in (k + 1)..M : w[i] \in S
      BY <1>1, <1>5
    <2>2. k + 1 \in Int /\ M \in Int /\ M - (k + 1) + 1 = M - k /\ (k + 1 <= M \/ M - k = 0)
      BY <1>1, <1>5
    <2>3. /\ u \in Seq(S) /\ Len(u) = (IF k + 1 <= M THEN M - (k + 1) + 1 ELSE 0)
          /\ \A i \in 1..(M - (k + 1) + 1) : u[i] = w[(k + 1) + i - 1]
      BY <2>1, <2>2, SubSeqProperties
    <2> HIDE DEF u
    <2>4. Len(u) = M - k /\ \A i \in 1..(M - k) : u[i] = w[k + i]
      <3>1. \A i \in 1..(M - k) : (k + 1) + i - 1 = k + i
        BY <1>1, <1>5
      <3> QED
        BY <2>2, <2>3, <3>1
    <2>5. /\ v \in Seq(S) /\ Len(v) = Len(u) + Len(p)
          /\ \A i \in 1..(Len(u) + Len(p)) : v[i] = IF i <= Len(u) THEN u[i] ELSE p[i - Len(u)]
      BY <1>5, <2>3, ConcatProperties, ZenonT(30)
    <2> HIDE DEF v
    <2>6. Len(u) + Len(p) = M
      <3>1. k \in 0..M /\ M \in Nat /\ Len(p) = k /\ Len(u) = M - k
        BY <1>1, <1>5, <2>4 DEF k
      <3> QED
        BY <3>1
    <2>7. \A i \in 1..M : i <= M - k => i \in 1..(M - k)
      BY <1>1, <1>5
    <2> QED
      BY <2>4, <2>5, <2>6, <2>7
  <1> HIDE DEF v
  <1>7. \A i \in 1..M : /\ i <= M - k => k + i \in 1..M /\ v[i] = w[k + i]
                        /\ ~(i <= M - k) => i - (M - k) \in 1..k /\ v[i] = p[i - (M - k)]
    BY <1>1, <1>5, <1>6
  <1>8. \A i \in 1..M : v[i] \in L
    BY <1>1, <1>2, <1>5, <1>7
  <1>9. \A i \in 1..M, f \in P : Less(w[i], f)
    <2> TAKE i \in 1..M, f \in P
    <2>1. M \in 1..M /\ (i = M \/ i < M)
      BY <1>1
    <2>2. f \in S /\ w[M] \in S /\ w[i] \in S /\ Less(w[M], f)
      BY <1>1, <1>2, <1>4, <2>1
    <2>3. i = M \/ Less(w[i], w[M])
      BY <1>1, <2>1
    <2> QED
      BY <1>3, <2>2, <2>3
  <1>10. \A i, j \in 1..M : i < j => Less(v[i], v[j])
    <2> TAKE i, j \in 1..M
    <2> HAVE i < j
    <2>1. CASE j <= M - k
      <3>1. i <= M - k /\ k + i < k + j
        BY <1>1, <1>5, <2>1
      <3> QED
        BY <1>1, <1>7, <2>1, <3>1
    <2>2. CASE i <= M - k /\ ~(j <= M - k)
      BY <1>5, <1>7, <1>9, <2>2
    <2>3. CASE ~(i <= M - k)
      <3>1. ~(j <= M - k) /\ i - (M - k) < j - (M - k)
        BY <1>1, <1>5, <2>3
      <3> QED
        BY <1>5, <1>7, <2>3, <3>1
    <2> QED
      BY <2>1, <2>2, <2>3
  <1>11. ASSUME NEW e \in L, \A i \in 1..M : e # v[i]
         PROVE  Less(e, v[1]) \/ Less(v[M], e)
    <2>1. 1 \in 1..M /\ M \in 1..M /\ e \in S
      BY <1>1, <1>2
    <2>2. CASE e \in P
      <3>1. e \notin Range(p)
        <4> SUFFICES ASSUME NEW i \in 1..k, e = p[i] PROVE FALSE
          BY <1>5 DEF Range
        <4>1. (M - k) + i \in 1..M /\ ~((M - k) + i <= M - k) /\ ((M - k) + i) - (M - k) = i
          BY <1>1, <1>5
        <4> QED
          BY <1>7, <1>11, <4>1
      <3>2. k = M /\ Less(p[M], e)
        BY <1>5, <2>2, <3>1
      <3>3. ~(M <= M - k) /\ M - (M - k) = M
        BY <1>1, <3>2
      <3> QED
        BY <1>7, <2>1, <3>2, <3>3
    <2>3. CASE e \in Range(w)
      <3>1. PICK i \in 1..M : e = w[i]
        BY <1>1, <2>3 DEF Range
      <3>2. i <= k
        <4>1. ~(i <= k) => i - k \in 1..M /\ i - k <= M - k /\ k + (i - k) = i
          BY <1>1, <1>5
        <4> QED
          BY <1>7, <1>11, <3>1, <4>1
      <3>3. CASE 1 <= M - k
        <4>1. v[1] = w[k + 1] /\ k + 1 \in 1..M /\ i < k + 1
          BY <1>5, <1>7, <2>1, <3>2, <3>3
        <4> QED
          BY <1>1, <3>1, <4>1
      <3>4. CASE ~(1 <= M - k)
        BY <1>5, <1>7, <1>9, <2>1, <3>1, <3>4
      <3> QED
        BY <3>3, <3>4
    <2>4. CASE e \notin P /\ e \notin Range(w)
      <3>1. Less(e, w[1])
        BY <1>1, <1>4, <2>4
      <3>2. CASE 1 <= M - k
        <4>1. v[1] = w[k + 1] /\ k + 1 \in 1..M /\ (k + 1 = 1 \/ 1 < k + 1)
          BY <1>5, <1>7, <2>1, <3>2
        <4>2. v[1] = w[1] \/ Less(w[1], v[1])
          BY <1>1, <2>1, <4>1
        <4> QED
          BY <1>1, <1>3, <2>1, <3>1, <4>1, <4>2
      <3>3. CASE ~(1 <= M - k)
        <4>1. Less(w[1], v[1])
          BY <1>5, <1>7, <1>9, <2>1, <3>3
        <4>2. w[1] \in S /\ v[1] \in S
          BY <1>1, <1>2, <1>8, <2>1
        <4> QED
          BY <1>3, <2>1, <3>1, <4>1, <4>2
      <3> QED
        BY <3>2, <3>3
    <2> QED
      BY <2>2, <2>3, <2>4
  <1>12. View(v, b.sel, b, ext)
    <2>1. Len(v) \in 1..M /\ b.sel \in 1..Len(v) /\ Len(v) = M
      BY <1>1, <1>6
    <2>2. v \in Seq(Range(Dirs[b.cur])) /\ L = Listed(b.cur, ext)
      BY <1>6 DEF S, L
    <2> QED
      BY <1>8, <1>10, <1>11, <2>1, <2>2, ViewOf
  <1>13. v[M] = IF k = 0 THEN w[M] ELSE p[k]
    <2>1. M \in 1..M
      BY <1>1
    <2>2. CASE k = 0
      <3>1. M <= M - k /\ k + M = M
        BY <1>1, <2>2
      <3> QED
        BY <1>7, <2>1, <2>2, <3>1
    <2>3. CASE k # 0
      <3>1. ~(M <= M - k) /\ M - (M - k) = k
        BY <1>1, <1>5, <2>3
      <3> QED
        BY <1>7, <2>1, <2>3, <3>1
    <2> QED
      BY <2>2, <2>3
  <1> QED
    BY <1>1, <1>5, <1>6, <1>12, <1>13 DEF v, u, w, k, S

\* The window after SCAN_PREV_PAGE: k new entries above, what has no room out below.
LEMMA PageUp ==
  ASSUME NEW b, b.cur \in DOMAIN Dirs, NEW ext, View(b.win, b.sel, b, ext),
         NEW p, Foremost(p, {e \in Listed(b.cur, ext) : Less(e, b.win[1])}, TRUE)
  PROVE  LET c == Reverse(p) \o b.win
             v == SubSeq(c, 1, Min({Len(c), MAXDIRENTRIES})) IN
         /\ View(v, b.sel, b, ext)
         /\ Len(p) \in 0..M /\ p \in Seq(Range(Dirs[b.cur]))
         /\ v[1] = IF Len(p) = 0 THEN b.win[1] ELSE p[Len(p)]
  <1> DEFINE w == b.win
             S == Range(Dirs[b.cur])
             L == Listed(b.cur, ext)
             P == {e \in L : Less(e, w[1])}
             k == Len(p)
             l == Len(w)
             c == Reverse(p) \o w
             h == IF k + l < M THEN k + l ELSE M
             v == SubSeq(c, 1, Min({Len(c), MAXDIRENTRIES}))
  <1>1. /\ w \in Seq(S) /\ l \in 1..M /\ b.sel \in 1..l /\ M \in Nat /\ M >= 2
        /\ \A i \in 1..l : w[i] \in L /\ w[i] \in S
        /\ \A i, j \in 1..l : i < j => Less(w[i], w[j])
        /\ \A e \in L \ Range(w) : Less(e, w[1]) \/ (Less(w[l], e) /\ l = M)
        /\ DOMAIN w = 1..l
    BY ViewIs
  <1>2. L \subseteq S /\ P \subseteq L
    BY Reading
  <1>3. /\ \A e \in S : ~Less(e, e)
        /\ \A e, f \in S : e = f \/ Less(e, f) \/ Less(f, e)
        /\ \A e, f, g \in S : Less(e, f) /\ Less(f, g) => Less(e, g)
    BY Ordered
  <1>4. \A e : e \in P <=> e \in L /\ Less(e, w[1])
    OBVIOUS
  <1> HIDE DEF w, S, L, P
  <1>5. /\ p \in Seq(P) /\ p \in Seq(S) /\ k \in 0..M /\ DOMAIN p = 1..k
        /\ \A i \in 1..k : p[i] \in P
        /\ \A i, j \in 1..k : i < j => Less(p[j], p[i])
        /\ \A f \in P \ Range(p) : k = M /\ Less(f, p[M])
    <2>1. Foremost(p, P, TRUE)
      BY DEF P, L, w
    <2>2. /\ p \in Seq(P) /\ Sorted(p, TRUE) /\ k <= M
          /\ \A f \in P \ Range(p) : k = M /\ Before(p[M], f, TRUE)
      BY <2>1 DEF Foremost
    <2>3. P \subseteq S
      BY <1>2
    <2>4. p \in Seq(S)
      BY <2>2, <2>3
    <2>5. k \in Nat /\ DOMAIN p = 1..k /\ \A i \in 1..k : p[i] \in P
      BY <2>2
    <2>6. \A i, j \in 1..k : i < j => Less(p[j], p[i])
      BY <2>2, <2>5 DEF Sorted, Before
    <2>7. \A f \in P \ Range(p) : k = M /\ Less(f, p[M])
      BY <2>2 DEF Before
    <2>8. k \in 0..M
      <3>1. k <= M /\ k \in Nat /\ M \in Nat
        BY <1>1, <2>2, <2>5
      <3> HIDE DEF k
      <3> QED
        BY <3>1
    <2> HIDE DEF k
    <2> QED
      BY <2>2, <2>4, <2>5, <2>6, <2>7, <2>8
  <1>6. h \in 1..M /\ h <= k + l /\ k <= h /\ l <= h /\ h \in Nat
    <2> HIDE DEF k, l
    <2> QED
      BY <1>1, <1>5
  <1>7. /\ v \in Seq(S) /\ Len(v) = h
        /\ \A i \in 1..h : v[i] = IF i <= k THEN p[k - i + 1] ELSE w[i - k]
    <2> DEFINE q1 == Reverse(p)
    <2>1. q1 = [i \in 1..k |-> p[k - i + 1]]
      BY DEF Reverse
    <2> HIDE DEF q1, k, l, v
    <2>2. \A i \in 1..k : k - i + 1 \in 1..k /\ p[k - i + 1] \in S
      BY <1>2, <1>5
    <2>3. q1 \in Seq(S) /\ Len(q1) = k /\ \A i \in 1..k : q1[i] = p[k - i + 1]
      <3>1. q1 \in [1..k -> S] /\ k \in Nat
        BY <1>5, <2>1, <2>2
      <3> QED
        BY <2>1, <3>1
    <2>4. /\ q1 \o w \in Seq(S) /\ Len(q1 \o w) = Len(q1) + Len(w)
          /\ \A i \in 1..(Len(q1) + Len(w)) :
                (q1 \o w)[i] = IF i <= Len(q1) THEN q1[i] ELSE w[i - Len(q1)]
      BY <1>1, <2>3, ConcatProperties
    <2>5. /\ c \in Seq(S) /\ Len(c) = k + l
          /\ \A i \in 1..(k + l) : c[i] = IF i <= k THEN p[k - i + 1] ELSE w[i - k]
      <3>1. c = q1 \o w /\ Len(w) = l
        BY DEF q1, l
      <3>2. \A i \in 1..(k + l) : i <= k => i \in 1..k
        BY <1>5
      <3> HIDE DEF c
      <3> QED
        BY <2>3, <2>4, <3>1, <3>2
    <2> HIDE DEF c
    <2>6. Min({Len(c), MAXDIRENTRIES}) = h
      <3>1. k + l \in Int /\ M \in Int
        BY <1>1, <1>5
      <3>2. Min({k + l, M}) = IF k + l <= M THEN k + l ELSE M
        BY <3>1, MinIs
      <3>3. Min({Len(c), MAXDIRENTRIES}) = Min({k + l, M})
        BY <2>5 DEF M
      <3> QED
        BY <3>1, <3>2, <3>3
    <2> HIDE DEF h
    <2>7. \A i \in 1..h : i \in 1..(k + l) /\ c[i] \in S
      <3>1. \A i \in 1..h : i \in 1..(k + l)
        BY <1>1, <1>5, <1>6
      <3>2. \A i \in 1..Len(c) : c[i] \in S
        BY <2>5
      <3> QED
        BY <2>5, <3>1, <3>2
    <2>8. /\ SubSeq(c, 1, h) \in Seq(S) /\ Len(SubSeq(c, 1, h)) = (IF 1 <= h THEN h - 1 + 1 ELSE 0)
          /\ \A i \in 1..(h - 1 + 1) : SubSeq(c, 1, h)[i] = c[1 + i - 1]
      BY <1>6, <2>7, SubSeqProperties
    <2>9. 1 <= h /\ h - 1 + 1 = h /\ \A i \in 1..h : 1 + i - 1 = i
      BY <1>6
    <2>10. v = SubSeq(c, 1, h)
      BY <2>6 DEF v
    <2> QED
      BY <2>5, <2>7, <2>8, <2>9, <2>10
  <1> HIDE DEF v, c, k, l, h
  <1>8. \A i \in 1..h : /\ i <= k => k - i + 1 \in 1..k /\ v[i] = p[k - i + 1]
                        /\ ~(i <= k) => i - k \in 1..l /\ v[i] = w[i - k]
    BY <1>1, <1>5, <1>6, <1>7, SMTT(30)
  <1>9. \A i \in 1..h : v[i] \in L
    BY <1>1, <1>2, <1>5, <1>8
  <1>10. \A i \in 1..l, f \in P : Less(f, w[i])
    <2> TAKE i \in 1..l, f \in P
    <2>1. 1 \in 1..l /\ (i = 1 \/ 1 < i)
      BY <1>1
    <2>2. f \in S /\ w[1] \in S /\ w[i] \in S /\ Less(f, w[1])
      BY <1>1, <1>2, <1>4, <2>1
    <2>3. i = 1 \/ Less(w[1], w[i])
      BY <1>1, <2>1
    <2> QED
      BY <1>3, <2>2, <2>3
  <1>11. \A i, j \in 1..h : i < j => Less(v[i], v[j])
    <2> TAKE i, j \in 1..h
    <2> HAVE i < j
    <2>1. CASE j <= k
      <3>1. i <= k /\ k - j + 1 < k - i + 1
        BY <1>1, <1>5, <1>6, <2>1
      <3> QED
        BY <1>5, <1>8, <2>1, <3>1
    <2>2. CASE i <= k /\ ~(j <= k)
      BY <1>5, <1>8, <1>10, <2>2
    <2>3. CASE ~(i <= k)
      <3>1. ~(j <= k) /\ i - k < j - k
        BY <1>1, <1>5, <1>6, <2>3
      <3> QED
        BY <1>1, <1>8, <2>3, <3>1
    <2> QED
      BY <2>1, <2>2, <2>3
  <1>12. ASSUME NEW e \in L, \A i \in 1..h : e # v[i]
         PROVE  Less(e, v[1]) \/ (Less(v[h], e) /\ h = M)
    <2>1. 1 \in 1..h /\ h \in 1..h /\ e \in S /\ 1 \in 1..l
      BY <1>1, <1>2, <1>6
    <2>2. CASE e \in P
      <3>1. e \notin Range(p)
        <4> SUFFICES ASSUME NEW i \in 1..k, e = p[i] PROVE FALSE
          BY <1>5 DEF Range
        <4>1. k - i + 1 \in 1..h /\ k - i + 1 <= k /\ k - (k - i + 1) + 1 = i
          BY <1>5, <1>6
        <4> QED
          BY <1>8, <1>12, <4>1
      <3>2. k = M /\ Less(e, p[M])
        BY <1>5, <2>2, <3>1
      <3>3. 1 <= k /\ k - 1 + 1 = M
        BY <1>1, <3>2
      <3> QED
        BY <1>8, <2>1, <3>2, <3>3
    <2>3. ASSUME NEW i \in 1..l, h = M, h < k + i, e = w[i] \/ (i = l /\ Less(w[l], e))
          PROVE  Less(v[h], e)
      <3>1. CASE h <= k
        <4>1. v[h] \in P /\ v[h] \in S
          BY <1>2, <1>5, <1>8, <2>1, <3>1
        <4>2. Less(v[h], w[i]) /\ w[i] \in S
          BY <1>1, <1>10, <4>1
        <4> QED
          BY <1>3, <2>1, <2>3, <4>1, <4>2
      <3>2. CASE ~(h <= k)
        <4>1. v[h] = w[h - k] /\ h - k \in 1..l /\ h - k < i
          BY <1>1, <1>5, <1>6, <1>8, <2>1, <2>3, <3>2
        <4>2. Less(v[h], w[i]) /\ w[i] \in S /\ v[h] \in S
          BY <1>1, <2>3, <4>1
        <4> QED
          BY <1>3, <2>1, <2>3, <4>1, <4>2
      <3> QED
        BY <3>1, <3>2
    <2>4. CASE e \in Range(w)
      <3>1. PICK i \in 1..l : e = w[i]
        BY <1>1, <2>4 DEF Range
      <3>2. ~(k + i \in 1..h)
        <4>1. k + i \in 1..h => ~(k + i <= k) /\ (k + i) - k = i
          BY <1>1, <1>5, <1>6
        <4> QED
          BY <1>8, <1>12, <3>1, <4>1
      <3>3. h < k + i
        BY <1>1, <1>5, <1>6, <3>2
      <3>4. h = M
        BY <1>1, <1>5, <3>3 DEF h
      <3> QED
        BY <2>3, <3>1, <3>3, <3>4
    <2>5. CASE e \notin P /\ e \notin Range(w)
      <3>1. Less(w[l], e) /\ l = M
        BY <1>1, <1>4, <2>5
      <3>2. h = M
        BY <1>1, <1>6, <3>1
      <3>3. CASE h < k + l
        <4>1. l \in 1..l
          BY <1>1
        <4> QED
          BY <2>3, <3>1, <3>2, <3>3, <4>1
      <3>4. CASE ~(h < k + l)
        <4>1. k = 0 /\ ~(h <= k) /\ h - k = l
          BY <1>1, <1>5, <1>6, <3>1, <3>2, <3>4
        <4> QED
          BY <1>8, <2>1, <3>1, <3>2, <4>1
      <3> QED
        BY <3>3, <3>4
    <2> QED
      BY <2>2, <2>4, <2>5
  <1>13. View(v, b.sel, b, ext)
    <2>1. Len(v) \in 1..M /\ b.sel \in 1..Len(v) /\ Len(v) = h
      BY <1>1, <1>6, <1>7
    <2>2. v \in Seq(Range(Dirs[b.cur])) /\ L = Listed(b.cur, ext)
      BY <1>7 DEF S, L
    <2> QED
      BY <1>9, <1>11, <1>12, <2>1, <2>2, ViewOf
  <1>14. v[1] = IF k = 0 THEN w[1] ELSE p[k]
    <2>1. 1 \in 1..h
      BY <1>6
    <2>2. CASE k = 0
      <3>1. ~(1 <= k) /\ 1 - k = 1
        BY <2>2
      <3> QED
        BY <1>8, <2>1, <2>2, <3>1
    <2>3. CASE k # 0
      <3>1. 1 <= k /\ k - 1 + 1 = k
        BY <1>5, <2>3
      <3> QED
        BY <1>8, <2>1, <2>3, <3>1
    <2> QED
      BY <2>2, <2>3
  <1> QED
    BY <1>5, <1>13, <1>14 DEF v, c, w, k, S

-----------------------------------------------------------------------------
\* The scans

\* What a scan may change, and what it leaves sound.
Fields == {"cur", "prev", "win", "sel", "known", "rc"}
IsScan(b) == b = [f \in Fields |-> b[f]]
Window(b, ext) ==
    \/ b.win = <<>> /\ Listed(b.cur, ext) = {}
    \/ View(b.win, b.sel, b, ext)
Sound(b, ext) == b.known \in BOOLEAN /\ (b.known => b.cur \in Folders /\ Window(b, ext))

LEMMA FoldersExist == Folders \subseteq DOMAIN Dirs
  <1>1. \A e \in Entries : e.cluster \in DOMAIN Dirs
    BY DirectoryAssumption
  <1> QED
    BY <1>1, DirectoryAssumption DEF Folders

LEMMA Same ==
  ASSUME NEW b, NEW c, NEW ext, c.cur = b.cur, c.win = b.win, c.sel = b.sel
  PROVE  Window(c, ext) <=> Window(b, ext)
  BY DEF Window, View

LEMMA ForemostView ==
  ASSUME NEW b, b.cur \in DOMAIN Dirs, NEW ext, NEW P \in SUBSET Listed(b.cur, ext),
         NEW w, Foremost(w, P, FALSE), Len(w) >= 1,
         \A e \in Listed(b.cur, ext) \ P : Less(e, w[1])
  PROVE  View(w, 1, b, ext)
  <1>1. Shows(w, 1, Listed(b.cur, ext))
    BY ForemostShows
  <1>2. w \in Seq(P) /\ P \subseteq Range(Dirs[b.cur])
    BY Reading DEF Foremost
  <1>3. w \in Seq(Range(Dirs[b.cur]))
    BY <1>2
  <1> QED
    BY <1>1, <1>3 DEF View

LEMMA FailedIs ==
  ASSUME NEW b, IsScan(b), NEW m
  PROVE  /\ Done(b, m) => Failed(b, m) = b
         /\ ~Done(b, m) => Failed(b, m).known = FALSE
         /\ ~b.rc => ~Failed(b, m).rc
         /\ IsScan(Failed(b, m)) /\ Failed(b, m).cur = b.cur /\ Failed(b, m).prev = b.prev
  BY DEF Failed, IsScan, Fields

\* What failing keeps.
LEMMA FailedUnknown ==
  ASSUME NEW b, IsScan(b), NEW m
  PROVE  /\ b.known = FALSE => Failed(b, m).known = FALSE
         /\ Failed(b, m).win = b.win /\ Failed(b, m).sel = b.sel
  BY DEF Failed, IsScan, Fields

\* A whole read sees the directory.
LEMMA WholeIs == \A d : Whole(d).seen = Dirs[d]
  BY DEF Whole

LEMMA ScanInitSound ==
  ASSUME NEW b, IsScan(b), NEW ext, NEW m
  PROVE  LET c == ScanInit(b, ext, m) IN
         /\ IsScan(c) /\ Sound(c, ext) /\ c.cur = b.cur
         /\ (m = Whole(b.cur) /\ b.cur \in Folders) => c.known
  <1> DEFINE w == Loop("INIT", 0, b, ext, m.seen).w
             d == [b EXCEPT !.win = w, !.sel = 1, !.rc = FALSE, !.known = b.cur \in Folders]
  <1>1. /\ IsScan(d) /\ d.cur = b.cur /\ d.win = w /\ d.sel = 1
    BY DEF IsScan, Fields
  <1>2. d.known <=> b.cur \in Folders
    BY DEF IsScan, Fields
  <1>3. d.known \in BOOLEAN
    <2> DEFINE kn == b.cur \in Folders
    <2>1. kn \in BOOLEAN
      OBVIOUS
    <2> HIDE DEF kn
    <2>2. "known" \in DOMAIN b
      BY DEF IsScan, Fields
    <2>3. [b EXCEPT !.known = kn].known = kn
      BY <2>2
    <2>4. d.known = kn
      BY <2>2 DEF kn
    <2> QED
      BY <2>1, <2>4
  <1>4. ScanInit(b, ext, m) = Failed(d, m)
    BY DEF ScanInit
  <1> HIDE DEF d
  <1>5. CASE m = Whole(b.cur) /\ b.cur \in Folders
    <2>1. Failed(d, m) = d /\ b.cur \in DOMAIN Dirs
      BY <1>1, <1>5, FailedIs, FoldersExist DEF Done
    <2>7. m.seen = Dirs[b.cur]
      BY <1>5, WholeIs
    <2>2. Foremost(w, {e \in Listed(b.cur, ext) : Collects("INIT", 0, b, e)}, "INIT" = "PREV_PAGE")
      BY <2>1, <2>7, Collected DEF Own
    <2>3. {e \in Listed(b.cur, ext) : Collects("INIT", 0, b, e)} = Listed(b.cur, ext)
      BY DEF Collects
    <2>4. ("INIT" = "PREV_PAGE") = FALSE
      OBVIOUS
    <2> HIDE DEF w
    <2>5. Foremost(w, Listed(b.cur, ext), FALSE)
      BY <2>2, <2>3, <2>4
    <2>6. Window(d, ext)
      <3>1. CASE Len(w) >= 1
        BY <1>1, <2>1, <2>5, <3>1, ForemostView DEF Window, View
      <3>2. CASE ~(Len(w) >= 1)
        BY <1>1, <2>5, <3>2, ForemostEmpty DEF Window
      <3> QED
        BY <3>1, <3>2
    <2> QED
      BY <1>1, <1>2, <1>3, <1>4, <1>5, <2>1, <2>6 DEF Sound
  <1>6. CASE b.cur \notin Folders
    <2>1. Failed(d, m).known = FALSE
      <3>1. d.known = FALSE
        BY <1>2, <1>3, <1>6
      <3> QED
        BY <1>1, <3>1, FailedIs
    <2> QED
      BY <1>1, <1>4, <1>6, <2>1, FailedIs DEF Sound
  <1>7. CASE m # Whole(b.cur)
    <2>1. ~Done(d, m)
      BY <1>1, <1>7 DEF Done
    <2>2. Failed(d, m).known = FALSE /\ IsScan(Failed(d, m)) /\ Failed(d, m).cur = d.cur
      BY <1>1, <2>1, FailedIs
    <2> QED
      BY <1>1, <1>4, <1>7, <2>2 DEF Sound
  <1> QED
    BY <1>5, <1>6, <1>7

LEMMA ScanInitFirstSound ==
  ASSUME NEW b, IsScan(b), b.known = FALSE, NEW ext, NEW m
  PROVE  LET c == ScanInitFirst(b, ext, m) IN
         /\ IsScan(c) /\ Sound(c, ext) /\ c.cur = b.cur /\ c.known = FALSE
         /\ (c.rc /\ m = Whole(b.cur) /\ b.cur \in DOMAIN Dirs) =>
               \E e \in Listed(b.cur, ext) : c.win = <<e>> /\ e.cluster = b.prev
         /\ c.rc => c.sel = 1
         /\ (/\ m = Whole(b.cur) /\ b.cur \in DOMAIN Dirs /\ b.win # <<>>
             /\ \E e \in Listed(b.cur, ext) : e.cluster = b.prev) => c.rc
  <1> DEFINE r == Loop("INIT_FIRST", 0, b, ext, m.seen)
             c == ScanInitFirst(b, ext, m)
             d == [b EXCEPT !.rc = FALSE]
             f == [b EXCEPT !.win = r.w, !.sel = 1, !.rc = TRUE]
  <1>1. IsScan(d) /\ d.cur = b.cur /\ d.known = FALSE /\ d.rc = FALSE
    <2>1. IsScan(d) /\ d.cur = b.cur /\ d.rc = FALSE
      BY DEF IsScan, Fields
    <2>2. d.known = b.known
      BY DEF IsScan, Fields
    <2> QED
      BY <2>1, <2>2
  <1>2. IsScan(f) /\ f.cur = b.cur /\ f.known = FALSE /\ f.win = r.w /\ f.sel = 1 /\ f.rc = TRUE
    <2>1. IsScan(f) /\ f.cur = b.cur /\ f.win = r.w /\ f.sel = 1 /\ f.rc = TRUE
      BY DEF IsScan, Fields
    <2>2. f.known = b.known
      BY DEF IsScan, Fields
    <2> QED
      BY <2>1, <2>2
  <1>3. /\ c = d \/ c = Failed(d, m) \/ (r.new /\ c = Failed(f, m))
        /\ b.win # <<>> /\ r.new => c = Failed(f, m)
    BY DEF ScanInitFirst
  <1> HIDE DEF c, d, f, r
  <1>8. ASSUME m = Whole(b.cur), b.cur \in DOMAIN Dirs, b.win # <<>>,
               \E e \in Listed(b.cur, ext) : e.cluster = b.prev
        PROVE  c.rc
    <2>1. r.new
      BY <1>8, WholeIs, InitFirstLoop DEF r
    <2>2. Done(f, m)
      BY <1>2, <1>8 DEF Done
    <2> QED
      BY <1>2, <1>3, <1>8, <2>1, <2>2, FailedIs
  <1>4. CASE c = d
    BY <1>1, <1>4, <1>8 DEF Sound, c
  <1>5. CASE c = Failed(d, m)
    <2>1. IsScan(c) /\ c.cur = b.cur /\ c.known = FALSE /\ ~c.rc
      BY <1>1, <1>5, FailedIs, FailedUnknown
    <2> QED
      BY <1>8, <2>1 DEF Sound, c
  <1>6. CASE r.new /\ c = Failed(f, m) /\ Done(f, m)
    <2>1. c = f
      BY <1>2, <1>6, FailedIs
    <2>2. b.cur \in DOMAIN Dirs => \E e \in Listed(b.cur, ext) : r.w = <<e>> /\ e.cluster = b.prev
      <3> HAVE b.cur \in DOMAIN Dirs
      <3>1. m = Whole(b.cur)
        BY <1>2, <1>6 DEF Done
      <3> QED
        BY <1>6, <3>1, WholeIs, InitFirstLoop, ZenonT(30) DEF r
    <2> QED
      BY <1>2, <1>8, <2>1, <2>2 DEF Sound, c
  <1>7. CASE c = Failed(f, m) /\ ~Done(f, m)
    <2>1. IsScan(c) /\ c.cur = b.cur /\ c.known = FALSE /\ c.sel = 1
      BY <1>2, <1>7, FailedIs, FailedUnknown
    <2>2. m # Whole(b.cur)
      BY <1>2, <1>7 DEF Done
    <2> QED
      BY <1>8, <2>1, <2>2 DEF Sound, c
  <1> QED
    BY <1>3, <1>4, <1>5, <1>6, <1>7

LEMMA ScanInitNextSound ==
  ASSUME NEW b, IsScan(b), NEW ext, NEW m, b.sel = 1
  PROVE  LET c == ScanInitNext(b, ext, m) IN
         /\ IsScan(c) /\ c.cur = b.cur /\ c.sel = 1
         /\ (m = Whole(b.cur) /\ b.cur \in Folders) => c.known
         /\ (b.cur \in DOMAIN Dirs => \E e \in Listed(b.cur, ext) : b.win = <<e>>) =>
               /\ Sound(c, ext)
               /\ c.known => \E e \in Listed(b.cur, ext) : b.win = <<e>> /\ c.win[1] = e
  <1> DEFINE w == Loop("INIT_NEXT", 0, b, ext, m.seen).w
             d == [b EXCEPT !.win = w, !.rc = FALSE, !.known = b.cur \in Folders]
  <1>1. /\ IsScan(d) /\ d.cur = b.cur /\ d.win = w /\ d.sel = 1
    BY DEF IsScan, Fields
  <1>2. d.known <=> b.cur \in Folders
    BY DEF IsScan, Fields
  <1>3. d.known \in BOOLEAN
    <2> DEFINE kn == b.cur \in Folders
    <2>1. kn \in BOOLEAN
      OBVIOUS
    <2> HIDE DEF kn
    <2>2. "known" \in DOMAIN b
      BY DEF IsScan, Fields
    <2>3. [b EXCEPT !.known = kn].known = kn
      BY <2>2
    <2>4. d.known = kn
      BY <2>2 DEF kn
    <2> QED
      BY <2>1, <2>4
  <1>4. ScanInitNext(b, ext, m) = Failed(d, m)
    BY DEF ScanInitNext
  <1>8. Failed(d, m).sel = 1
    BY DEF Failed, IsScan, Fields
  <1> HIDE DEF d
  <1> DEFINE Top == b.cur \in DOMAIN Dirs => \E e \in Listed(b.cur, ext) : b.win = <<e>>
  <1>5. CASE m = Whole(b.cur) /\ b.cur \in Folders
    <2>1. Failed(d, m) = d /\ b.cur \in DOMAIN Dirs
      BY <1>1, <1>5, FailedIs, FoldersExist DEF Done
    <2>9. ASSUME Top
          PROVE  Window(d, ext) /\ \E e \in Listed(b.cur, ext) : b.win = <<e>> /\ d.win[1] = e
      <3>2. PICK top \in Listed(b.cur, ext) : b.win = <<top>>
        BY <2>1, <2>9
      <3>3. /\ Foremost(w, {top} \cup {e \in Listed(b.cur, ext) : Less(top, e)}, FALSE)
            /\ Len(w) >= 1 /\ w[1] = top
        <4>1. m.seen = Dirs[b.cur]
          BY <1>5, WholeIs
        <4>2. LET u == Loop("INIT_NEXT", 0, b, ext, Dirs[b.cur]).w IN
              /\ Foremost(u, {top} \cup {e \in Listed(b.cur, ext) : Less(top, e)}, FALSE)
              /\ Len(u) >= 1 /\ u[1] = top
          BY <2>1, <3>2, InitNextLoop
        <4> QED
          BY <4>1, <4>2
      <3> HIDE DEF w
      <3> DEFINE P == {top} \cup {e \in Listed(b.cur, ext) : Less(top, e)}
      <3>4. P \subseteq Listed(b.cur, ext)
        OBVIOUS
      <3>5. \A e \in Listed(b.cur, ext) \ P : Less(e, w[1])
        <4>1. \A e, f \in Range(Dirs[b.cur]) : e = f \/ Less(e, f) \/ Less(f, e)
          BY <2>1, Ordered
        <4>2. Listed(b.cur, ext) \subseteq Range(Dirs[b.cur])
          BY <2>1, Reading
        <4> QED
          BY <3>3, <4>1, <4>2
      <3> HIDE DEF P
      <3>6. View(w, 1, b, ext)
        BY <2>1, <3>3, <3>4, <3>5, ForemostView DEF P
      <3>7. Window(d, ext)
        BY <1>1, <3>6 DEF Window, View
      <3> QED
        BY <1>1, <3>2, <3>3, <3>7
    <2> QED
      BY <1>1, <1>2, <1>3, <1>4, <1>5, <2>1, <2>9 DEF Sound
  <1>6. CASE b.cur \notin Folders
    <2>1. Failed(d, m).known = FALSE
      <3>1. d.known = FALSE
        BY <1>2, <1>3, <1>6
      <3> QED
        BY <1>1, <3>1, FailedIs
    <2> QED
      BY <1>1, <1>4, <1>6, <1>8, <2>1, FailedIs DEF Sound
  <1>7. CASE m # Whole(b.cur)
    <2>1. ~Done(d, m)
      BY <1>1, <1>7 DEF Done
    <2>2. Failed(d, m).known = FALSE /\ IsScan(Failed(d, m)) /\ Failed(d, m).cur = d.cur
      BY <1>1, <2>1, FailedIs
    <2> QED
      BY <1>1, <1>4, <1>7, <1>8, <2>2 DEF Sound
  <1> QED
    BY <1>5, <1>6, <1>7

\* What of the directory is beyond a row: the rows on that side, and what is beyond the window.
LEMMA Beyond ==
  ASSUME NEW b, b.cur \in DOMAIN Dirs, NEW ext, NEW w, NEW r, View(w, r, b, ext),
         NEW i \in 1..Len(w), NEW e \in Listed(b.cur, ext)
  PROVE  /\ Less(w[i], e) => (\E j \in (i + 1)..Len(w) : e = w[j]) \/ (Less(w[Len(w)], e) /\ Len(w) = M)
         /\ Less(e, w[i]) => (\E j \in 1..(i - 1) : e = w[j]) \/ Less(e, w[1])
  <1> DEFINE S == Range(Dirs[b.cur])
             L == Listed(b.cur, ext)
             l == Len(w)
  <1>1. /\ l \in 1..M /\ M \in Nat /\ DOMAIN w = 1..l
        /\ \A k \in 1..l : w[k] \in L /\ w[k] \in S
        /\ \A k, j \in 1..l : k < j => Less(w[k], w[j])
        /\ \A f \in L \ Range(w) : Less(f, w[1]) \/ (Less(w[l], f) /\ l = M)
    BY ViewIs
  <1>2. /\ \A f \in S : ~Less(f, f)
        /\ \A f, g, h \in S : Less(f, g) /\ Less(g, h) => Less(f, h)
        /\ e \in S
    BY Ordered, Reading
  <1> HIDE DEF S, L, l
  <1>3. e \in L /\ i \in 1..l
    BY DEF L, l
  <1>4. 1 \in 1..l /\ l \in 1..l /\ (i = 1 \/ 1 < i) /\ (i = l \/ i < l)
    BY <1>1, <1>3
  <1>5. (i = 1 \/ Less(w[1], w[i])) /\ (i = l \/ Less(w[i], w[l]))
    BY <1>1, <1>3, <1>4
  <1>6. w[i] \in S /\ w[1] \in S /\ w[l] \in S
    BY <1>1, <1>3, <1>4
  <1>7. CASE e \in Range(w)
    <2>1. PICK j \in 1..l : e = w[j]
      BY <1>1, <1>7 DEF Range
    <2>2. j < i => Less(e, w[i]) /\ j \in 1..(i - 1)
      BY <1>1, <1>3, <2>1
    <2>3. i < j => Less(w[i], e) /\ j \in (i + 1)..l
      BY <1>1, <1>3, <2>1
    <2>4. i = j \/ i < j \/ j < i
      BY <1>1, <1>3, <2>1
    <2>5. Less(w[i], e) => i < j
      BY <1>2, <1>6, <2>1, <2>2, <2>4
    <2>6. Less(e, w[i]) => j < i
      BY <1>2, <1>6, <2>1, <2>3, <2>4
    <2> QED
      BY <2>1, <2>2, <2>3, <2>5, <2>6 DEF l
  <1>8. CASE Less(e, w[1])
    <2>1. ~Less(w[i], e)
      BY <1>2, <1>5, <1>6, <1>8
    <2> QED
      BY <1>8, <2>1
  <1>9. CASE Less(w[l], e) /\ l = M
    <2>1. ~Less(e, w[i])
      BY <1>2, <1>5, <1>6, <1>9
    <2> QED
      BY <1>9, <2>1 DEF l
  <1> QED
    BY <1>1, <1>3, <1>7, <1>8, <1>9

\* t is the next entry of L after s, or s if it is the last; the other way, if back.
Neighbour(s, t, L, back) ==
    /\ t \in L
    /\ \/ t = s /\ \A e \in L : ~Before(s, e, back)
       \/ Before(s, t, back) /\ \A e \in L : Before(s, e, back) => e = t \/ Before(t, e, back)

LEMMA ScanNextSound ==
  ASSUME NEW b, IsScan(b), NEW ext, Sound(b, ext), NEW m
  PROVE  LET c == ScanNext(b, ext, m) IN
         /\ IsScan(c) /\ Sound(c, ext) /\ c.cur = b.cur
         /\ (b.known /\ m = Whole(b.cur)) =>
               /\ c.known /\ (b.win = <<>> <=> c.win = <<>>)
               /\ b.win # <<>> =>
                     Neighbour(b.win[b.sel], c.win[c.sel], Listed(b.cur, ext), FALSE)
  <1> DEFINE c == ScanNext(b, ext, m)
             w == Loop("NEXT", 0, b, ext, m.seen).w
             d == [b EXCEPT !.sel = b.sel + 1]
             f == [b EXCEPT !.win = w]
             L == Listed(b.cur, ext)
  <1>1. IsScan(d) /\ d.cur = b.cur /\ d.win = b.win /\ d.sel = b.sel + 1 /\ d.known = b.known
    BY DEF IsScan, Fields
  <1>2. IsScan(f) /\ f.cur = b.cur /\ f.win = w /\ f.sel = b.sel /\ f.known = b.known
    BY DEF IsScan, Fields
  <1>3. /\ b.win = <<>> => c = b
        /\ (b.win # <<>> /\ b.sel < Len(b.win)) => c = d
        /\ (b.win # <<>> /\ ~(b.sel < Len(b.win)) /\ Len(b.win) < M) => c = b
        /\ (b.win # <<>> /\ ~(b.sel < Len(b.win)) /\ ~(Len(b.win) < M)) => c = Failed(f, m)
    BY DEF ScanNext, M
  <1> HIDE DEF c, d, f, w
  <1>4. CASE ~b.known
    <2>1. b.known = FALSE
      BY <1>4 DEF Sound
    <2>2. CASE c = b \/ c = d
      BY <1>1, <2>1, <2>2 DEF Sound, c
    <2>3. CASE c = Failed(f, m)
      <3>1. IsScan(c) /\ c.cur = b.cur /\ c.known = FALSE
        BY <1>2, <2>1, <2>3, FailedIs
      <3> QED
        BY <2>1, <3>1 DEF Sound, c
    <2> QED
      BY <1>3, <2>2, <2>3
  <1>5. CASE b.known /\ b.win = <<>>
    BY <1>3, <1>5 DEF c
  <1>6. CASE b.known /\ b.win # <<>>
    <2>1. b.cur \in DOMAIN Dirs /\ b.cur \in Folders /\ View(b.win, b.sel, b, ext)
      BY <1>6, FoldersExist DEF Sound, Window
    <2>2. /\ b.win \in Seq(Range(Dirs[b.cur])) /\ Len(b.win) \in 1..M /\ b.sel \in 1..Len(b.win) /\ M \in Nat
          /\ \A i \in 1..Len(b.win) : b.win[i] \in L
          /\ \A i, j \in 1..Len(b.win) : i < j => Less(b.win[i], b.win[j])
          /\ DOMAIN b.win = 1..Len(b.win)
      BY <2>1, ViewIs
    <2>3. \A e \in L : Less(b.win[b.sel], e) =>
             (\E j \in (b.sel + 1)..Len(b.win) : e = b.win[j])
             \/ (Less(b.win[Len(b.win)], e) /\ Len(b.win) = M)
      BY <2>1, <2>2, Beyond
    <2> HIDE DEF L
    <2>4. CASE b.sel < Len(b.win)
      <3>1. b.sel + 1 \in 1..Len(b.win) /\ Len(b.win) \in 1..Len(b.win)
        BY <2>2, <2>4
      <3>2. View(b.win, b.sel + 1, b, ext)
        BY <2>1, <3>1, <2>2 DEF View, Shows
      <3>3. Window(d, ext)
        BY <1>1, <3>2 DEF Window, View
      <3>4. Less(b.win[b.sel], b.win[b.sel + 1]) /\ b.win[b.sel + 1] \in L
        BY <2>2, <2>4, <3>1
      <3>5. ASSUME NEW e \in L, Less(b.win[b.sel], e)
            PROVE  e = b.win[b.sel + 1] \/ Less(b.win[b.sel + 1], e)
        <4>1. CASE \E j \in (b.sel + 1)..Len(b.win) : e = b.win[j]
          <5>1. PICK j \in (b.sel + 1)..Len(b.win) : e = b.win[j]
            BY <4>1
          <5>2. j \in 1..Len(b.win) /\ (j = b.sel + 1 \/ b.sel + 1 < j)
            BY <2>2
          <5> QED
            BY <2>2, <3>1, <5>1, <5>2
        <4>2. CASE Less(b.win[Len(b.win)], e)
          <5>1. b.sel + 1 = Len(b.win) \/ b.sel + 1 < Len(b.win)
            BY <2>2, <2>4
          <5>2. b.win[b.sel + 1] = b.win[Len(b.win)] \/ Less(b.win[b.sel + 1], b.win[Len(b.win)])
            BY <2>2, <3>1, <5>1
          <5>3. /\ b.win[b.sel + 1] \in Range(Dirs[b.cur]) /\ b.win[Len(b.win)] \in Range(Dirs[b.cur])
                /\ e \in Range(Dirs[b.cur])
            BY <2>1, <2>2, <3>1, Reading DEF L
          <5> QED
            BY <2>1, <4>2, <5>2, <5>3, Ordered
        <4> QED
          BY <2>3, <3>5, <4>1, <4>2
      <3>6. Neighbour(b.win[b.sel], d.win[d.sel], L, FALSE)
        BY <1>1, <3>4, <3>5 DEF Neighbour, Before
      <3> QED
        BY <1>1, <1>3, <1>6, <2>1, <2>4, <3>3, <3>6 DEF Sound, c, L
    <2>5. CASE ~(b.sel < Len(b.win))
      <3>1. b.sel = Len(b.win) /\ b.sel \in 1..Len(b.win) /\ ~(\E j \in (b.sel + 1)..Len(b.win) : TRUE)
        BY <2>2, <2>5
      <3>2. \A e \in L : Less(b.win[b.sel], e) => Len(b.win) = M
        BY <2>3, <3>1
      <3>3. CASE Len(b.win) < M
        <4>1. \A e \in L : ~Less(b.win[b.sel], e)
          BY <2>2, <3>2, <3>3
        <4>2. Neighbour(b.win[b.sel], b.win[b.sel], L, FALSE)
          BY <2>2, <4>1 DEF Neighbour, Before
        <4> QED
          BY <1>3, <1>6, <2>5, <3>3, <4>2 DEF c, L
      <3>4. CASE ~(Len(b.win) < M) /\ m # Whole(b.cur)
        <4>1. c = Failed(f, m) /\ ~Done(f, m)
          BY <1>2, <1>3, <1>6, <2>5, <3>4 DEF Done
        <4>2. IsScan(c) /\ c.cur = b.cur /\ c.known = FALSE
          BY <1>2, <4>1, FailedIs
        <4> QED
          BY <3>4, <4>2 DEF Sound, c
      <3>5. CASE ~(Len(b.win) < M) /\ m = Whole(b.cur)
        <4>1. c = f /\ Len(b.win) = M
          <5>1. Len(b.win) = M /\ Done(f, m) /\ c = Failed(f, m)
            BY <1>2, <1>3, <1>6, <2>2, <2>5, <3>5 DEF Done
          <5> QED
            BY <1>2, <5>1, FailedIs
        <4>2. \/ w = b.win /\ \A e \in L : ~Less(b.win[M], e)
              \/ \E x \in L : /\ w = Append(Tail(b.win), x) /\ Less(b.win[M], x)
                              /\ \A e \in L : Less(b.win[M], e) => e = x \/ Less(x, e)
          BY <2>1, <3>5, <4>1, WholeIs, NextLoop DEF w, L
        <4>3. CASE w = b.win /\ \A e \in L : ~Less(b.win[M], e)
          <5>1. Neighbour(b.win[b.sel], f.win[f.sel], L, FALSE)
            BY <1>2, <2>2, <3>1, <4>1, <4>3 DEF Neighbour, Before
          <5>2. Window(f, ext)
            BY <1>2, <2>1, <4>3 DEF Window, View
          <5> QED
            BY <1>2, <1>6, <2>1, <4>1, <4>3, <5>1, <5>2 DEF Sound, c, L
        <4>4. CASE \E x \in L : /\ w = Append(Tail(b.win), x) /\ Less(b.win[M], x)
                                /\ \A e \in L : Less(b.win[M], e) => e = x \/ Less(x, e)
          <5>1. PICK x \in L : /\ w = Append(Tail(b.win), x) /\ Less(b.win[M], x)
                               /\ \A e \in L : Less(b.win[M], e) => e = x \/ Less(x, e)
            BY <4>4
          <5>2. View(w, b.sel, b, ext)
            BY <2>1, <4>1, <5>1, SlideShows DEF L
          <5>3. Window(f, ext)
            BY <1>2, <5>2 DEF Window, View
          <5>4. w[M] = x /\ Len(w) = M
            <6> DEFINE u == b.win
            <6>1. u \in Seq(Range(Dirs[b.cur])) /\ Len(u) = M /\ x \in Range(Dirs[b.cur])
              BY <2>1, <2>2, <4>1, Reading DEF L
            <6> HIDE DEF u
            <6>2. Append(Tail(u), x)[M] = x /\ Len(Append(Tail(u), x)) = M
              BY <6>1, Slide
            <6> QED
              BY <5>1, <6>2 DEF u
          <5>5. f.win[f.sel] = x /\ b.win[b.sel] = b.win[M]
            BY <1>2, <3>1, <4>1, <5>4
          <5>6. Neighbour(b.win[b.sel], f.win[f.sel], L, FALSE)
            BY <5>1, <5>5 DEF Neighbour, Before
          <5>7. w # <<>>
            BY <2>2, <4>1, <5>4
          <5> QED
            BY <1>2, <1>6, <2>1, <4>1, <5>3, <5>6, <5>7 DEF Sound, c, L
        <4> QED
          BY <4>2, <4>3, <4>4
      <3> QED
        BY <3>3, <3>4, <3>5
    <2> QED
      BY <2>4, <2>5
  <1> QED
    BY <1>4, <1>5, <1>6

LEMMA ScanPrevSound ==
  ASSUME NEW b, IsScan(b), NEW ext, Sound(b, ext), NEW m
  PROVE  LET c == ScanPrev(b, ext, m) IN
         /\ IsScan(c) /\ Sound(c, ext) /\ c.cur = b.cur
         /\ (b.known /\ m = Whole(b.cur)) =>
               /\ c.known /\ (b.win = <<>> <=> c.win = <<>>)
               /\ b.win # <<>> =>
                     Neighbour(b.win[b.sel], c.win[c.sel], Listed(b.cur, ext), TRUE)
  <1> DEFINE c == ScanPrev(b, ext, m)
             w == Loop("PREV", 0, b, ext, m.seen).w
             d == [b EXCEPT !.sel = b.sel - 1]
             f == [b EXCEPT !.win = w]
             L == Listed(b.cur, ext)
  <1>1. IsScan(d) /\ d.cur = b.cur /\ d.win = b.win /\ d.sel = b.sel - 1 /\ d.known = b.known
    BY DEF IsScan, Fields
  <1>2. IsScan(f) /\ f.cur = b.cur /\ f.win = w /\ f.sel = b.sel /\ f.known = b.known
    BY DEF IsScan, Fields
  <1>3. /\ b.win = <<>> => c = b
        /\ (b.win # <<>> /\ b.sel > 1) => c = d
        /\ (b.win # <<>> /\ ~(b.sel > 1)) => c = Failed(f, m)
    BY DEF ScanPrev
  <1> HIDE DEF c, d, f, w
  <1>4. CASE ~b.known
    <2>1. b.known = FALSE
      BY <1>4 DEF Sound
    <2>2. CASE c = b \/ c = d
      BY <1>1, <2>1, <2>2 DEF Sound, c
    <2>3. CASE c = Failed(f, m)
      <3>1. IsScan(c) /\ c.cur = b.cur /\ c.known = FALSE
        BY <1>2, <2>1, <2>3, FailedIs
      <3> QED
        BY <2>1, <3>1 DEF Sound, c
    <2> QED
      BY <1>3, <2>2, <2>3
  <1>5. CASE b.known /\ b.win = <<>>
    BY <1>3, <1>5 DEF c
  <1>6. CASE b.known /\ b.win # <<>>
    <2>1. b.cur \in DOMAIN Dirs /\ b.cur \in Folders /\ View(b.win, b.sel, b, ext)
      BY <1>6, FoldersExist DEF Sound, Window
    <2>2. /\ b.win \in Seq(Range(Dirs[b.cur])) /\ Len(b.win) \in 1..M /\ b.sel \in 1..Len(b.win) /\ M \in Nat
          /\ \A i \in 1..Len(b.win) : b.win[i] \in L
          /\ \A i, j \in 1..Len(b.win) : i < j => Less(b.win[i], b.win[j])
          /\ DOMAIN b.win = 1..Len(b.win)
      BY <2>1, ViewIs
    <2>3. \A e \in L : Less(e, b.win[b.sel]) =>
             (\E j \in 1..(b.sel - 1) : e = b.win[j]) \/ Less(e, b.win[1])
      BY <2>1, <2>2, Beyond
    <2> HIDE DEF L
    <2>4. CASE b.sel > 1
      <3>1. b.sel - 1 \in 1..Len(b.win) /\ 1 \in 1..Len(b.win)
        BY <2>2, <2>4
      <3>2. View(b.win, b.sel - 1, b, ext)
        BY <2>1, <3>1, <2>2 DEF View, Shows
      <3>3. Window(d, ext)
        BY <1>1, <3>2 DEF Window, View
      <3>4. Less(b.win[b.sel - 1], b.win[b.sel]) /\ b.win[b.sel - 1] \in L
        BY <2>2, <2>4, <3>1
      <3>5. ASSUME NEW e \in L, Less(e, b.win[b.sel])
            PROVE  e = b.win[b.sel - 1] \/ Less(e, b.win[b.sel - 1])
        <4>1. CASE \E j \in 1..(b.sel - 1) : e = b.win[j]
          <5>1. PICK j \in 1..(b.sel - 1) : e = b.win[j]
            BY <4>1
          <5>2. j \in 1..Len(b.win) /\ (j = b.sel - 1 \/ j < b.sel - 1)
            BY <2>2
          <5> QED
            BY <2>2, <3>1, <5>1, <5>2
        <4>2. CASE Less(e, b.win[1])
          <5>1. b.sel - 1 = 1 \/ 1 < b.sel - 1
            BY <2>2, <2>4
          <5>2. b.win[b.sel - 1] = b.win[1] \/ Less(b.win[1], b.win[b.sel - 1])
            BY <2>2, <3>1, <5>1
          <5>3. /\ b.win[b.sel - 1] \in Range(Dirs[b.cur]) /\ b.win[1] \in Range(Dirs[b.cur])
                /\ e \in Range(Dirs[b.cur])
            BY <2>1, <2>2, <3>1, Reading DEF L
          <5> QED
            BY <2>1, <4>2, <5>2, <5>3, Ordered
        <4> QED
          BY <2>3, <3>5, <4>1, <4>2
      <3>6. Neighbour(b.win[b.sel], d.win[d.sel], L, TRUE)
        BY <1>1, <3>4, <3>5 DEF Neighbour, Before
      <3> QED
        BY <1>1, <1>3, <1>6, <2>1, <2>4, <3>3, <3>6 DEF Sound, c, L
    <2>5. CASE ~(b.sel > 1)
      <3>1. b.sel = 1
        BY <2>2, <2>5
      <3>4. CASE m # Whole(b.cur)
        <4>1. c = Failed(f, m) /\ ~Done(f, m)
          BY <1>2, <1>3, <1>6, <2>5, <3>4 DEF Done
        <4>2. IsScan(c) /\ c.cur = b.cur /\ c.known = FALSE
          BY <1>2, <4>1, FailedIs
        <4> QED
          BY <3>4, <4>2 DEF Sound, c
      <3>5. CASE m = Whole(b.cur)
        <4>1. c = f
          <5>1. Done(f, m) /\ c = Failed(f, m)
            BY <1>2, <1>3, <1>6, <2>5, <3>5 DEF Done
          <5> QED
            BY <1>2, <5>1, FailedIs
        <4>2. \/ w = b.win /\ \A e \in L : ~Less(e, b.win[1])
              \/ \E x \in L : /\ w = Raised(b.win, x) /\ Less(x, b.win[1])
                              /\ \A e \in L : Less(e, b.win[1]) => e = x \/ Less(e, x)
          BY <2>1, <3>5, WholeIs, PrevLoop, ZenonT(30) DEF w, L
        <4>3. CASE w = b.win /\ \A e \in L : ~Less(e, b.win[1])
          <5>1. Neighbour(b.win[b.sel], f.win[f.sel], L, TRUE)
            BY <1>2, <2>2, <3>1, <4>3 DEF Neighbour, Before
          <5>2. Window(f, ext)
            BY <1>2, <2>1, <4>3 DEF Window, View
          <5> QED
            BY <1>2, <1>6, <2>1, <4>1, <4>3, <5>1, <5>2 DEF Sound, c, L
        <4>4. CASE \E x \in L : /\ w = Raised(b.win, x) /\ Less(x, b.win[1])
                                /\ \A e \in L : Less(e, b.win[1]) => e = x \/ Less(e, x)
          <5>1. PICK x \in L : /\ w = Raised(b.win, x) /\ Less(x, b.win[1])
                               /\ \A e \in L : Less(e, b.win[1]) => e = x \/ Less(e, x)
            BY <4>4
          <5>2. View(w, b.sel, b, ext)
            BY <2>1, <5>1, RaiseShows DEF L
          <5>3. Window(f, ext)
            BY <1>2, <5>2 DEF Window, View
          <5>4. w[1] = x /\ Len(w) >= 1
            <6> DEFINE u == b.win
            <6>1. u \in Seq(Range(Dirs[b.cur])) /\ Len(u) \in 1..M /\ x \in Range(Dirs[b.cur])
              BY <2>1, <2>2, Reading DEF L
            <6> HIDE DEF u
            <6>2. Raised(u, x)[1] = x
              BY <6>1, Raise
            <6> QED
              BY <5>1, <5>2, <6>2 DEF u, View
          <5>5. f.win[f.sel] = x /\ b.win[b.sel] = b.win[1]
            BY <1>2, <3>1, <5>4
          <5>6. Neighbour(b.win[b.sel], f.win[f.sel], L, TRUE)
            BY <5>1, <5>5 DEF Neighbour, Before
          <5>7. w # <<>>
            BY <5>4
          <5> QED
            BY <1>2, <1>6, <2>1, <4>1, <5>3, <5>6, <5>7 DEF Sound, c, L
        <4> QED
          BY <4>2, <4>3, <4>4
      <3> QED
        BY <3>4, <3>5
    <2> QED
      BY <2>4, <2>5
  <1> QED
    BY <1>4, <1>5, <1>6

\* A page on, from s to t: what is passed over is at most a windowful, and if the
\* cursor stays, s is the last.
Paged(s, t, L, back) ==
    /\ t \in L
    /\ \/ t = s /\ \A e \in L : ~Before(s, e, back)
       \/ /\ Before(s, t, back)
          /\ \E q1 \in Seq(L) : /\ Len(q1) <= M
                                /\ \A e \in L : Before(s, e, back) /\ ~Before(t, e, back) => e \in Range(q1)

LEMMA ScanNextPageSound ==
  ASSUME NEW b, IsScan(b), NEW ext, Sound(b, ext), NEW m
  PROVE  LET c == ScanNextPage(b, ext, m) IN
         /\ IsScan(c) /\ Sound(c, ext) /\ c.cur = b.cur
         /\ (b.known /\ m = Whole(b.cur)) =>
               /\ c.known /\ (b.win = <<>> <=> c.win = <<>>)
               /\ b.win # <<>> =>
                     Paged(b.win[b.sel], c.win[c.sel], Listed(b.cur, ext), FALSE)
  <1> DEFINE c == ScanNextPage(b, ext, m)
             p == Loop("NEXT_PAGE", 0, b, ext, m.seen).w
             w == SubSeq(b.win, Len(p) + 1, Len(b.win)) \o p
             d == [b EXCEPT !.sel = Len(b.win)]
             f == [b EXCEPT !.win = w]
             L == Listed(b.cur, ext)
  <1>1. IsScan(d) /\ d.cur = b.cur /\ d.win = b.win /\ d.sel = Len(b.win) /\ d.known = b.known
    BY DEF IsScan, Fields
  <1>2. IsScan(f) /\ f.cur = b.cur /\ f.win = w /\ f.sel = b.sel /\ f.known = b.known
    BY DEF IsScan, Fields
  <1>3. /\ b.win = <<>> => c = b
        /\ (b.win # <<>> /\ b.sel < Len(b.win)) => c = d
        /\ (b.win # <<>> /\ ~(b.sel < Len(b.win)) /\ Len(b.win) < M) => c = b
        /\ (b.win # <<>> /\ ~(b.sel < Len(b.win)) /\ ~(Len(b.win) < M)) =>
              IF m.end = "cut" THEN c = b ELSE c = Failed(f, m)
    BY DEF ScanNextPage, M
  <1> HIDE DEF c, d, f, w, p
  <1>4. CASE ~b.known
    <2>1. b.known = FALSE
      BY <1>4 DEF Sound
    <2>2. CASE c = b \/ c = d
      BY <1>1, <2>1, <2>2 DEF Sound, c
    <2>3. CASE c = Failed(f, m)
      <3>1. IsScan(c) /\ c.cur = b.cur /\ c.known = FALSE
        BY <1>2, <2>1, <2>3, FailedIs, FailedUnknown
      <3> QED
        BY <2>1, <3>1 DEF Sound, c
    <2> QED
      BY <1>3, <2>2, <2>3
  <1>5. CASE b.known /\ b.win = <<>>
    BY <1>3, <1>5 DEF c
  <1>6. CASE b.known /\ b.win # <<>>
    <2>1. b.cur \in DOMAIN Dirs /\ b.cur \in Folders /\ View(b.win, b.sel, b, ext)
      BY <1>6, FoldersExist DEF Sound, Window
    <2>2. /\ b.win \in Seq(Range(Dirs[b.cur])) /\ Len(b.win) \in 1..M /\ b.sel \in 1..Len(b.win)
          /\ M \in Nat /\ M >= 2
          /\ \A i \in 1..Len(b.win) : b.win[i] \in L
          /\ \A i, j \in 1..Len(b.win) : i < j => Less(b.win[i], b.win[j])
          /\ DOMAIN b.win = 1..Len(b.win)
      BY <2>1, ViewIs
    <2>3. \A e \in L : Less(b.win[b.sel], e) =>
             (\E j \in (b.sel + 1)..Len(b.win) : e = b.win[j])
             \/ (Less(b.win[Len(b.win)], e) /\ Len(b.win) = M)
      BY <2>1, <2>2, Beyond
    <2>7. /\ \A e \in L : ~Less(e, e)
          /\ \A e, g \in L : e = g \/ Less(e, g) \/ Less(g, e)
          /\ L \subseteq Range(Dirs[b.cur])
      BY <2>1, Ordered, Reading
    <2> HIDE DEF L
    <2>4. CASE b.sel < Len(b.win)
      <3>1. Len(b.win) \in 1..Len(b.win)
        BY <2>2
      <3>2. View(b.win, Len(b.win), b, ext)
        BY <2>1, <3>1, <2>2 DEF View, Shows
      <3>3. Window(d, ext)
        BY <1>1, <3>2 DEF Window, View
      <3>4. Less(b.win[b.sel], b.win[Len(b.win)]) /\ b.win[Len(b.win)] \in L
        BY <2>2, <2>4, <3>1
      <3>5. ASSUME NEW e \in L, Less(b.win[b.sel], e), ~Less(b.win[Len(b.win)], e)
            PROVE  e \in Range(b.win)
        BY <2>2, <2>3, <3>5 DEF Range
      <3>6. b.win \in Seq(L) /\ Len(b.win) <= M
        BY <2>2
      <3>7. Paged(b.win[b.sel], d.win[d.sel], L, FALSE)
        BY <1>1, <3>4, <3>5, <3>6 DEF Paged, Before
      <3> QED
        BY <1>1, <1>3, <1>6, <2>1, <2>4, <3>3, <3>7 DEF Sound, c, L
    <2>5. CASE ~(b.sel < Len(b.win))
      <3>1. b.sel = Len(b.win)
        BY <2>2, <2>5
      <3>2. \A e \in L : Less(b.win[b.sel], e) => Len(b.win) = M
        BY <2>2, <2>3, <3>1
      <3>3. CASE Len(b.win) < M
        <4>1. \A e \in L : ~Less(b.win[b.sel], e)
          BY <2>2, <3>2, <3>3
        <4>2. Paged(b.win[b.sel], b.win[b.sel], L, FALSE)
          BY <2>2, <4>1 DEF Paged, Before
        <4> QED
          BY <1>3, <1>6, <2>5, <3>3, <4>2 DEF c, L
      <3>4. CASE ~(Len(b.win) < M) /\ m # Whole(b.cur)
        <4>1. CASE c = b
          BY <3>4, <4>1 DEF c
        <4>2. CASE c = Failed(f, m)
          <5>1. ~Done(f, m)
            BY <1>2, <3>4 DEF Done
          <5>2. IsScan(c) /\ c.cur = b.cur /\ c.known = FALSE
            BY <1>2, <4>2, <5>1, FailedIs
          <5> QED
            BY <3>4, <5>2 DEF Sound, c
        <4> QED
          BY <1>3, <1>6, <2>5, <3>4, <4>1, <4>2
      <3>5. CASE ~(Len(b.win) < M) /\ m = Whole(b.cur)
        <4>1. c = f /\ Len(b.win) = M /\ b.sel = M
          <5>1. m.end # "cut"
            BY <3>5 DEF Whole
          <5>2. Done(f, m)
            BY <1>2, <3>5 DEF Done
          <5>3. c = Failed(f, m)
            BY <1>3, <1>6, <2>5, <3>5, <5>1
          <5>4. c = f
            BY <1>2, <5>2, <5>3, FailedIs
          <5> QED
            BY <2>2, <3>1, <3>5, <5>4
        <4> DEFINE P == {e \in L : Less(b.win[M], e)}
        <4>2. Foremost(p, P, FALSE)
          <5>0. m.seen = Dirs[b.cur]
            BY <3>5, WholeIs
          <5>1. Foremost(p, {e \in L : Collects("NEXT_PAGE", 0, b, e)}, "NEXT_PAGE" = "PREV_PAGE")
            BY <2>1, <3>5, <5>0, Collected DEF Own, p, L
          <5>2. \A e : Collects("NEXT_PAGE", 0, b, e) <=> Less(b.win[M], e)
            BY <4>1 DEF Collects, Last
          <5>3. {e \in L : Collects("NEXT_PAGE", 0, b, e)} = P
            BY <5>2
          <5>4. ("NEXT_PAGE" = "PREV_PAGE") = FALSE
            OBVIOUS
          <5> QED
            BY <5>1, <5>3, <5>4
        <4>3. /\ View(w, b.sel, b, ext) /\ Len(w) = M /\ Len(p) \in 0..M
              /\ w[M] = IF Len(p) = 0 THEN b.win[M] ELSE p[Len(p)]
          BY <2>1, <4>1, <4>2, PageDown, ZenonT(30) DEF w, L
        <4>4. \A e : e \in P <=> e \in L /\ Less(b.win[M], e)
          OBVIOUS
        <4>5. \A e \in P \ Range(p) : Len(p) = M /\ Less(p[M], e)
          BY <4>2 DEF Foremost, Before
        <4>6. p \in Seq(P) /\ DOMAIN p = 1..Len(p)
          BY <4>2 DEF Foremost
        <4>9. P \subseteq L
          OBVIOUS
        <4> HIDE DEF P
        <4>7. Paged(b.win[b.sel], w[M], L, FALSE)
          <5>1. CASE Len(p) = 0
            <6>1. \A e \in P : FALSE
              BY <2>2, <4>5, <4>6, <5>1 DEF Range
            <6> QED
              BY <2>2, <4>1, <4>3, <4>4, <5>1, <6>1 DEF Paged, Before
          <5>2. CASE Len(p) # 0
            <6>1. Len(p) \in 1..Len(p) /\ Len(p) <= M
              BY <2>2, <4>3, <5>2
            <6>2. w[M] = p[Len(p)] /\ p[Len(p)] \in P
              BY <4>3, <4>6, <5>2, <6>1
            <6>3. p \in Seq(L)
              BY <4>6, <4>9
            <6>4. \A e \in L : Less(b.win[M], e) /\ ~Less(w[M], e) => e \in Range(p)
              BY <4>4, <4>5, <6>2
            <6> QED
              BY <4>1, <4>4, <6>1, <6>2, <6>3, <6>4 DEF Paged, Before
          <5> QED
            BY <5>1, <5>2
        <4>8. Window(f, ext) /\ f.win[f.sel] = w[M] /\ f.win # <<>>
          BY <1>2, <2>2, <4>1, <4>3 DEF Window, View
        <4> QED
          BY <1>2, <1>6, <2>1, <4>1, <4>7, <4>8 DEF Sound, c, L
      <3> QED
        BY <3>3, <3>4, <3>5
    <2> QED
      BY <2>4, <2>5
  <1> QED
    BY <1>4, <1>5, <1>6

LEMMA ScanPrevPageSound ==
  ASSUME NEW b, IsScan(b), NEW ext, Sound(b, ext), NEW m
  PROVE  LET c == ScanPrevPage(b, ext, m) IN
         /\ IsScan(c) /\ Sound(c, ext) /\ c.cur = b.cur
         /\ (b.known /\ m = Whole(b.cur)) =>
               /\ c.known /\ (b.win = <<>> <=> c.win = <<>>)
               /\ b.win # <<>> =>
                     Paged(b.win[b.sel], c.win[c.sel], Listed(b.cur, ext), TRUE)
  <1> DEFINE c == ScanPrevPage(b, ext, m)
             p == Loop("PREV_PAGE", 0, b, ext, m.seen).w
             w0 == Reverse(p) \o b.win
             w == SubSeq(w0, 1, Min({Len(w0), MAXDIRENTRIES}))
             d == [b EXCEPT !.sel = 1]
             f == [b EXCEPT !.win = w]
             L == Listed(b.cur, ext)
  <1>1. IsScan(d) /\ d.cur = b.cur /\ d.win = b.win /\ d.sel = 1 /\ d.known = b.known
    BY DEF IsScan, Fields
  <1>2. IsScan(f) /\ f.cur = b.cur /\ f.win = w /\ f.sel = b.sel /\ f.known = b.known
    BY DEF IsScan, Fields
  <1>3. /\ b.win = <<>> => c = b
        /\ (b.win # <<>> /\ b.sel > 1) => c = d
        /\ (b.win # <<>> /\ ~(b.sel > 1)) => IF m.end = "cut" THEN c = b ELSE c = Failed(f, m)
    BY DEF ScanPrevPage
  <1> HIDE DEF c, d, f, w, w0, p
  <1>4. CASE ~b.known
    <2>1. b.known = FALSE
      BY <1>4 DEF Sound
    <2>2. CASE c = b \/ c = d
      BY <1>1, <2>1, <2>2 DEF Sound, c
    <2>3. CASE c = Failed(f, m)
      <3>1. IsScan(c) /\ c.cur = b.cur /\ c.known = FALSE
        BY <1>2, <2>1, <2>3, FailedIs, FailedUnknown
      <3> QED
        BY <2>1, <3>1 DEF Sound, c
    <2> QED
      BY <1>3, <2>2, <2>3
  <1>5. CASE b.known /\ b.win = <<>>
    BY <1>3, <1>5 DEF c
  <1>6. CASE b.known /\ b.win # <<>>
    <2>1. b.cur \in DOMAIN Dirs /\ b.cur \in Folders /\ View(b.win, b.sel, b, ext)
      BY <1>6, FoldersExist DEF Sound, Window
    <2>2. /\ b.win \in Seq(Range(Dirs[b.cur])) /\ Len(b.win) \in 1..M /\ b.sel \in 1..Len(b.win)
          /\ M \in Nat /\ M >= 2
          /\ \A i \in 1..Len(b.win) : b.win[i] \in L
          /\ \A i, j \in 1..Len(b.win) : i < j => Less(b.win[i], b.win[j])
          /\ DOMAIN b.win = 1..Len(b.win)
      BY <2>1, ViewIs
    <2>3. \A e \in L : Less(e, b.win[b.sel]) =>
             (\E j \in 1..(b.sel - 1) : e = b.win[j]) \/ Less(e, b.win[1])
      BY <2>1, <2>2, Beyond
    <2>7. /\ \A e \in L : ~Less(e, e)
          /\ \A e, g \in L : e = g \/ Less(e, g) \/ Less(g, e)
          /\ L \subseteq Range(Dirs[b.cur])
      BY <2>1, Ordered, Reading
    <2> HIDE DEF L
    <2>4. CASE b.sel > 1
      <3>1. 1 \in 1..Len(b.win)
        BY <2>2
      <3>2. View(b.win, 1, b, ext)
        BY <2>1, <3>1, <2>2 DEF View, Shows
      <3>3. Window(d, ext)
        BY <1>1, <3>2 DEF Window, View
      <3>4. Less(b.win[1], b.win[b.sel]) /\ b.win[1] \in L
        BY <2>2, <2>4, <3>1
      <3>5. ASSUME NEW e \in L, Less(e, b.win[b.sel]), ~Less(e, b.win[1])
            PROVE  e \in Range(b.win)
        <4>1. PICK j \in 1..(b.sel - 1) : e = b.win[j]
          BY <2>3, <3>5
        <4>2. j \in 1..Len(b.win)
          BY <2>2
        <4> QED
          BY <2>2, <4>1, <4>2 DEF Range
      <3>6. b.win \in Seq(L) /\ Len(b.win) <= M
        BY <2>2
      <3>7. Paged(b.win[b.sel], d.win[d.sel], L, TRUE)
        BY <1>1, <3>4, <3>5, <3>6 DEF Paged, Before
      <3> QED
        BY <1>1, <1>3, <1>6, <2>1, <2>4, <3>3, <3>7 DEF Sound, c, L
    <2>5. CASE ~(b.sel > 1)
      <3>1. b.sel = 1
        BY <2>2, <2>5
      <3>4. CASE m # Whole(b.cur)
        <4>1. CASE c = b
          BY <3>4, <4>1 DEF c
        <4>2. CASE c = Failed(f, m)
          <5>1. ~Done(f, m)
            BY <1>2, <3>4 DEF Done
          <5>2. IsScan(c) /\ c.cur = b.cur /\ c.known = FALSE
            BY <1>2, <4>2, <5>1, FailedIs
          <5> QED
            BY <3>4, <5>2 DEF Sound, c
        <4> QED
          BY <1>3, <1>6, <2>5, <3>4, <4>1, <4>2
      <3>5. CASE m = Whole(b.cur)
        <4>1. c = f
          <5>1. m.end # "cut"
            BY <3>5 DEF Whole
          <5>2. Done(f, m)
            BY <1>2, <3>5 DEF Done
          <5>3. c = Failed(f, m)
            BY <1>3, <1>6, <2>5, <3>5, <5>1
          <5>4. c = f
            BY <1>2, <5>2, <5>3, FailedIs
          <5> QED
            BY <2>2, <3>1, <3>5, <5>4
        <4> DEFINE P == {e \in L : Less(e, b.win[1])}
        <4>2. Foremost(p, P, TRUE)
          <5>1. Foremost(p, {e \in L : Collects("PREV_PAGE", 0, b, e)}, "PREV_PAGE" = "PREV_PAGE")
            BY <2>1, <3>5, WholeIs, Collected DEF Own, p, L
          <5>2. \A e : Collects("PREV_PAGE", 0, b, e) <=> Less(e, b.win[1])
            BY DEF Collects
          <5>3. {e \in L : Collects("PREV_PAGE", 0, b, e)} = P
            BY <5>2
          <5>4. ("PREV_PAGE" = "PREV_PAGE") = TRUE
            OBVIOUS
          <5> QED
            BY <5>1, <5>3, <5>4
        <4>3. /\ View(w, b.sel, b, ext) /\ Len(p) \in 0..M
              /\ w[1] = IF Len(p) = 0 THEN b.win[1] ELSE p[Len(p)]
          BY <2>1, <4>2, PageUp DEF w, w0, L
        <4>4. \A e : e \in P <=> e \in L /\ Less(e, b.win[1])
          OBVIOUS
        <4>5. \A e \in P \ Range(p) : Len(p) = M /\ Less(e, p[M])
          BY <4>2 DEF Foremost, Before
        <4>6. p \in Seq(P) /\ DOMAIN p = 1..Len(p)
          BY <4>2 DEF Foremost
        <4>9. P \subseteq L
          OBVIOUS
        <4> HIDE DEF P
        <4>7. Paged(b.win[b.sel], w[1], L, TRUE)
          <5>1. CASE Len(p) = 0
            <6>1. \A e \in P : FALSE
              BY <2>2, <4>5, <4>6, <5>1 DEF Range
            <6> QED
              BY <2>2, <3>1, <4>3, <4>4, <5>1, <6>1 DEF Paged, Before
          <5>2. CASE Len(p) # 0
            <6>1. Len(p) \in 1..Len(p) /\ Len(p) <= M
              BY <2>2, <4>3, <5>2
            <6>2. w[1] = p[Len(p)] /\ p[Len(p)] \in P
              BY <4>3, <4>6, <5>2, <6>1
            <6>3. p \in Seq(L)
              BY <4>6, <4>9
            <6>4. \A e \in L : Less(e, b.win[1]) /\ ~Less(e, w[1]) => e \in Range(p)
              BY <4>4, <4>5, <6>2
            <6> QED
              BY <3>1, <4>4, <6>1, <6>2, <6>3, <6>4 DEF Paged, Before
          <5> QED
            BY <5>1, <5>2
        <4>8. Window(f, ext) /\ f.win[f.sel] = w[1] /\ f.win # <<>>
          BY <1>2, <2>2, <3>1, <4>3 DEF Window, View
        <4> QED
          BY <1>2, <1>6, <2>1, <4>1, <4>7, <4>8 DEF Sound, c, L
      <3> QED
        BY <3>4, <3>5
    <2> QED
      BY <2>4, <2>5
  <1> QED
    BY <1>4, <1>5, <1>6

\* Entries of one sort are in the order of their first letters.
LEMMA InOrder ==
  ASSUME LettersInOrder, NEW d \in DOMAIN Dirs, NEW e \in Range(Dirs[d]), NEW f \in Range(Dirs[d]),
         Less(e, f) \/ e = f, e.dir = f.dir
  PROVE  e.letter <= f.letter /\ e.letter \in Nat /\ f.letter \in Nat
  <1>1. /\ e.place \in Nat /\ e.letter \in Nat /\ e.dir \in BOOLEAN
        /\ f.place \in Nat /\ f.letter \in Nat /\ f.dir \in BOOLEAN
    BY DirectoryAssumption DEF Entries
  <1>2. CASE e = f
    BY <1>1, <1>2
  <1>3. CASE Less(e, f)
    <2>1. e.place < f.place
      BY <1>1, <1>3 DEF Less
    <2> QED
      BY <1>1, <2>1 DEF LettersInOrder
  <1> QED
    BY <1>2, <1>3

\* What a letter makes of the window, if it finds an entry.
Hit(find, letter, b, e) ==
    /\ e.letter = letter
    /\ find = "FIND_FILE" => ~e.dir
    /\ find = "FIND_DIR" => e.dir
    /\ find = "FIND_NEXT" => Less(b.win[b.sel], e) /\ (e.dir <=> b.win[b.sel].dir)

LEMMA ScanLetterSound ==
  ASSUME LettersInOrder, NEW b, IsScan(b), NEW ext, Sound(b, ext), b.rc \in BOOLEAN, ~b.rc, NEW m, NEW letter \in Nat,
         NEW find \in {"FIND_FILE", "FIND_DIR", "FIND_NEXT"},
         find = "FIND_NEXT" /\ b.known /\ b.win # <<>> => b.win[b.sel].letter = letter,
         m = Whole(b.cur) \/ m.end \in {"cut", "strayed"}
  PROVE  LET c == ScanLetter(b, ext, m, letter, find) IN
         /\ IsScan(c) /\ Sound(c, ext) /\ c.cur = b.cur
         /\ c.rc \/ c = b
         /\ (b.known /\ m = Whole(b.cur) /\ b.win # <<>>) =>
               /\ c.rc => /\ c.sel = 1 /\ c.win # <<>> /\ c.win[1] \in Listed(b.cur, ext)
                          /\ Hit(find, letter, b, c.win[1])
                          /\ \A e \in Listed(b.cur, ext) :
                                Hit(find, letter, b, e) => e = c.win[1] \/ Less(c.win[1], e)
               /\ (\E e \in Listed(b.cur, ext) : Hit(find, letter, b, e)) => c.rc
  <1> DEFINE c == ScanLetter(b, ext, m, letter, find)
             p == Loop(find, letter, b, ext, m.seen).w
             d == [b EXCEPT !.win = p, !.sel = 1, !.rc = TRUE]
             f == [b EXCEPT !.rc = FALSE]
             L == Listed(b.cur, ext)
             Found == /\ b.win # <<>> /\ m.end # "cut" /\ p # <<>>
                      /\ p[1].letter = letter
                      /\ find = "FIND_DIR" => p[1].dir
                      /\ find = "FIND_NEXT" => p[1].dir = b.win[b.sel].dir
  <1>1. IsScan(d) /\ d.cur = b.cur /\ d.win = p /\ d.sel = 1 /\ d.known = b.known /\ d.rc = TRUE
    BY DEF IsScan, Fields
  <1>2. f = b
    <2>1. b.rc = FALSE
      OBVIOUS
    <2>2. f = b
      BY <2>1 DEF IsScan, Fields
    <2> QED
      BY <2>2
  <1>9. c = IF Found THEN Failed(d, m) ELSE b
    BY <1>2 DEF ScanLetter
  <1>10. Done(b, m) => m.end # "cut" /\ Done(d, m)
    BY <1>1 DEF Done, Whole
  <1> HIDE DEF c, d, f, p
  <1>3. Done(b, m) => c = IF Found THEN d ELSE b
    BY <1>1, <1>9, <1>10, FailedIs
  <1>11. Found /\ ~Done(b, m) => IsScan(c) /\ c.cur = b.cur /\ c.known = FALSE /\ c.rc
    <2> HAVE Found /\ ~Done(b, m)
    <2>1. m.end = "strayed" /\ ~Done(d, m) /\ c = Failed(d, m)
      BY <1>1, <1>9 DEF Done
    <2> HIDE DEF Found
    <2>2. c = [d EXCEPT !.known = FALSE, !.rc = (m.end = "strayed" /\ d.rc)]
      BY <2>1 DEF Failed
    <2>3. c.rc
      BY <1>1, <2>1, <2>2 DEF IsScan, Fields
    <2> QED
      BY <1>1, <2>1, <2>3, FailedIs
  <1>5. CASE ~Done(b, m)
    <2>1. CASE Found
      <3> HIDE DEF Found
      <3> QED
        BY <1>5, <1>11, <2>1 DEF Sound, c, Done
    <2>2. CASE ~Found
      <3> HIDE DEF Found
      <3> QED
        BY <1>5, <1>9, <2>2 DEF c, Done
    <2> QED
      BY <2>1, <2>2
  <1>4. CASE ~b.known /\ Done(b, m)
    <2>1. b.known = FALSE
      BY <1>4 DEF Sound
    <2> HIDE DEF Found
    <2> QED
      BY <1>1, <1>3, <1>4, <2>1 DEF Sound, c
  <1>6. CASE b.known /\ b.win = <<>>
    BY <1>9, <1>6 DEF c
  <1>7. CASE b.known /\ Done(b, m) /\ b.win # <<>>
    <2>1. b.cur \in DOMAIN Dirs /\ b.cur \in Folders /\ View(b.win, b.sel, b, ext)
      BY <1>7, FoldersExist DEF Sound, Window
    <2>2. b.sel \in 1..Len(b.win) /\ b.win[b.sel] \in L
      BY <2>1, ViewIs
    <2>3. L \subseteq Range(Dirs[b.cur])
      BY <2>1, Reading
    <2>4. /\ \A e \in L : e.letter \in Nat /\ e.dir \in BOOLEAN
          /\ \A e, g \in L : (Less(e, g) \/ e = g) /\ e.dir = g.dir => e.letter <= g.letter
          /\ \A e, g \in L : Less(e, g) /\ g.dir => e.dir
      <3>1. \A e \in L : e.letter \in Nat /\ e.dir \in BOOLEAN
        BY <2>1, <2>3, DirectoryAssumption DEF Entries
      <3>2. \A e, g \in L : (Less(e, g) \/ e = g) /\ e.dir = g.dir => e.letter <= g.letter
        BY <2>1, <2>3, InOrder
      <3>3. \A e, g \in L : Less(e, g) /\ g.dir => e.dir
        BY <3>1 DEF Less
      <3> QED
        BY <3>1, <3>2, <3>3
    <2>5. /\ \A e \in L : ~Less(e, e)
          /\ \A e, g \in L : e = g \/ Less(e, g) \/ Less(g, e)
          /\ \A e, g, h \in L : Less(e, g) /\ Less(g, h) => Less(e, h)
      BY <2>1, <2>3, Ordered
    <2> DEFINE P == {e \in L : Collects(find, letter, b, e)}
    <2>6. Foremost(p, P, FALSE)
      <3>1. Foremost(p, P, find = "PREV_PAGE")
        <4>1. find \in Own /\ m = Whole(b.cur)
          BY <1>7 DEF Own, Done
        <4>2. Foremost(Loop(find, letter, b, ext, Dirs[b.cur]).w,
                       {e \in Listed(b.cur, ext) : Collects(find, letter, b, e)}, find = "PREV_PAGE")
          BY <2>1, <4>1, Collected
        <4> QED
          BY <4>1, <4>2, WholeIs DEF p
      <3>2. (find = "PREV_PAGE") = FALSE
        OBVIOUS
      <3> HIDE DEF P
      <3> QED
        BY <3>1, <3>2
    <2>7. \A e : e \in P <=> e \in L /\ Collects(find, letter, b, e)
      OBVIOUS
    <2>8. /\ find = "FIND_FILE" => \A e : Collects(find, letter, b, e) <=> e.letter >= letter /\ ~e.dir
          /\ find = "FIND_DIR" => \A e : Collects(find, letter, b, e) <=> e.letter >= letter \/ ~e.dir
          /\ find = "FIND_NEXT" => \A e : Collects(find, letter, b, e) <=> Less(b.win[b.sel], e)
      BY DEF Collects
    <2>9. P \subseteq L
      OBVIOUS
    <2>10. P # {} => Len(p) >= 1
      BY <2>6, ForemostEmpty
    <2> HIDE DEF P, L
    <2>11. Len(p) >= 1 => p[1] \in P /\ \A e \in P : e = p[1] \/ Less(p[1], e)
      <3> HAVE Len(p) >= 1
      <3>1. p \in Seq(P) /\ 1 \in 1..Len(p) /\ Len(p) \in 1..Len(p) /\ DOMAIN p = 1..Len(p)
        BY <2>6 DEF Foremost
      <3>2. \A i, j \in 1..Len(p) : i < j => Less(p[i], p[j])
        BY <2>6, <3>1 DEF Foremost, Sorted, Before
      <3>3. \A i \in 1..Len(p) : p[i] \in P /\ (i = 1 \/ 1 < i)
        BY <3>1
      <3>4. ASSUME NEW e \in P, e \in Range(p)
            PROVE  e = p[1] \/ Less(p[1], e)
        <4>1. PICK i \in 1..Len(p) : e = p[i]
          BY <3>1, <3>4 DEF Range
        <4> QED
          BY <3>1, <3>2, <3>3, <4>1
      <3>5. ASSUME NEW e \in P, e \notin Range(p)
            PROVE  e = p[1] \/ Less(p[1], e)
        <4>1. Less(p[Len(p)], e)
          BY <2>6, <3>5 DEF Foremost, Before
        <4>2. p[1] = p[Len(p)] \/ Less(p[1], p[Len(p)])
          BY <3>1, <3>2, <3>3
        <4> QED
          BY <2>5, <2>9, <3>1, <3>3, <4>1, <4>2
      <3> QED
        BY <3>1, <3>3, <3>4, <3>5
    <2>12. p # <<>> <=> Len(p) >= 1
      BY <2>6 DEF Foremost
    <2>13. \A e \in L : Hit(find, letter, b, e) => e \in P
      BY <2>4, <2>7, <2>8 DEF Hit
    <2>14. Found => Len(p) >= 1 /\ Hit(find, letter, b, p[1])
      <3> HAVE Found
      <3>1. Len(p) >= 1 /\ p[1] \in P /\ p[1] \in L
        BY <2>9, <2>11, <2>12
      <3> QED
        BY <2>2, <2>4, <2>7, <2>8, <3>1 DEF Hit
    <2>15. (\E e \in L : Hit(find, letter, b, e)) => Found
      <3> SUFFICES ASSUME NEW e \in L, Hit(find, letter, b, e) PROVE Found
        OBVIOUS
      <3>1. e \in P /\ Len(p) >= 1
        BY <2>10, <2>13
      <3>2. p[1] \in P /\ p[1] \in L /\ (e = p[1] \/ Less(p[1], e))
        BY <2>9, <2>11, <3>1
      <3> DEFINE o == p[1]
      <3> HIDE DEF o
      <3>3. o \in P /\ o \in L /\ (e = o \/ Less(o, e)) /\ e.letter = letter
        BY <3>2 DEF o, Hit
      <3>4. CASE find = "FIND_FILE"
        <4>1. o.letter >= letter /\ ~o.dir /\ ~e.dir
          BY <2>7, <2>8, <3>3, <3>4 DEF Hit
        <4>2. o.letter <= e.letter
          BY <2>4, <3>3, <4>1
        <4>3. o.letter = letter
          BY <2>4, <3>3, <4>1, <4>2
        <4> QED
          BY <1>7, <1>10, <2>12, <3>1, <3>4, <4>3 DEF o
      <3>5. CASE find = "FIND_DIR"
        <4>1. e.dir /\ o.dir /\ o.letter >= letter
          BY <2>4, <2>7, <2>8, <3>3, <3>5 DEF Hit
        <4>2. o.letter <= e.letter
          BY <2>4, <3>3, <4>1
        <4>3. o.letter = letter
          BY <2>4, <3>3, <4>1, <4>2
        <4> QED
          BY <1>7, <1>10, <2>12, <3>1, <3>5, <4>1, <4>3 DEF o
      <3>6. CASE find = "FIND_NEXT"
        <4> DEFINE s == b.win[b.sel]
        <4> HIDE DEF s
        <4>1. Less(s, o) /\ Less(s, e) /\ (e.dir <=> s.dir) /\ s \in L /\ s.letter = letter
          BY <1>7, <2>2, <2>7, <2>8, <3>3, <3>6 DEF Hit, s
        <4>2. o.dir = s.dir /\ o.dir = e.dir
          <5>1. e.dir => o.dir
            BY <2>4, <3>3
          <5>2. o.dir => s.dir
            BY <2>4, <3>3, <4>1
          <5> QED
            BY <2>4, <3>3, <4>1, <5>1, <5>2
        <4>3. o.letter <= e.letter /\ s.letter <= o.letter
          BY <2>4, <3>3, <4>1, <4>2
        <4>4. o.letter = letter
          BY <2>4, <3>3, <4>1, <4>3
        <4> QED
          BY <1>7, <1>10, <2>12, <3>1, <3>6, <4>2, <4>4 DEF o, s
      <3> QED
        BY <3>4, <3>5, <3>6
    <2>16. Found => View(p, 1, b, ext)
      <3> HAVE Found
      <3> DEFINE o == p[1]
      <3> HIDE DEF o
      <3>1. Len(p) >= 1 /\ o \in P /\ o \in L /\ Hit(find, letter, b, o)
        BY <2>9, <2>11, <2>14 DEF o
      <3>2. ASSUME NEW e \in L \ P
            PROVE  Less(e, o)
        <4>1. e = o \/ Less(e, o) \/ Less(o, e)
          BY <2>5, <3>1
        <4>2. e # o
          BY <3>1
        <4>3. ~Less(o, e)
          <5> SUFFICES ASSUME Less(o, e) PROVE FALSE
            OBVIOUS
          <5>1. CASE find = "FIND_FILE"
            <6>1. ~o.dir /\ o.letter = letter /\ e.dir \in BOOLEAN /\ e.letter \in Nat
              BY <2>4, <3>1, <5>1 DEF Hit
            <6>2. ~e.dir
              BY <2>4, <3>1, <6>1
            <6>3. o.letter <= e.letter
              BY <2>4, <3>1, <6>1, <6>2
            <6> QED
              BY <2>7, <2>8, <5>1, <6>1, <6>2, <6>3
          <5>2. CASE find = "FIND_DIR"
            <6>1. o.dir /\ o.letter = letter /\ e.dir \in BOOLEAN /\ e.letter \in Nat
              BY <2>4, <3>1, <5>2 DEF Hit
            <6>2. e.dir /\ ~(e.letter >= letter)
              BY <2>7, <2>8, <5>2, <6>1
            <6>3. o.letter <= e.letter
              BY <2>4, <3>1, <6>1, <6>2
            <6> QED
              BY <6>1, <6>2, <6>3
          <5>3. CASE find = "FIND_NEXT"
            <6>1. Less(b.win[b.sel], o)
              BY <3>1, <5>3 DEF Hit
            <6>2. Less(b.win[b.sel], e)
              BY <2>2, <2>5, <3>1, <6>1
            <6> QED
              BY <2>7, <2>8, <5>3, <6>2
          <5> QED
            BY <5>1, <5>2, <5>3
        <4> QED
          BY <4>1, <4>2, <4>3
      <3> QED
        BY <2>1, <2>6, <2>9, <3>1, <3>2, ForemostView DEF L, o
    <2>17. CASE Found
      <3>1. c = d /\ c.rc
        BY <1>1, <1>3, <1>7, <2>17
      <3>2. Window(d, ext)
        BY <1>1, <2>16, <2>17 DEF Window, View
      <3>3. p # <<>> /\ p[1] \in L /\ Hit(find, letter, b, p[1])
            /\ \A e \in L : Hit(find, letter, b, e) => e = p[1] \/ Less(p[1], e)
        BY <2>9, <2>11, <2>13, <2>14, <2>17
      <3> HIDE DEF Found
      <3> QED
        BY <1>1, <1>7, <2>1, <3>1, <3>2, <3>3 DEF Sound, c, L
    <2>18. CASE ~Found
      <3>1. c = b
        BY <1>9, <2>18
      <3> HIDE DEF Found
      <3> QED
        BY <2>15, <2>18, <3>1 DEF c, L
    <2> QED
      BY <2>17, <2>18
  <1> QED
    BY <1>4, <1>5, <1>6, <1>7

-----------------------------------------------------------------------------
\* The keys

LEMMA ChangeDirectoryIs ==
  ASSUME NEW b, IsScan(b), NEW d
  PROVE  LET c == ChangeDirectory(b, d) IN
         IsScan(c) /\ c.cur = d /\ c.prev = b.cur /\ c.win = b.win /\ c.known = FALSE
  BY DEF ChangeDirectory, IsScan, Fields

\* The parent directory, from the directory that is left.
Opened(b, d, ext, k) == ScanInitFirst(ChangeDirectory(b, d), ext, k)
Reopened(b, d, ext, k, m) == ScanFromFirst(Opened(b, d, ext, k), ext, k, m)

\* c shows d with the cursor on the directory that b was in.
OnLeft(b, d, ext, c) ==
    c.cur = d /\ c.win[c.sel] \in Listed(d, ext) /\ c.win[c.sel].cluster = b.cur

LEMMA ParentSound ==
  ASSUME NEW b, IsScan(b), NEW d, NEW ext, NEW k, NEW m
  PROVE  LET first == Opened(b, d, ext, k)
             next == Reopened(b, d, ext, k, m) IN
         /\ IsScan(first) /\ Sound(first, ext) /\ first.cur = d /\ first.known = FALSE
         /\ first.rc => /\ IsScan(next) /\ Sound(next, ext) /\ next.cur = d
                        /\ (k = Whole(d) /\ m = Whole(d) /\ d \in Folders) => next.known
                        /\ next.known => OnLeft(b, d, ext, next)
         /\ (/\ k = Whole(d) /\ d \in DOMAIN Dirs /\ b.win # <<>>
             /\ \E e \in Listed(d, ext) : e.cluster = b.cur) => first.rc
  <1> DEFINE up == ChangeDirectory(b, d)
             first == ScanInitFirst(up, ext, k)
             c == ScanInitNext(first, ext, m)
             next == ScanFromFirst(first, ext, k, m)
  <1>1. IsScan(up) /\ up.cur = d /\ up.prev = b.cur /\ up.win = b.win /\ up.known = FALSE
    BY ChangeDirectoryIs
  <1> HIDE DEF up
  <1>2. /\ IsScan(first) /\ Sound(first, ext) /\ first.cur = d /\ first.known = FALSE
        /\ (first.rc /\ k = Whole(d) /\ d \in DOMAIN Dirs) =>
              \E e \in Listed(d, ext) : first.win = <<e>> /\ e.cluster = b.cur
        /\ first.rc => first.sel = 1
        /\ (/\ k = Whole(d) /\ d \in DOMAIN Dirs /\ b.win # <<>>
            /\ \E e \in Listed(d, ext) : e.cluster = b.cur) => first.rc
    <2>1. /\ IsScan(first) /\ Sound(first, ext) /\ first.cur = up.cur /\ first.known = FALSE
          /\ (first.rc /\ k = Whole(up.cur) /\ up.cur \in DOMAIN Dirs) =>
                \E e \in Listed(up.cur, ext) : first.win = <<e>> /\ e.cluster = up.prev
          /\ first.rc => first.sel = 1
          /\ (/\ k = Whole(up.cur) /\ up.cur \in DOMAIN Dirs /\ up.win # <<>>
              /\ \E e \in Listed(up.cur, ext) : e.cluster = up.prev) => first.rc
      <3> HIDE DEF first
      <3>1. IsScan(up) /\ up.known = FALSE
        BY <1>1
      <3> QED
        BY <3>1, ScanInitFirstSound DEF first
    <2> HIDE DEF first
    <2> QED
      BY <1>1, <2>1
  <1> HIDE DEF first
  <1>3. ASSUME first.rc
        PROVE  /\ IsScan(next) /\ Sound(next, ext) /\ next.cur = d
               /\ (k = Whole(d) /\ m = Whole(d) /\ d \in Folders) => next.known
               /\ next.known => /\ next.win[next.sel] \in Listed(d, ext)
                                /\ next.win[next.sel].cluster = b.cur
    <2>1. /\ IsScan(c) /\ c.cur = d /\ c.sel = 1
          /\ (m = Whole(d) /\ d \in Folders) => c.known
          /\ (d \in DOMAIN Dirs => \E e \in Listed(d, ext) : first.win = <<e>>) =>
                /\ Sound(c, ext)
                /\ c.known => \E e \in Listed(d, ext) : first.win = <<e>> /\ c.win[1] = e
      BY <1>2, <1>3, ScanInitNextSound
    <2>2. next = Failed(c, k)
      BY DEF ScanFromFirst
    <2> HIDE DEF c, next
    <2>3. CASE k = Whole(d)
      <3>1. next = c
        BY <2>1, <2>2, <2>3, FailedIs DEF Done
      <3>2. d \in DOMAIN Dirs => \E e \in Listed(d, ext) : first.win = <<e>>
        BY <1>2, <1>3, <2>3
      <3>3. next.known => next.win[next.sel] \in Listed(d, ext) /\ next.win[next.sel].cluster = b.cur
        <4> HAVE next.known
        <4>1. PICK e \in Listed(d, ext) : first.win = <<e>> /\ next.win[1] = e
          BY <2>1, <3>1, <3>2
        <4>2. d \in DOMAIN Dirs
          BY <2>1, <3>1, <3>2, FoldersExist DEF Sound
        <4>3. PICK g \in Listed(d, ext) : first.win = <<g>> /\ g.cluster = b.cur
          BY <1>2, <1>3, <2>3, <4>2
        <4>4. e = g
          BY <4>1, <4>3
        <4> QED
          BY <2>1, <3>1, <4>1, <4>3, <4>4
      <3> QED
        BY <2>1, <3>1, <3>2, <3>3
    <2>4. CASE k # Whole(d)
      <3>1. ~Done(c, k)
        BY <2>1, <2>4 DEF Done
      <3>2. IsScan(next) /\ next.cur = d /\ next.known = FALSE
        BY <2>1, <2>2, <3>1, FailedIs
      <3> QED
        BY <2>4, <3>2 DEF Sound
    <2> QED
      BY <2>3, <2>4
  <1> QED
    BY <1>2, <1>3 DEF first, up, Opened, Reopened, OnLeft

\* What the scans of a key leave is what the selector shows.
SelectorSound == Sound(State, fs_pFileExt) /\ faults \in Nat

LEMMA StateIs ==
  /\ IsScan(State) /\ State.cur = iCurrentDirectory /\ State.prev = iPreviousDirectory
  /\ State.win = win /\ State.sel = sel /\ State.known = known /\ State.rc = FALSE
  BY DEF State, IsScan, Fields

LEMMA NextStateIs ==
  /\ State'.cur = iCurrentDirectory' /\ State'.win = win' /\ State'.sel = sel' /\ State'.known = known'
  BY DEF State

LEMMA BecomesSound ==
  ASSUME NEW c, Becomes(c), Sound(c, fs_pFileExt')
  PROVE  Sound(State, fs_pFileExt)'
  <1>1. /\ State'.cur = c.cur /\ State'.win = c.win /\ State'.sel = c.sel /\ State'.known = c.known
    BY NextStateIs DEF Becomes
  <1>2. Window(State', fs_pFileExt') <=> Window(c, fs_pFileExt')
    BY <1>1, Same
  <1>3. Sound(State', fs_pFileExt')
    BY <1>1, <1>2 DEF Sound
  <1> QED
    BY <1>3

LEMMA StaySound ==
  ASSUME UNCHANGED view, UNCHANGED fs_pFileExt, Sound(State, fs_pFileExt)
  PROVE  Sound(State, fs_pFileExt)'
  <1>1. State' = State /\ fs_pFileExt' = fs_pFileExt
    BY DEF view, State
  <1>2. Sound(State', fs_pFileExt')
    BY <1>1
  <1> QED
    BY <1>2

\* How a scan's reading ends.
LEMMA ReadByIs ==
  ASSUME NEW d, NEW k, NEW f
  PROVE  ReadBy(d, k, f) = Whole(d) \/ ReadBy(d, k, f).end \in {"cut", "strayed"}
  BY DEF ReadBy

LEMMA ReadWhole == \A d, k : ReadBy(d, k, NoFault) = Whole(d)
  BY DEF ReadBy, NoFault

\* One search of a letter key.
SearchOf(letter, f, b, k) ==
    IF b.rc \/ k > Len(Searches(letter)) THEN b
    ELSE ScanLetter(b, fs_pFileExt, ReadBy(b.cur, k, f), letter, Searches(letter)[k])
Searched(letter, f) == SearchOf(letter, f, SearchOf(letter, f, SearchOf(letter, f, State, 1), 2), 3)

LEMMA LetterIs ==
  ASSUME NEW letter, NEW f, Letter(letter, f)
  PROVE  \/ win = <<>> /\ UNCHANGED view
         \/ win # <<>> /\ Becomes(Searched(letter, f))
  BY DEF Letter, SearchOf, Searched

LEMMA SearchesAre ==
  ASSUME NEW letter \in Nat
  PROVE  LET s == Searches(letter)
             mine == IF win[sel].dir THEN "FIND_DIR" ELSE "FIND_FILE"
             other == IF win[sel].dir THEN "FIND_FILE" ELSE "FIND_DIR" IN
         \/ s = <<other, mine>> /\ letter < win[sel].letter
         \/ s = <<mine, other>> /\ letter > win[sel].letter
         \/ s = <<"FIND_NEXT", other, mine>> /\ ~(letter < win[sel].letter) /\ ~(letter > win[sel].letter)
  BY DEF Searches

LEMMA OneSearch ==
  ASSUME LettersInOrder, SelectorSound, win # <<>>, NEW letter \in Letters, NEW f,
         NEW b, IsScan(b), Sound(b, fs_pFileExt), b = State \/ b.rc, NEW k \in {1, 2, 3}
  PROVE  LET c == SearchOf(letter, f, b, k) IN
         /\ IsScan(c) /\ Sound(c, fs_pFileExt) /\ (c = State \/ c.rc)
         /\ b.rc => c = b
         /\ (b = State /\ k > Len(Searches(letter))) => c = b
         /\ (b = State /\ k \in 1..Len(Searches(letter)) /\ known /\ f = NoFault) =>
               /\ c.rc =>
                     /\ c.sel = 1 /\ c.win[1] \in Listing
                     /\ Hit(Searches(letter)[k], letter, State, c.win[1])
                     /\ \A e \in Listing : Hit(Searches(letter)[k], letter, State, e) =>
                           e = c.win[1] \/ Less(c.win[1], e)
               /\ (\E e \in Listing : Hit(Searches(letter)[k], letter, State, e)) => c.rc
  <1> DEFINE c == SearchOf(letter, f, b, k)
             s == Searches(letter)
             find == s[k]
             m == ReadBy(b.cur, k, f)
  <1>1. CASE b.rc
    <2>1. c = b /\ b # State
      BY <1>1, StateIs DEF SearchOf
    <2> QED
      BY <1>1, <2>1
  <1>2. CASE b = State /\ k > Len(s)
    <2>1. c = b
      BY <1>2 DEF SearchOf
    <2>2. ~(k \in 1..Len(s))
      <3>1. Len(s) \in Nat
        BY SearchesAre, DirectoryAssumption
      <3> QED
        BY <1>2, <3>1
    <2> QED
      BY <1>2, <2>1, <2>2
  <1>3. CASE b = State /\ ~(k > Len(s))
    <2>1. letter \in Nat /\ b.rc \in BOOLEAN /\ ~b.rc
      BY <1>3, StateIs, DirectoryAssumption
    <2>2. c = ScanLetter(b, fs_pFileExt, m, letter, find)
      BY <1>3, <2>1 DEF SearchOf
    <2>3. k \in 1..Len(s)
      <3>1. Len(s) \in Nat
        BY <2>1, SearchesAre
      <3> QED
        BY <1>3, <3>1
    <2>4. /\ find \in {"FIND_FILE", "FIND_DIR", "FIND_NEXT"}
          /\ find = "FIND_NEXT" => ~(letter < win[sel].letter) /\ ~(letter > win[sel].letter)
      <3> DEFINE mine == IF win[sel].dir THEN "FIND_DIR" ELSE "FIND_FILE"
                 other == IF win[sel].dir THEN "FIND_FILE" ELSE "FIND_DIR"
      <3>1. mine \in {"FIND_FILE", "FIND_DIR"} /\ other \in {"FIND_FILE", "FIND_DIR"}
        OBVIOUS
      <3>2. \/ s = <<other, mine>>
            \/ s = <<mine, other>>
            \/ s = <<"FIND_NEXT", other, mine>> /\ ~(letter < win[sel].letter) /\ ~(letter > win[sel].letter)
        BY <2>1, SearchesAre
      <3> HIDE DEF mine, other, s
      <3> QED
        BY <2>3, <3>1, <3>2
    <2>9. m = Whole(b.cur) \/ m.end \in {"cut", "strayed"}
      BY ReadByIs
    <2>5. find = "FIND_NEXT" /\ b.known /\ b.win # <<>> => b.win[b.sel].letter = letter
      <3> HAVE find = "FIND_NEXT" /\ b.known /\ b.win # <<>>
      <3>1. b.known => b.cur \in DOMAIN Dirs /\ View(b.win, b.sel, b, fs_pFileExt)
        BY FoldersExist DEF Sound, Window
      <3>2. win[sel] \in Range(Dirs[b.cur]) /\ b.cur \in DOMAIN Dirs
        BY <1>3, <3>1, StateIs, ViewIs
      <3>3. win[sel].letter \in Nat
        BY <3>2, DirectoryAssumption DEF Entries
      <3> QED
        BY <1>3, <2>1, <2>4, <3>3, StateIs
    <2> HIDE DEF c, find, m, s
    <2>6. /\ IsScan(c) /\ Sound(c, fs_pFileExt)
          /\ c.rc \/ c = b
          /\ (b.known /\ m = Whole(b.cur) /\ b.win # <<>>) =>
                /\ c.rc => /\ c.sel = 1 /\ c.win # <<>> /\ c.win[1] \in Listed(b.cur, fs_pFileExt)
                           /\ Hit(find, letter, b, c.win[1])
                           /\ \A e \in Listed(b.cur, fs_pFileExt) :
                                 Hit(find, letter, b, e) => e = c.win[1] \/ Less(c.win[1], e)
                /\ (\E e \in Listed(b.cur, fs_pFileExt) : Hit(find, letter, b, e)) => c.rc
      <3>1. LettersInOrder /\ IsScan(b) /\ Sound(b, fs_pFileExt) /\ letter \in Nat /\ b.rc \in BOOLEAN /\ ~b.rc
        BY <2>1
      <3>2. /\ find \in {"FIND_FILE", "FIND_DIR", "FIND_NEXT"}
            /\ find = "FIND_NEXT" /\ b.known /\ b.win # <<>> => b.win[b.sel].letter = letter
            /\ m = Whole(b.cur) \/ m.end \in {"cut", "strayed"}
        BY <2>4, <2>5, <2>9
      <3> HIDE <2>1, <2>2, <2>3, <2>4, <2>5, <2>9
      <3>3. IsScan(ScanLetter(b, fs_pFileExt, m, letter, find))
        BY <3>1, <3>2, ScanLetterSound
      <3>4. Sound(ScanLetter(b, fs_pFileExt, m, letter, find), fs_pFileExt)
        BY <3>1, <3>2, ScanLetterSound
      <3>5. ScanLetter(b, fs_pFileExt, m, letter, find).rc \/ ScanLetter(b, fs_pFileExt, m, letter, find) = b
        BY <3>1, <3>2, ScanLetterSound
      <3> QED
        BY <2>2, <3>1, <3>2, <3>3, <3>4, <3>5, ScanLetterSound
    <2>7. Listing = Listed(b.cur, fs_pFileExt) /\ b.win = win /\ b.known = known
      BY <1>3, StateIs DEF Listing
    <2>8. f = NoFault => m = Whole(b.cur)
      BY ReadWhole DEF m
    <2> QED
      BY <1>3, <2>1, <2>6, <2>7, <2>8 DEF c, find, s
  <1> QED
    BY <1>1, <1>2, <1>3

\* The keys of one letter go through the searches until one finds an entry.
LEMMA SearchedIs ==
  ASSUME LettersInOrder, SelectorSound, win # <<>>, NEW letter \in Letters, NEW f
  PROVE  LET c == Searched(letter, f)
             s == Searches(letter)
             Hits(k) == {e \in Listing : Hit(s[k], letter, State, e)} IN
         /\ IsScan(c) /\ Sound(c, fs_pFileExt)
         /\ (known /\ f = NoFault) =>
               \/ \A k \in 1..Len(s) : Hits(k) = {}
               \/ \E k \in 1..Len(s) :
                     /\ c.sel = 1 /\ c.win[1] \in Hits(k)
                     /\ \A e \in Hits(k) : e = c.win[1] \/ Less(c.win[1], e)
                     /\ \A j \in 1..(k - 1) : Hits(j) = {}
  <1> DEFINE s == Searches(letter)
             Hits(k) == {e \in Listing : Hit(s[k], letter, State, e)}
             c0 == State
             d1 == SearchOf(letter, f, State, 1)
             d2 == SearchOf(letter, f, d1, 2)
             d3 == SearchOf(letter, f, d2, 3)
             At(c, k) == /\ c.sel = 1 /\ c.win[1] \in Hits(k)
                         /\ \A e \in Hits(k) : e = c.win[1] \/ Less(c.win[1], e)
  <1>1. Len(s) \in {2, 3}
    BY SearchesAre, DirectoryAssumption
  <1>2. IsScan(State) /\ Sound(State, fs_pFileExt) /\ ~State.rc
    BY StateIs DEF SelectorSound
  <1>3. ASSUME NEW b, IsScan(b), Sound(b, fs_pFileExt), b = State \/ b.rc, NEW k \in {1, 2, 3}
        PROVE  LET c == SearchOf(letter, f, b, k) IN
               /\ IsScan(c) /\ Sound(c, fs_pFileExt) /\ (c = State \/ c.rc)
               /\ b.rc => c = b
               /\ (b = State /\ k > Len(s)) => c = b
               /\ (b = State /\ k \in 1..Len(s) /\ known /\ f = NoFault) =>
                     /\ c.rc => At(c, k)
                     /\ Hits(k) # {} => c.rc
    <2> DEFINE c == SearchOf(letter, f, b, k)
    <2>1. /\ IsScan(c) /\ Sound(c, fs_pFileExt) /\ (c = State \/ c.rc)
          /\ b.rc => c = b
          /\ (b = State /\ k > Len(s)) => c = b
          /\ (b = State /\ k \in 1..Len(s) /\ known /\ f = NoFault) =>
                /\ c.rc =>
                      /\ c.sel = 1 /\ c.win[1] \in Listing
                      /\ Hit(s[k], letter, State, c.win[1])
                      /\ \A e \in Listing : Hit(s[k], letter, State, e) =>
                            e = c.win[1] \/ Less(c.win[1], e)
                /\ (\E e \in Listing : Hit(s[k], letter, State, e)) => c.rc
      BY <1>3, OneSearch
    <2> HIDE DEF c
    <2>2. \A e : e \in Hits(k) <=> e \in Listing /\ Hit(s[k], letter, State, e)
      OBVIOUS
    <2>3. (c.rc /\ c.sel = 1 /\ c.win[1] \in Listing /\ Hit(s[k], letter, State, c.win[1])
           /\ \A e \in Listing : Hit(s[k], letter, State, e) => e = c.win[1] \/ Less(c.win[1], e)) => At(c, k)
      BY <2>2
    <2>4. Hits(k) # {} => \E e \in Listing : Hit(s[k], letter, State, e)
      BY <2>2
    <2> HIDE DEF Hits, At
    <2> QED
      BY <2>1, <2>3, <2>4 DEF c
  <1>4. Searched(letter, f) = d3
    BY DEF Searched
  <1> HIDE DEF Hits, At, s
  <1>5. /\ IsScan(d1) /\ Sound(d1, fs_pFileExt) /\ (d1 = State \/ d1.rc)
        /\ (known /\ f = NoFault) => /\ d1.rc => At(d1, 1)
                                     /\ Hits(1) # {} => d1.rc
    <2>1. 1 \in 1..Len(s)
      BY <1>1
    <2> HIDE DEF d1
    <2> QED
      BY <1>2, <1>3, <2>1 DEF d1
  <1> HIDE DEF d1
  <1>6. /\ IsScan(d2) /\ Sound(d2, fs_pFileExt) /\ (d2 = State \/ d2.rc)
        /\ d1.rc => d2 = d1
        /\ (d1 = State /\ known /\ f = NoFault) => /\ d2.rc => At(d2, 2)
                                                   /\ Hits(2) # {} => d2.rc
    <2>1. 2 \in 1..Len(s)
      BY <1>1
    <2> HIDE DEF d2
    <2> QED
      BY <1>3, <1>5, <2>1 DEF d2
  <1> HIDE DEF d2
  <1>7. /\ IsScan(d3) /\ Sound(d3, fs_pFileExt) /\ (d3 = State \/ d3.rc)
        /\ d2.rc => d3 = d2
        /\ (d2 = State /\ Len(s) = 2) => d3 = State
        /\ (d2 = State /\ Len(s) = 3 /\ known /\ f = NoFault) => /\ d3.rc => At(d3, 3)
                                                                 /\ Hits(3) # {} => d3.rc
    <2>1. Len(s) = 3 => 3 \in 1..Len(s)
      BY <1>1
    <2>2. Len(s) = 2 => 3 > Len(s)
      OBVIOUS
    <2> HIDE DEF d3
    <2> QED
      BY <1>3, <1>6, <2>1, <2>2 DEF d3
  <1> HIDE DEF d3
  <1>8. ASSUME known, f = NoFault
        PROVE  \/ \A k \in 1..Len(s) : Hits(k) = {}
               \/ \E k \in 1..Len(s) : At(d3, k) /\ \A j \in 1..(k - 1) : Hits(j) = {}
    <2>1. CASE d1.rc
      <3>1. d3 = d1 /\ At(d1, 1)
        BY <1>5, <1>6, <1>7, <1>8, <2>1
      <3>2. 1 \in 1..Len(s)
        BY <1>1
      <3>3. \A j \in 1..(1 - 1) : FALSE
        OBVIOUS
      <3> QED
        BY <3>1, <3>2, <3>3
    <2>2. CASE ~d1.rc
      <3>1. d1 = State /\ Hits(1) = {}
        BY <1>5, <1>8, <2>2
      <3>2. CASE d2.rc
        <4>1. d3 = d2 /\ At(d2, 2) /\ 2 \in 1..Len(s)
          BY <1>1, <1>6, <1>7, <1>8, <3>1, <3>2
        <4>2. \A j \in 1..(2 - 1) : j = 1
          OBVIOUS
        <4> QED
          BY <3>1, <4>1, <4>2
      <3>3. CASE ~d2.rc
        <4>1. d2 = State /\ Hits(2) = {}
          BY <1>6, <1>8, <3>1, <3>3
        <4>2. CASE Len(s) = 2
          <5>1. \A j \in 1..Len(s) : j = 1 \/ j = 2
            BY <4>2
          <5> QED
            BY <3>1, <4>1, <5>1
        <4>3. CASE Len(s) = 3 /\ d3.rc
          <5>1. At(d3, 3) /\ 3 \in 1..Len(s)
            BY <1>7, <1>8, <4>1, <4>3
          <5>2. \A j \in 1..(3 - 1) : j = 1 \/ j = 2
            OBVIOUS
          <5> QED
            BY <3>1, <4>1, <5>1, <5>2
        <4>4. CASE Len(s) = 3 /\ ~d3.rc
          <5>1. Hits(3) = {}
            BY <1>7, <1>8, <4>1, <4>4
          <5>2. \A j \in 1..Len(s) : j = 1 \/ j = 2 \/ j = 3
            BY <4>4
          <5> QED
            BY <3>1, <4>1, <5>1, <5>2
        <4> QED
          BY <1>1, <4>2, <4>3, <4>4
      <3> QED
        BY <3>2, <3>3
    <2> QED
      BY <2>1, <2>2
  <1> QED
    BY <1>4, <1>7, <1>8 DEF Hits, At, s

\* Known windows that are not empty have an entry of the directory under the cursor.
LEMMA SelectedListed ==
  ASSUME SelectorSound, known
  PROVE  /\ iCurrentDirectory \in Folders /\ iCurrentDirectory \in DOMAIN Dirs
         /\ win = <<>> => Listing = {}
         /\ win # <<>> => /\ View(win, sel, State, fs_pFileExt)
                          /\ win[sel] \in Listing
         /\ Listing \subseteq Range(Dirs[iCurrentDirectory])
  <1>1. State.cur \in Folders /\ Window(State, fs_pFileExt)
    BY StateIs DEF SelectorSound, Sound
  <1>2. /\ iCurrentDirectory \in Folders /\ iCurrentDirectory \in DOMAIN Dirs
        /\ Listing = Listed(State.cur, fs_pFileExt) /\ State.cur \in DOMAIN Dirs
    BY <1>1, StateIs, FoldersExist DEF Listing
  <1>3. Listing \subseteq Range(Dirs[iCurrentDirectory])
    BY <1>2, Reading, StateIs
  <1>4. win = <<>> => Listing = {}
    <2> HAVE win = <<>>
    <2>1. CASE View(State.win, State.sel, State, fs_pFileExt)
      <3>1. State.sel \in 1..Len(State.win) /\ State.win = <<>>
        BY <1>2, <2>1, ViewIs, StateIs
      <3>2. 1..Len(State.win) = {}
        BY <3>1
      <3> QED
        BY <3>1, <3>2
    <2>2. CASE ~View(State.win, State.sel, State, fs_pFileExt)
      BY <1>1, <1>2, <2>2 DEF Window
    <2> QED
      BY <2>1, <2>2
  <1>5. win # <<>> => View(win, sel, State, fs_pFileExt)
    BY <1>1, StateIs DEF Window
  <1>6. win # <<>> => win[sel] \in Listing
    BY <1>2, <1>5, ViewIs
  <1> QED
    BY <1>2, <1>3, <1>4, <1>5, <1>6

LEMMA LetterFinds ==
  ASSUME LettersInOrder, SelectorSound, known, win # <<>>, NEW letter \in Letters,
         Becomes(Searched(letter, NoFault)), \E e \in Listing : e.letter = letter
  PROVE  /\ win'[sel'].letter = letter
         /\ (\E e, g \in {h \in Listing : h.letter = letter} : e # g) => win'[sel'] # win[sel]
  <1> DEFINE c == Searched(letter, NoFault)
             s == Searches(letter)
             at == win[sel]
             mine == IF at.dir THEN "FIND_DIR" ELSE "FIND_FILE"
             other == IF at.dir THEN "FIND_FILE" ELSE "FIND_DIR"
             Hits(k) == {e \in Listing : Hit(s[k], letter, State, e)}
  <1>1. letter \in Nat
    BY DirectoryAssumption
  <1>2. /\ at \in Listing
        /\ \A e \in Listing : e.letter \in Nat /\ e.dir \in BOOLEAN
        /\ \A e, g \in Listing : e = g \/ Less(e, g) \/ Less(g, e)
        /\ ~Less(at, at)
    <2>1. at \in Listing /\ Listing \subseteq Range(Dirs[iCurrentDirectory]) /\ iCurrentDirectory \in DOMAIN Dirs
      BY SelectedListed
    <2>2. \A e \in Listing : e.letter \in Nat /\ e.dir \in BOOLEAN
      BY <2>1, DirectoryAssumption DEF Entries
    <2>3. /\ \A e, g \in Listing : e = g \/ Less(e, g) \/ Less(g, e)
          /\ ~Less(at, at)
      BY <2>1, Ordered
    <2> QED
      BY <2>1, <2>2, <2>3
  <1>3. \/ \A k \in 1..Len(s) : Hits(k) = {}
        \/ \E k \in 1..Len(s) :
              /\ c.sel = 1 /\ c.win[1] \in Hits(k)
              /\ \A e \in Hits(k) : e = c.win[1] \/ Less(c.win[1], e)
              /\ \A j \in 1..(k - 1) : Hits(j) = {}
    BY SearchedIs
  <1>4. \/ s = <<other, mine>> /\ letter < at.letter
        \/ s = <<mine, other>> /\ letter > at.letter
        \/ s = <<"FIND_NEXT", other, mine>> /\ ~(letter < at.letter) /\ ~(letter > at.letter)
    BY <1>1, SearchesAre
  <1>5. win' = c.win /\ sel' = c.sel
    BY DEF Becomes
  <1>6. \A k : \A e : e \in Hits(k) <=> e \in Listing /\ Hit(s[k], letter, State, e)
    OBVIOUS
  <1>7. State.win[State.sel] = at
    BY StateIs
  <1> HIDE DEF c, s, at, Hits
  <1>8. /\ \A e : Hit("FIND_FILE", letter, State, e) <=> e.letter = letter /\ ~e.dir
        /\ \A e : Hit("FIND_DIR", letter, State, e) <=> e.letter = letter /\ e.dir
        /\ \A e : Hit("FIND_NEXT", letter, State, e) <=>
                     e.letter = letter /\ Less(at, e) /\ (e.dir <=> at.dir)
        /\ \A f, e : Hit(f, letter, State, e) => e.letter = letter
    BY <1>7 DEF Hit
  <1>9. \E k \in 1..Len(s) : Hits(k) # {}
    <2>1. PICK e \in Listing : e.letter = letter
      OBVIOUS
    <2>2. PICK k \in 1..Len(s) : s[k] = (IF e.dir THEN "FIND_DIR" ELSE "FIND_FILE")
      <3> DEFINE want == IF e.dir THEN "FIND_DIR" ELSE "FIND_FILE"
      <3>1. want = mine \/ want = other
        OBVIOUS
      <3> HIDE DEF want, mine, other
      <3>2. CASE s = <<other, mine>>
        <4>1. 1 \in 1..Len(s) /\ 2 \in 1..Len(s) /\ s[1] = other /\ s[2] = mine
          BY <3>2
        <4> QED
          BY <3>1, <4>1 DEF want
      <3>3. CASE s = <<mine, other>>
        <4>1. 1 \in 1..Len(s) /\ 2 \in 1..Len(s) /\ s[1] = mine /\ s[2] = other
          BY <3>3
        <4> QED
          BY <3>1, <4>1 DEF want
      <3>4. CASE s = <<"FIND_NEXT", other, mine>>
        <4>1. 2 \in 1..Len(s) /\ 3 \in 1..Len(s) /\ s[2] = other /\ s[3] = mine
          BY <3>4
        <4> QED
          BY <3>1, <4>1 DEF want
      <3> QED
        BY <1>4, <3>2, <3>3, <3>4
    <2>3. Hit(s[k], letter, State, e)
      BY <1>8, <2>1, <2>2
    <2> QED
      BY <1>6, <2>1, <2>3
  <1>10. PICK k \in 1..Len(s) :
              /\ c.sel = 1 /\ c.win[1] \in Hits(k)
              /\ \A e \in Hits(k) : e = c.win[1] \/ Less(c.win[1], e)
              /\ \A j \in 1..(k - 1) : Hits(j) = {}
    BY <1>3, <1>9
  <1>11. /\ win'[sel'] = c.win[1] /\ c.win[1] \in Listing /\ Hit(s[k], letter, State, c.win[1])
         /\ c.win[1].letter = letter
    BY <1>5, <1>6, <1>8, <1>10
  <1>12. ASSUME NEW e \in Listing, NEW g \in Listing, e.letter = letter, g.letter = letter, e # g, c.win[1] = at
         PROVE  FALSE
    <2>1. at.letter = letter
      BY <1>11, <1>12
    <2>2. s = <<"FIND_NEXT", other, mine>>
      <3>1. ~(letter < at.letter) /\ ~(letter > at.letter)
        BY <1>1, <2>1
      <3> QED
        BY <1>4, <3>1
    <2>3. Len(s) = 3 /\ s[1] = "FIND_NEXT" /\ s[2] = other /\ s[3] = mine
      <3> HIDE DEF mine, other
      <3> QED
        BY <2>2
    <2>4. k = 1 \/ k = 2 \/ k = 3
      BY <2>3
    <2>5. k # 1
      BY <1>2, <1>8, <1>11, <1>12, <2>3
    <2>6. k # 2
      <3> SUFFICES ASSUME k = 2 PROVE FALSE
        OBVIOUS
      <3>1. Hit(other, letter, State, at)
        BY <1>11, <1>12, <2>3
      <3> QED
        BY <1>8, <3>1
    <2>7. k = 3 /\ Hits(1) = {} /\ Hits(2) = {}
      BY <1>10, <2>4, <2>5, <2>6
    <2>8. PICK h \in Listing : h.letter = letter /\ h # at
      BY <1>12
    <2>9. CASE h.dir = at.dir
      <3>1. Hit(mine, letter, State, h)
        BY <1>8, <2>8, <2>9
      <3>2. h \in Hits(k)
        BY <1>6, <2>3, <2>7, <2>8, <3>1
      <3>3. Less(at, h)
        BY <1>10, <1>12, <2>8, <3>2
      <3>4. Hit("FIND_NEXT", letter, State, h)
        BY <1>8, <2>8, <2>9, <3>3
      <3>5. h \in Hits(1)
        BY <1>6, <2>3, <2>8, <3>4
      <3> QED
        BY <2>7, <3>5
    <2>10. CASE h.dir # at.dir
      <3>1. Hit(other, letter, State, h)
        BY <1>2, <1>8, <2>8, <2>10
      <3>2. h \in Hits(2)
        BY <1>6, <2>3, <2>8, <3>1
      <3> QED
        BY <2>7, <3>2
    <2> QED
      BY <2>9, <2>10
  <1>13. (\E e, g \in {h \in Listing : h.letter = letter} : e # g) => c.win[1] # at
    BY <1>12
  <1> QED
    BY <1>11, <1>13 DEF at

-----------------------------------------------------------------------------
\* Every key leaves a sound window.

LEMMA InitSound == ASSUME SelectorInit PROVE SelectorSound
  <1>1. State.known = FALSE
    BY StateIs DEF SelectorInit
  <1> QED
    BY <1>1 DEF SelectorSound, Sound, SelectorInit

\* One scan of the directory that is shown.
LEMMA ScanSound ==
  ASSUME LettersInOrder, SelectorSound, NEW k, NEW letter \in Letters \cup {0}, k = "letter" => letter \in Letters,
         NEW f, Scan(k, letter, f), UNCHANGED fs_pFileExt
  PROVE  Sound(State, fs_pFileExt)'
  <1> DEFINE m == ReadBy(iCurrentDirectory, 1, f)
             ext == fs_pFileExt
  <1>1. IsScan(State) /\ Sound(State, ext) /\ ext' = ext
    BY StateIs DEF SelectorSound
  <1> HIDE DEF m
  <1>2. ASSUME NEW c, Becomes(c), Sound(c, ext)
        PROVE  Sound(State, fs_pFileExt)'
    BY <1>1, <1>2, BecomesSound
  <1>3. CASE Becomes(ScanInit(State, ext, m))
    <2>1. Sound(ScanInit(State, ext, m), ext)
      BY <1>1, ScanInitSound
    <2> QED
      BY <1>2, <1>3, <2>1
  <1>4. CASE Becomes(ScanPrevPage(State, ext, m))
    <2>1. Sound(ScanPrevPage(State, ext, m), ext)
      BY <1>1, ScanPrevPageSound
    <2> QED
      BY <1>2, <1>4, <2>1
  <1>5. CASE Becomes(ScanNextPage(State, ext, m))
    <2>1. Sound(ScanNextPage(State, ext, m), ext)
      BY <1>1, ScanNextPageSound
    <2> QED
      BY <1>2, <1>5, <2>1
  <1>6. CASE Becomes(ScanNext(State, ext, m))
    <2>1. Sound(ScanNext(State, ext, m), ext)
      BY <1>1, ScanNextSound
    <2> QED
      BY <1>2, <1>6, <2>1
  <1>7. CASE Becomes(ScanPrev(State, ext, m))
    <2>1. Sound(ScanPrev(State, ext, m), ext)
      BY <1>1, ScanPrevSound
    <2> QED
      BY <1>2, <1>7, <2>1
  <1>8. CASE Back(f)
    <2>1. CASE UNCHANGED view
      BY <1>1, <2>1, StaySound
    <2>2. CASE ~UNCHANGED view
      <3> DEFINE b == ScanInit(State, ext, m)
                 up(e) == ChangeDirectory(b, e.cluster)
                 first(e) == ScanInitFirst(up(e), ext, ReadBy(up(e).cur, 2, f))
      <3>1. PICK e \in Selected(b) :
               Becomes(IF first(e).rc THEN ScanFromFirst(first(e), ext, ReadBy(up(e).cur, 2, f), ReadBy(up(e).cur, 3, f))
                       ELSE first(e))
        BY <1>8, <2>2 DEF Back, m
      <3>2. IsScan(b)
        BY <1>1, ScanInitSound
      <3> DEFINE k2 == ReadBy(up(e).cur, 2, f)
                 k3 == ReadBy(up(e).cur, 3, f)
      <3> HIDE DEF b, k2, k3
      <3>3. LET u == ChangeDirectory(b, e.cluster)
                g == ScanInitFirst(u, ext, k2)
                h == ScanFromFirst(g, ext, k2, k3)
            IN  Sound(g, ext) /\ (g.rc => Sound(h, ext))
        BY <3>2, ParentSound DEF Opened, Reopened
      <3>4. Becomes(IF first(e).rc THEN ScanFromFirst(first(e), ext, k2, k3) ELSE first(e))
        BY <3>1 DEF k2, k3
      <3>5. first(e) = ScanInitFirst(ChangeDirectory(b, e.cluster), ext, k2)
        BY DEF k2
      <3> DEFINE g == first(e)
                 h == ScanFromFirst(g, ext, k2, k3)
      <3>6. Sound(g, ext) /\ (g.rc => Sound(h, ext))
        BY <3>3, <3>5
      <3>7. Becomes(IF g.rc THEN h ELSE g)
        BY <3>4
      <3> HIDE DEF g, h
      <3> QED
        BY <1>2, <3>6, <3>7
    <2> QED
      BY <2>1, <2>2
  <1>9. CASE k = "letter" /\ Letter(letter, f)
    <2>1. CASE win = <<>> /\ UNCHANGED view
      BY <1>1, <2>1, StaySound
    <2>2. CASE win # <<>> /\ Becomes(Searched(letter, f))
      <3>1. letter \in Letters
        BY <1>9
      <3>2. Sound(Searched(letter, f), ext)
        BY <2>2, <3>1, SearchedIs
      <3> QED
        BY <1>2, <2>2, <3>2
    <2> QED
      BY <1>9, <2>1, <2>2, LetterIs
  <1> QED
    BY <1>3, <1>4, <1>5, <1>6, <1>7, <1>8, <1>9 DEF Scan, m

LEMMA EnterSound ==
  ASSUME NEW e, NEW f, Enter(e, f), UNCHANGED fs_pFileExt
  PROVE  Sound(State, fs_pFileExt)'
  <1> DEFINE ext == fs_pFileExt
             b == ChangeDirectory(State, e.cluster)
             k1 == ReadBy(b.cur, 1, f)
             k2 == ReadBy(b.cur, 2, f)
             g == ScanInitFirst(b, ext, k1)
             h == ScanFromFirst(g, ext, k1, k2)
  <1>1. IsScan(State) /\ ext' = ext
    BY StateIs
  <1>2. Becomes(IF ~e.up THEN ScanInit(b, ext, k1) ELSE IF g.rc THEN h ELSE ScanInit(g, ext, k2))
    BY DEF Enter
  <1>3. IsScan(b)
    BY <1>1, ChangeDirectoryIs
  <1> HIDE DEF k1, k2
  <1>4. IsScan(g) /\ (g.rc => Sound(h, ext))
    BY <1>1, ParentSound DEF Opened, Reopened
  <1> HIDE DEF b, g, h
  <1>5. Sound(ScanInit(b, ext, k1), ext)
    BY <1>3, ScanInitSound
  <1>6. Sound(ScanInit(g, ext, k2), ext)
    BY <1>4, ScanInitSound
  <1>7. ASSUME NEW c, Becomes(c), Sound(c, ext)
        PROVE  Sound(State, fs_pFileExt)'
    BY <1>1, <1>7, BecomesSound
  <1>8. CASE ~e.up
    BY <1>2, <1>5, <1>7, <1>8
  <1>9. CASE e.up /\ g.rc
    BY <1>2, <1>4, <1>7, <1>9
  <1>10. CASE e.up /\ ~g.rc
    BY <1>2, <1>6, <1>7, <1>10
  <1> QED
    BY <1>8, <1>9, <1>10

LEMMA FaultyNat == ASSUME SelectorSound, NEW f, Faulty(f) PROVE faults' \in Nat
  BY DEF SelectorSound, Faulty

LEMMA StepSound ==
  ASSUME LettersInOrder, SelectorSound, [SelectorNext]_SelectorVars
  PROVE  SelectorSound'
  <1> SUFFICES Sound(State, fs_pFileExt)' /\ faults' \in Nat
    BY DEF SelectorSound
  <1>1. Sound(State, fs_pFileExt) /\ faults \in Nat
    BY DEF SelectorSound
  <1>2. ASSUME NEW k \in ScanKeys, NEW f \in Faults, Scan(k[1], k[2], f), Faulty(f), UNCHANGED fs_pFileExt
        PROVE  Sound(State, fs_pFileExt)' /\ faults' \in Nat
    <2>1. k[2] \in Letters \cup {0} /\ (k[1] = "letter" => k[2] \in Letters)
      BY DEF ScanKeys
    <2> QED
      BY <1>2, <2>1, ScanSound, FaultyNat
  <1>3. ASSUME NEW e, NEW f \in Faults, Enter(e, f), Faulty(f), UNCHANGED fs_pFileExt
        PROVE  Sound(State, fs_pFileExt)' /\ faults' \in Nat
    BY <1>3, EnterSound, FaultyNat
  <1>4. CASE UNCHANGED <<view, faults, fs_pFileExt>>
    BY <1>1, <1>4, StaySound
  <1>5. CASE FileSelect2
    BY <1>2, <1>3, <1>4, <1>5 DEF FileSelect2
  <1>6. ASSUME NEW ext \in Extensions, SelectFile(ext)
        PROVE  Sound(State, fs_pFileExt)' /\ faults' \in Nat
    <2>1. CASE ext = fs_pFileExt
      BY <1>4, <1>6, <2>1 DEF SelectFile
    <2>2. CASE ext # fs_pFileExt
      <3>1. PICK f \in Faults : /\ Becomes(ScanInit(ChangeDirectory(State, 0), ext, ReadBy(0, 1, f)))
                                /\ Faulty(f)
        BY <1>6, <2>2 DEF SelectFile
      <3>2. IsScan(ChangeDirectory(State, 0))
        BY StateIs, ChangeDirectoryIs
      <3> DEFINE c == ScanInit(ChangeDirectory(State, 0), ext, ReadBy(0, 1, f))
      <3>3. Sound(c, ext)
        BY <3>2, ScanInitSound
      <3>4. fs_pFileExt' = ext
        BY <1>6 DEF SelectFile
      <3>5. Becomes(c)
        BY <3>1
      <3> HIDE DEF c
      <3>6. Sound(State, fs_pFileExt)'
        BY <3>3, <3>4, <3>5, BecomesSound
      <3> QED
        BY <3>1, <3>6, FaultyNat
    <2> QED
      BY <2>1, <2>2
  <1>7. CASE Elsewhere
    <2> DEFINE c == ChangeDirectory(State, 0)
    <2>1. c.known = FALSE
      BY StateIs, ChangeDirectoryIs
    <2>2. Becomes(c) /\ faults' = faults
      BY <1>7 DEF Elsewhere
    <2> HIDE DEF c
    <2>3. Sound(c, fs_pFileExt')
      BY <2>1 DEF Sound
    <2> QED
      BY <1>1, <2>2, <2>3, BecomesSound
  <1>8. CASE UNCHANGED SelectorVars
    BY <1>4, <1>8 DEF SelectorVars
  <1> QED
    BY <1>5, <1>6, <1>7, <1>8 DEF SelectorNext

\* What the scans of the selector leave, over all keys, extensions and failing reads: a
\* window is right, or no longer known to be.
THEOREM SelectorInvariant ==
  ASSUME LettersInOrder
  PROVE  SelectorSpec => []SelectorSound
  <1>1. SelectorInit => SelectorSound
    BY InitSound
  <1>2. SelectorSound /\ [SelectorNext]_SelectorVars => SelectorSound'
    BY StepSound
  <1> QED
    BY <1>1, <1>2, PTL DEF SelectorSpec

\* While no read of the card has failed since the directory was last read from its start,
\* the window that ScanDirectory leaves is a gapless part of the sorted directory, short
\* only at its end (fat.c:1086-1375): for directories of any size and any number of keys.
THEOREM WindowShowsListing ==
  ASSUME LettersInOrder
  PROVE  SelectorSpec => []WindowOfListing
  <1>1. SelectorSound => WindowOfListing
    <2> SUFFICES ASSUME SelectorSound, known PROVE Shows(win, sel, Listing)
      BY DEF WindowOfListing
    <2>1. CASE win = <<>>
      BY <2>1, SelectedListed DEF Shows
    <2>2. CASE win # <<>>
      <3>1. View(win, sel, State, fs_pFileExt)
        BY <2>2, SelectedListed
      <3> QED
        BY <3>1, StateIs DEF View, Listing
    <2> QED
      BY <2>1, <2>2
  <1> QED
    BY <1>1, SelectorInvariant, PTL

\* In directories sorted by their first letters, a letter key finds an entry that begins
\* with it, if there is one, and pressed again another (menu.c, MENU_FILE_SELECT2).
THEOREM LettersAreFound ==
  ASSUME LettersInOrder
  PROVE  SelectorSpec => LettersFind
  <1> DEFINE Finds == known /\ faults' = faults /\ key'[1] = "letter" /\ menustate = "FILE_SELECT2" =>
                         LET hits == {e \in Listing : e.letter = key'[2]}
                         IN  hits # {} => /\ win'[sel'].letter = key'[2]
                                          /\ (\E e, f \in hits : e # f) => win'[sel'] # win[sel]
  <1>1. SelectorSound /\ [SelectorNext]_SelectorVars => [Finds]_SelectorVars
    <2> DEFINE hits == {e \in Listing : e.letter = key'[2]}
    <2> SUFFICES ASSUME SelectorSound, SelectorNext, known, faults' = faults, key'[1] = "letter",
                        menustate = "FILE_SELECT2", hits # {}
                 PROVE  /\ win'[sel'].letter = key'[2]
                        /\ (\E e, f \in hits : e # f) => win'[sel'] # win[sel]
      OBVIOUS
    <2>1. FileSelect2
      BY DEF SelectorNext, SelectFile, Elsewhere
    <2>2. PICK k \in ScanKeys, f \in Faults : Scan(k[1], k[2], f) /\ Faulty(f) /\ key' = k
      BY <2>1 DEF FileSelect2
    <2>3. k[1] = "letter" /\ k[2] \in Letters /\ key'[2] = k[2]
      BY <2>2 DEF ScanKeys
    <2>4. f = NoFault
      BY <2>2 DEF Faulty, SelectorSound
    <2>5. Letter(k[2], NoFault)
      BY <2>2, <2>3, <2>4 DEF Scan
    <2>6. hits = {e \in Listing : e.letter = k[2]}
      BY <2>3
    <2>7. win # <<>>
      BY SelectedListed
    <2>8. Becomes(Searched(k[2], NoFault))
      BY <2>5, <2>7, LetterIs
    <2> QED
      BY <2>3, <2>6, <2>7, <2>8, LetterFinds
  <1> QED
    BY <1>1, SelectorInvariant, PTL DEF SelectorSpec, LettersFind

-----------------------------------------------------------------------------
\* Where the cursor is

\* The entries of a sequence are finitely many, and no more than its length.
LEMMA RangeFinite ==
  ASSUME NEW S, NEW w \in Seq(S)
  PROVE  IsFiniteSet(Range(w)) /\ Cardinality(Range(w)) <= Len(w)
  <1>1. Len(w) \in Nat /\ DOMAIN w = 1..Len(w)
    OBVIOUS
  <1>2. IsFiniteSet(1..Len(w)) /\ Cardinality(1..Len(w)) = Len(w)
    <2>1. /\ IsFiniteSet(1..Len(w))
          /\ Cardinality(1..Len(w)) = IF 1 > Len(w) THEN 0 ELSE Len(w) - 1 + 1
      BY <1>1, FS_Interval, SMTT(30)
    <2> QED
      BY <1>1, <2>1
  <1>3. w \in Surjection(1..Len(w), Range(w))
    <2>1. w \in [1..Len(w) -> Range(w)]
      <3>1. w = [i \in 1..Len(w) |-> w[i]]
        BY <1>1
      <3>2. \A i \in 1..Len(w) : w[i] \in Range(w)
        BY <1>1 DEF Range
      <3> QED
        BY <3>1, <3>2
    <2>2. \A t \in Range(w) : \E i \in 1..Len(w) : w[i] = t
      BY <1>1 DEF Range
    <2> QED
      BY <2>1, <2>2 DEF Surjection
  <1> QED
    BY <1>1, <1>2, <1>3, FS_Surjection

LEMMA ListedFinite ==
  ASSUME NEW d \in DOMAIN Dirs, NEW L \in SUBSET Range(Dirs[d])
  PROVE  IsFiniteSet(L) /\ Cardinality(L) \in Nat
  <1>1. Dirs[d] \in Seq(Range(Dirs[d]))
    BY DirectoryAssumption
  <1>2. IsFiniteSet(Range(Dirs[d]))
    BY <1>1, RangeFinite
  <1> QED
    BY <1>2, FS_Subset, FS_CardinalityType

\* The entries up to s, and how many they are.
UpTo(s, L) == {e \in L : ~Less(s, e)}
Rank(s, L) == Cardinality(UpTo(s, L))

\* From s to a later entry t the rank grows by the entries after s up to t.
LEMMA RankApart ==
  ASSUME NEW d \in DOMAIN Dirs, NEW L \in SUBSET Range(Dirs[d]), NEW s \in L, NEW t \in L, Less(s, t)
  PROVE  LET B == {e \in L : Less(s, e) /\ ~Less(t, e)} IN
         /\ IsFiniteSet(B) /\ Cardinality(B) \in Nat /\ Cardinality(B) >= 1 /\ t \in B
         /\ Rank(t, L) = Rank(s, L) + Cardinality(B)
         /\ Rank(s, L) \in Nat /\ Rank(t, L) \in Nat
  <1> DEFINE B == {e \in L : Less(s, e) /\ ~Less(t, e)}
  <1>1. /\ \A e \in L : ~Less(e, e)
        /\ \A e, f, g \in L : Less(e, f) /\ Less(f, g) => Less(e, g)
    BY Ordered
  <1>2. UpTo(t, L) = UpTo(s, L) \cup B
    BY <1>1 DEF UpTo
  <1>3. UpTo(s, L) \cap B = {}
    BY DEF UpTo
  <1>4. /\ IsFiniteSet(UpTo(s, L)) /\ Cardinality(UpTo(s, L)) \in Nat
        /\ IsFiniteSet(B) /\ Cardinality(B) \in Nat
        /\ Cardinality(UpTo(t, L)) \in Nat
    <2>1. UpTo(s, L) \subseteq Range(Dirs[d]) /\ B \subseteq Range(Dirs[d]) /\ UpTo(t, L) \subseteq Range(Dirs[d])
      BY DEF UpTo
    <2> HIDE DEF B
    <2> QED
      BY <2>1, ListedFinite
  <1>5. t \in B
    BY <1>1
  <1> HIDE DEF B
  <1>6. Cardinality(UpTo(s, L) \cup B) = Cardinality(UpTo(s, L)) + Cardinality(B) - Cardinality(UpTo(s, L) \cap B)
    BY <1>4, FS_Union
  <1>7. Cardinality(UpTo(s, L) \cap B) = 0
    BY <1>3, FS_EmptySet
  <1>8. Cardinality(B) # 0
    BY <1>4, <1>5, FS_EmptySet
  <1>9. Rank(t, L) = Rank(s, L) + Cardinality(B)
    BY <1>2, <1>4, <1>6, <1>7 DEF Rank
  <1> QED
    BY <1>4, <1>5, <1>8, <1>9 DEF B, Rank

\* The rank of an entry, of the last and of the first.
LEMMA RankIs ==
  ASSUME NEW d \in DOMAIN Dirs, NEW L \in SUBSET Range(Dirs[d]), NEW s \in L
  PROVE  /\ Rank(s, L) \in Nat /\ Cardinality(L) \in Nat /\ Rank(s, L) >= 1 /\ Rank(s, L) <= Cardinality(L)
         /\ (\A e \in L : ~Less(s, e)) => Rank(s, L) = Cardinality(L)
         /\ (\A e \in L : ~Less(e, s)) => Rank(s, L) = 1
  <1>1. /\ \A e \in L : ~Less(e, e)
        /\ \A e, f \in L : e = f \/ Less(e, f) \/ Less(f, e)
    BY Ordered
  <1>2. IsFiniteSet(L) /\ Cardinality(L) \in Nat
    BY ListedFinite
  <1>3. UpTo(s, L) \subseteq L /\ s \in UpTo(s, L)
    BY <1>1 DEF UpTo
  <1>4. IsFiniteSet(UpTo(s, L)) /\ Cardinality(UpTo(s, L)) <= Cardinality(L) /\ Cardinality(UpTo(s, L)) \in Nat
    BY <1>2, <1>3, FS_Subset, FS_CardinalityType
  <1>5. Cardinality(UpTo(s, L)) # 0
    BY <1>3, <1>4, FS_EmptySet
  <1>6. (\A e \in L : ~Less(s, e)) => UpTo(s, L) = L
    BY DEF UpTo
  <1>7. (\A e \in L : ~Less(e, s)) => UpTo(s, L) = {s}
    BY <1>1, <1>3 DEF UpTo
  <1>8. Cardinality({s}) = 1
    BY FS_Singleton
  <1> QED
    BY <1>2, <1>4, <1>5, <1>6, <1>7, <1>8 DEF Rank

\* One step down or up.
LEMMA NeighbourRank ==
  ASSUME NEW d \in DOMAIN Dirs, NEW L \in SUBSET Range(Dirs[d]), NEW s \in L, NEW t \in L
  PROVE  LET at == Rank(s, L)
             to == Rank(t, L)
             all == Cardinality(L) IN
         /\ Neighbour(s, t, L, FALSE) => to = Min({at + 1, all})
         /\ Neighbour(s, t, L, TRUE) => to = Max({at - 1, Min({1, all})})
  <1> DEFINE at == Rank(s, L)
             to == Rank(t, L)
             all == Cardinality(L)
  <1>1. /\ \A e \in L : ~Less(e, e)
        /\ \A e, f \in L : e = f \/ Less(e, f) \/ Less(f, e)
        /\ \A e, f, g \in L : Less(e, f) /\ Less(f, g) => Less(e, g)
    BY Ordered
  <1>2. /\ at \in Nat /\ to \in Nat /\ all \in Nat /\ at >= 1 /\ to >= 1 /\ at <= all /\ to <= all
        /\ (\A e \in L : ~Less(s, e)) => at = all
        /\ (\A e \in L : ~Less(e, s)) => at = 1
    BY RankIs
  <1> HIDE DEF at, to, all
  <1>3. Min({at + 1, all}) = (IF at + 1 <= all THEN at + 1 ELSE all) /\ Min({1, all}) = 1
    BY <1>2, MinIs
  <1>4. Max({at - 1, Min({1, all})}) = IF at - 1 <= 1 THEN 1 ELSE at - 1
    <2>1. Max({at - 1, 1}) = IF at - 1 <= 1 THEN 1 ELSE at - 1
      BY <1>2, MaxIs
    <2> QED
      BY <1>3, <2>1
  <1>5. ASSUME Neighbour(s, t, L, FALSE) PROVE to = Min({at + 1, all})
    <2>1. CASE t = s /\ \A e \in L : ~Less(s, e)
      <3>1. at = all /\ to = at
        BY <1>2, <2>1 DEF at, to
      <3> QED
        BY <1>2, <1>3, <3>1
    <2>2. CASE Less(s, t) /\ \A e \in L : Less(s, e) => e = t \/ Less(t, e)
      <3> DEFINE B == {e \in L : Less(s, e) /\ ~Less(t, e)}
      <3>1. to = at + Cardinality(B)
        BY <2>2, RankApart DEF at, to
      <3>2. B = {t}
        BY <1>1, <2>2
      <3>3. Cardinality(B) = 1
        BY <3>2, FS_Singleton
      <3> HIDE DEF B
      <3> QED
        BY <1>2, <1>3, <3>1, <3>3
    <2> QED
      BY <1>5, <2>1, <2>2 DEF Neighbour, Before
  <1>6. ASSUME Neighbour(s, t, L, TRUE) PROVE to = Max({at - 1, Min({1, all})})
    <2>1. CASE t = s /\ \A e \in L : ~Less(e, s)
      <3>1. at = 1 /\ to = at
        BY <1>2, <2>1 DEF at, to
      <3> QED
        BY <1>2, <1>4, <3>1
    <2>2. CASE Less(t, s) /\ \A e \in L : Less(e, s) => e = t \/ Less(e, t)
      <3> DEFINE B == {e \in L : Less(t, e) /\ ~Less(s, e)}
      <3>1. at = to + Cardinality(B)
        BY <2>2, RankApart DEF at, to
      <3>2. B = {s}
        BY <1>1, <2>2
      <3>3. Cardinality(B) = 1
        BY <3>2, FS_Singleton
      <3> HIDE DEF B
      <3> QED
        BY <1>2, <1>4, <3>1, <3>3
    <2> QED
      BY <1>6, <2>1, <2>2 DEF Neighbour, Before
  <1> QED
    BY <1>5, <1>6 DEF at, to, all

\* A page passes over at most a windowful.
LEMMA PagedRank ==
  ASSUME NEW d \in DOMAIN Dirs, NEW L \in SUBSET Range(Dirs[d]), NEW s \in L, NEW t \in L
  PROVE  LET at == Rank(s, L)
             to == Rank(t, L)
             all == Cardinality(L) IN
         /\ Paged(s, t, L, FALSE) => to \in at..(at + MAXDIRENTRIES) /\ (to = at => at = all)
         /\ Paged(s, t, L, TRUE) => to \in (at - MAXDIRENTRIES)..at /\ (to = at => at \in {0, 1})
  <1> DEFINE at == Rank(s, L)
             to == Rank(t, L)
             all == Cardinality(L)
  <1>1. /\ \A e \in L : ~Less(e, e)
        /\ \A e, f \in L : e = f \/ Less(e, f) \/ Less(f, e)
        /\ \A e, f, g \in L : Less(e, f) /\ Less(f, g) => Less(e, g)
    BY Ordered
  <1>2. /\ at \in Nat /\ to \in Nat /\ all \in Nat
        /\ (\A e \in L : ~Less(s, e)) => at = all
        /\ (\A e \in L : ~Less(e, s)) => at = 1
    BY RankIs
  <1>3. M \in Nat /\ M = MAXDIRENTRIES
    BY DirectoryAssumption DEF M
  <1> HIDE DEF at, to, all
  <1>4. ASSUME NEW A \in SUBSET L, NEW q1 \in Seq(L), Len(q1) <= M, A \subseteq Range(q1)
        PROVE  IsFiniteSet(A) /\ Cardinality(A) \in Nat /\ Cardinality(A) <= M
    <2>1. IsFiniteSet(Range(q1)) /\ Cardinality(Range(q1)) <= Len(q1) /\ Len(q1) \in Nat
      BY RangeFinite
    <2>2. IsFiniteSet(A) /\ Cardinality(A) <= Cardinality(Range(q1))
      BY <1>4, <2>1, FS_Subset
    <2>3. Cardinality(A) \in Nat /\ Cardinality(Range(q1)) \in Nat
      BY <2>1, <2>2, FS_CardinalityType
    <2> QED
      BY <1>3, <1>4, <2>1, <2>2, <2>3
  <1>5. ASSUME Paged(s, t, L, FALSE)
        PROVE  to \in at..(at + MAXDIRENTRIES) /\ (to = at => at = all)
    <2>1. CASE t = s /\ \A e \in L : ~Less(s, e)
      <3>1. at = all /\ to = at
        BY <1>2, <2>1 DEF at, to
      <3> QED
        BY <1>2, <1>3, <3>1
    <2>2. CASE /\ Less(s, t)
               /\ \E q1 \in Seq(L) : Len(q1) <= M /\ \A e \in L : Less(s, e) /\ ~Less(t, e) => e \in Range(q1)
      <3> DEFINE B == {e \in L : Less(s, e) /\ ~Less(t, e)}
      <3>1. to = at + Cardinality(B) /\ Cardinality(B) \in Nat /\ Cardinality(B) >= 1
        BY <2>2, RankApart DEF at, to
      <3>2. PICK q1 \in Seq(L) : Len(q1) <= M /\ \A e \in L : Less(s, e) /\ ~Less(t, e) => e \in Range(q1)
        BY <2>2
      <3>3. B \subseteq Range(q1) /\ B \in SUBSET L
        BY <3>2
      <3> HIDE DEF B
      <3>4. Cardinality(B) <= M
        BY <1>4, <3>2, <3>3
      <3> QED
        BY <1>2, <1>3, <3>1, <3>4
    <2> QED
      BY <1>5, <2>1, <2>2 DEF Paged, Before
  <1>6. ASSUME Paged(s, t, L, TRUE)
        PROVE  to \in (at - MAXDIRENTRIES)..at /\ (to = at => at \in {0, 1})
    <2>1. CASE t = s /\ \A e \in L : ~Less(e, s)
      <3>1. at = 1 /\ to = at
        BY <1>2, <2>1 DEF at, to
      <3> QED
        BY <1>2, <1>3, <3>1
    <2>2. CASE /\ Less(t, s)
               /\ \E q1 \in Seq(L) : Len(q1) <= M /\ \A e \in L : Less(e, s) /\ ~Less(e, t) => e \in Range(q1)
      <3> DEFINE A == {e \in L : Less(e, s) /\ ~Less(e, t)}
                 B == {e \in L : Less(t, e) /\ ~Less(s, e)}
      <3>1. at = to + Cardinality(B) /\ Cardinality(B) \in Nat /\ Cardinality(B) >= 1
        BY <2>2, RankApart DEF at, to
      <3>2. PICK q1 \in Seq(L) : Len(q1) <= M /\ \A e \in L : Less(e, s) /\ ~Less(e, t) => e \in Range(q1)
        BY <2>2
      <3>3. A \subseteq Range(q1) /\ A \in SUBSET L
        BY <3>2
      <3>4. B = (A \ {t}) \cup {s} /\ t \in A /\ s \notin A
        BY <1>1, <2>2
      <3> HIDE DEF A, B
      <3>5. IsFiniteSet(A) /\ Cardinality(A) \in Nat /\ Cardinality(A) <= M
        BY <1>4, <3>2, <3>3
      <3>6. IsFiniteSet(A \ {t}) /\ Cardinality(A \ {t}) = Cardinality(A) - 1
        BY <3>4, <3>5, FS_RemoveElement
      <3>7. Cardinality((A \ {t}) \cup {s}) = Cardinality(A \ {t}) + 1
        BY <3>4, <3>6, FS_AddElement
      <3>8. Cardinality(B) <= M
        BY <3>4, <3>5, <3>6, <3>7
      <3> QED
        BY <1>2, <1>3, <3>1, <3>8
    <2> QED
      BY <1>6, <2>1, <2>2 DEF Paged, Before
  <1> QED
    BY <1>5, <1>6 DEF at, to, all

\* What a scan of the directory that is shown makes of the position.
LEMMA Moved ==
  ASSUME SelectorSound, known, UNCHANGED fs_pFileExt, NEW c, Becomes(c), c.cur = iCurrentDirectory,
         win = <<>> <=> c.win = <<>>
  PROVE  /\ win = <<>> => Position = 0 /\ Position' = 0 /\ Cardinality(Listing) = 0
         /\ win # <<>> => Position = Rank(win[sel], Listing) /\ Position' = Rank(c.win[c.sel], Listing)
  <1>1. /\ iCurrentDirectory' = iCurrentDirectory /\ win' = c.win /\ sel' = c.sel
    BY DEF Becomes
  <1>2. Listing' = Listing
    BY <1>1 DEF Listing
  <1>3. win = <<>> => Cardinality(Listing) = 0
    BY SelectedListed, FS_EmptySet
  <1>4. Position = IF win = <<>> THEN 0 ELSE Rank(win[sel], Listing)
    BY DEF Position, Rank, UpTo
  <1>5. Position' = IF c.win = <<>> THEN 0 ELSE Cardinality({e \in Listing : ~Less(c.win[c.sel], e)})
    BY <1>1, <1>2 DEF Position
  <1>6. Position' = IF c.win = <<>> THEN 0 ELSE Rank(c.win[c.sel], Listing)
    BY <1>5 DEF Rank, UpTo
  <1> QED
    BY <1>3, <1>4, <1>6

LEMMA StepMoves ==
  ASSUME SelectorSound, known, UNCHANGED fs_pFileExt
  PROVE  LET m == Whole(iCurrentDirectory)
             all == Cardinality(Listing)
             at == Position
             to == Position' IN
         /\ Becomes(ScanNext(State, fs_pFileExt, m)) => to = Min({at + 1, all})
         /\ Becomes(ScanPrev(State, fs_pFileExt, m)) => to = Max({at - 1, Min({1, all})})
         /\ Becomes(ScanNextPage(State, fs_pFileExt, m)) =>
               to \in at..(at + MAXDIRENTRIES) /\ (to = at => at = all)
         /\ Becomes(ScanPrevPage(State, fs_pFileExt, m)) =>
               to \in (at - MAXDIRENTRIES)..at /\ (to = at => at \in {0, 1})
  <1> DEFINE m == Whole(iCurrentDirectory)
             ext == fs_pFileExt
             L == Listing
             all == Cardinality(Listing)
             at == Position
             to == Position'
  <1>1. /\ IsScan(State) /\ Sound(State, ext) /\ State.known /\ State.win = win /\ State.sel = sel
        /\ State.cur = iCurrentDirectory /\ m = Whole(State.cur)
        /\ L = Listed(State.cur, ext)
    BY StateIs DEF SelectorSound, Listing
  <1>2. /\ iCurrentDirectory \in DOMAIN Dirs /\ L \in SUBSET Range(Dirs[iCurrentDirectory])
        /\ win # <<>> => win[sel] \in L
    BY SelectedListed
  <1>3. MAXDIRENTRIES \in Nat
    BY DirectoryAssumption
  <1> HIDE DEF m, L, ext
  <1>4. Min({0 + 1, 0}) = 0 /\ Min({1, 0}) = 0 /\ Max({0 - 1, Min({1, 0})}) = 0
    <2>1. Min({1, 0}) = 0 /\ Max({-1, 0}) = 0
      BY MinIs, MaxIs
    <2>2. 0 + 1 = 1 /\ 0 - 1 = -1
      OBVIOUS
    <2> QED
      BY <2>1, <2>2
  <1> HIDE DEF all, at, to
  <1>5. ASSUME NEW c, Becomes(c), c.cur = State.cur, State.win = <<>> <=> c.win = <<>>
        PROVE  /\ win = <<>> => at = 0 /\ to = 0 /\ all = 0
               /\ win # <<>> => /\ at = Rank(win[sel], L) /\ to = Rank(c.win[c.sel], L)
                                /\ all = Cardinality(L)
    BY <1>1, <1>5, Moved DEF at, to, all, L
  <1>6. ASSUME Becomes(ScanNext(State, ext, m))
        PROVE  to = Min({at + 1, all})
    <2> DEFINE c == ScanNext(State, ext, m)
    <2>1. /\ c.cur = State.cur /\ (State.win = <<>> <=> c.win = <<>>)
          /\ State.win # <<>> => Neighbour(State.win[State.sel], c.win[c.sel], Listed(State.cur, ext), FALSE)
      BY <1>1, ScanNextSound
    <2>2. Becomes(c)
      BY <1>6
    <2> HIDE DEF c
    <2>3. win # <<>> => Neighbour(win[sel], c.win[c.sel], L, FALSE)
      BY <1>1, <2>1
    <2>4. win # <<>> => c.win[c.sel] \in L
      BY <2>3 DEF Neighbour
    <2>5. CASE win = <<>>
      BY <1>4, <1>5, <2>1, <2>2, <2>5
    <2>6. CASE win # <<>>
      BY <1>2, <1>5, <2>1, <2>2, <2>3, <2>4, <2>6, NeighbourRank
    <2> QED
      BY <2>5, <2>6
  <1>7. ASSUME Becomes(ScanPrev(State, ext, m))
        PROVE  to = Max({at - 1, Min({1, all})})
    <2> DEFINE c == ScanPrev(State, ext, m)
    <2>1. /\ c.cur = State.cur /\ (State.win = <<>> <=> c.win = <<>>)
          /\ State.win # <<>> => Neighbour(State.win[State.sel], c.win[c.sel], Listed(State.cur, ext), TRUE)
      BY <1>1, ScanPrevSound
    <2>2. Becomes(c)
      BY <1>7
    <2> HIDE DEF c
    <2>3. win # <<>> => Neighbour(win[sel], c.win[c.sel], L, TRUE)
      BY <1>1, <2>1
    <2>4. win # <<>> => c.win[c.sel] \in L
      BY <2>3 DEF Neighbour
    <2>5. CASE win = <<>>
      BY <1>4, <1>5, <2>1, <2>2, <2>5
    <2>6. CASE win # <<>>
      BY <1>2, <1>5, <2>1, <2>2, <2>3, <2>4, <2>6, NeighbourRank
    <2> QED
      BY <2>5, <2>6
  <1>8. ASSUME Becomes(ScanNextPage(State, ext, m))
        PROVE  to \in at..(at + MAXDIRENTRIES) /\ (to = at => at = all)
    <2> DEFINE c == ScanNextPage(State, ext, m)
    <2>1. /\ c.cur = State.cur /\ (State.win = <<>> <=> c.win = <<>>)
          /\ State.win # <<>> => Paged(State.win[State.sel], c.win[c.sel], Listed(State.cur, ext), FALSE)
      BY <1>1, ScanNextPageSound
    <2>2. Becomes(c)
      BY <1>8
    <2> HIDE DEF c
    <2>3. win # <<>> => Paged(win[sel], c.win[c.sel], L, FALSE)
      BY <1>1, <2>1
    <2>4. win # <<>> => c.win[c.sel] \in L
      BY <2>3 DEF Paged
    <2>5. CASE win = <<>>
      BY <1>3, <1>5, <2>1, <2>2, <2>5
    <2>6. CASE win # <<>>
      <3> DEFINE r0 == Rank(win[sel], L)
                 r1 == Rank(c.win[c.sel], L)
                 cl == Cardinality(L)
      <3>1. r1 \in r0..(r0 + MAXDIRENTRIES) /\ (r1 = r0 => r0 = cl)
        BY <1>2, <2>3, <2>4, <2>6, PagedRank
      <3>2. at = r0 /\ to = r1 /\ all = cl
        BY <1>1, <1>5, <2>1, <2>2, <2>6
      <3> HIDE DEF r0, r1, cl
      <3> QED
        BY <3>1, <3>2
    <2> QED
      BY <2>5, <2>6
  <1>9. ASSUME Becomes(ScanPrevPage(State, ext, m))
        PROVE  to \in (at - MAXDIRENTRIES)..at /\ (to = at => at \in {0, 1})
    <2> DEFINE c == ScanPrevPage(State, ext, m)
    <2>1. /\ c.cur = State.cur /\ (State.win = <<>> <=> c.win = <<>>)
          /\ State.win # <<>> => Paged(State.win[State.sel], c.win[c.sel], Listed(State.cur, ext), TRUE)
      BY <1>1, ScanPrevPageSound
    <2>2. Becomes(c)
      BY <1>9
    <2> HIDE DEF c
    <2>3. win # <<>> => Paged(win[sel], c.win[c.sel], L, TRUE)
      BY <1>1, <2>1
    <2>4. win # <<>> => c.win[c.sel] \in L
      BY <2>3 DEF Paged
    <2>5. CASE win = <<>>
      BY <1>3, <1>5, <2>1, <2>2, <2>5
    <2>6. CASE win # <<>>
      <3> DEFINE r0 == Rank(win[sel], L)
                 r1 == Rank(c.win[c.sel], L)
      <3>1. r1 \in (r0 - MAXDIRENTRIES)..r0 /\ (r1 = r0 => r0 \in {0, 1})
        BY <1>2, <2>3, <2>4, <2>6, PagedRank
      <3>2. at = r0 /\ to = r1
        BY <1>1, <1>5, <2>1, <2>2, <2>6
      <3> HIDE DEF r0, r1
      <3> QED
        BY <3>1, <3>2
    <2> QED
      BY <2>5, <2>6
  <1> QED
    BY <1>6, <1>7, <1>8, <1>9 DEF m, ext, all, at, to

\* A directory that was read in full is shown from its first entry, with the cursor on it.
LEMMA ScanInitTop ==
  ASSUME NEW b, IsScan(b), NEW ext, b.cur \in Folders
  PROVE  LET c == ScanInit(b, ext, Whole(b.cur)) IN
         /\ Listed(b.cur, ext) # {} => c.win # <<>>
         /\ c.win # <<>> => /\ c.sel = 1 /\ c.win[1] \in Listed(b.cur, ext)
                            /\ \A e \in Listed(b.cur, ext) : e = c.win[1] \/ Less(c.win[1], e)
  <1> DEFINE m == Whole(b.cur)
             w == Loop("INIT", 0, b, ext, m.seen).w
             L == Listed(b.cur, ext)
             d == [b EXCEPT !.win = w, !.sel = 1, !.rc = FALSE, !.known = b.cur \in Folders]
  <1>1. /\ IsScan(d) /\ d.cur = b.cur /\ d.win = w /\ d.sel = 1
    BY DEF IsScan, Fields
  <1>2. ScanInit(b, ext, m) = Failed(d, m)
    BY DEF ScanInit
  <1> HIDE DEF d
  <1>3. Failed(d, m) = d /\ b.cur \in DOMAIN Dirs
    BY <1>1, FailedIs, FoldersExist DEF Done
  <1>4. Foremost(w, {e \in Listed(b.cur, ext) : Collects("INIT", 0, b, e)}, "INIT" = "PREV_PAGE")
    BY <1>3, WholeIs, Collected, ZenonT(30) DEF Own
  <1>5. {e \in Listed(b.cur, ext) : Collects("INIT", 0, b, e)} = Listed(b.cur, ext)
    BY DEF Collects
  <1>6. ("INIT" = "PREV_PAGE") = FALSE
    OBVIOUS
  <1>7. L \subseteq Range(Dirs[b.cur])
    BY <1>3, Reading
  <1>8. \A e, f, g \in L : Less(e, f) /\ Less(f, g) => Less(e, g)
    BY <1>3, <1>7, Ordered
  <1> HIDE DEF w, L
  <1>9. Foremost(w, L, FALSE)
    BY <1>4, <1>5, <1>6 DEF L
  <1>10. w # <<>> <=> Len(w) >= 1
    BY <1>9 DEF Foremost
  <1>11. L # {} => w # <<>>
    BY <1>9, <1>10, ForemostEmpty
  <1>12. ASSUME Len(w) >= 1
         PROVE  w[1] \in L /\ \A e \in L : e = w[1] \/ Less(w[1], e)
    <2>1. w \in Seq(L) /\ 1 \in 1..Len(w) /\ Len(w) \in 1..Len(w) /\ DOMAIN w = 1..Len(w)
      BY <1>9, <1>12 DEF Foremost
    <2>2. \A i, j \in 1..Len(w) : i < j => Less(w[i], w[j])
      BY <1>9, <2>1 DEF Foremost, Sorted, Before
    <2>3. \A i \in 1..Len(w) : w[i] \in L /\ (i = 1 \/ 1 < i)
      BY <2>1
    <2>4. ASSUME NEW e \in L, e \in Range(w)
          PROVE  e = w[1] \/ Less(w[1], e)
      <3>1. PICK i \in 1..Len(w) : e = w[i]
        BY <2>1, <2>4 DEF Range
      <3> QED
        BY <2>1, <2>2, <2>3, <3>1
    <2>5. ASSUME NEW e \in L, e \notin Range(w)
          PROVE  e = w[1] \/ Less(w[1], e)
      <3>1. Less(w[Len(w)], e)
        BY <1>9, <2>5 DEF Foremost, Before
      <3>2. w[1] = w[Len(w)] \/ Less(w[1], w[Len(w)])
        BY <2>1, <2>2, <2>3
      <3> QED
        BY <1>8, <2>1, <2>3, <3>1, <3>2
    <2> QED
      BY <2>1, <2>3, <2>4, <2>5
  <1> QED
    BY <1>1, <1>2, <1>3, <1>10, <1>11, <1>12 DEF L, m

\* Without a failing read the parent directory is shown from the directory that was left.
LEMMA LeftIsShown ==
  ASSUME FolderTree, NEW b, IsScan(b), b.win # <<>>, b.cur \in Folders, NEW ext,
         NEW e \in Range(Dirs[b.cur]), e.dir, e.up
  PROVE  LET d == e.cluster
             first == Opened(b, d, ext, Whole(d))
             next == Reopened(b, d, ext, Whole(d), Whole(d)) IN
         first.rc /\ OnLeft(b, d, ext, next) /\ ~next.win[next.sel].up
  <1> DEFINE d == e.cluster
             m == Whole(d)
             first == Opened(b, d, ext, m)
             next == Reopened(b, d, ext, m, m)
  <1>1. b.cur \in DOMAIN Dirs /\ d \in Folders /\ d \in DOMAIN Dirs
    <2>1. b.cur \in DOMAIN Dirs
      BY FoldersExist
    <2>2. e \in Entries
      BY <2>1 DEF Entries
    <2>3. d \in Folders
      BY <2>2 DEF Folders
    <2> QED
      BY <2>1, <2>3, FoldersExist
  <1>2. /\ \E f \in Range(Dirs[d]) : f.cluster = b.cur
        /\ \A f \in Range(Dirs[d]) : f.cluster = b.cur => f.dir /\ ~f.up
    BY DEF FolderTree
  <1>3. PICK f \in Listed(d, ext) : f.cluster = b.cur
    BY <1>2 DEF Listed, Passes
  <1>4. Listed(d, ext) \subseteq Range(Dirs[d])
    BY DEF Listed
  <1> HIDE DEF d, m
  <1>5. /\ first.rc => /\ (m = Whole(d) /\ d \in Folders) => next.known
                       /\ next.known => OnLeft(b, d, ext, next)
        /\ (/\ m = Whole(d) /\ d \in DOMAIN Dirs /\ b.win # <<>>
            /\ \E g \in Listed(d, ext) : g.cluster = b.cur) => first.rc
    BY ParentSound
  <1> HIDE DEF first, next
  <1>6. m = Whole(d)
    BY DEF m
  <1>7. first.rc
    BY <1>1, <1>3, <1>5, <1>6
  <1>8. OnLeft(b, d, ext, next)
    BY <1>1, <1>5, <1>6, <1>7
  <1>9. ~next.win[next.sel].up
    BY <1>2, <1>4, <1>8 DEF OnLeft
  <1> QED
    BY <1>7, <1>8, <1>9 DEF first, next, m, d

\* What KEY_BACK and ".." come to.
AtParent ==
    /\ \E e \in Range(Dirs[iCurrentDirectory]) : e.up /\ e.cluster = iCurrentDirectory'
    /\ win'[sel'].cluster = iCurrentDirectory /\ ~win'[sel'].up

LEMMA BackMoves ==
  ASSUME FolderTree, SelectorSound, known, Back(NoFault), iCurrentDirectory # 0, ParentFirst(iCurrentDirectory)
  PROVE  AtParent
  <1> DEFINE ext == fs_pFileExt
             cur == iCurrentDirectory
             b == ScanInit(State, ext, Whole(cur))
  <1>2. IsScan(State) /\ State.cur = cur /\ cur \in Folders /\ cur \in DOMAIN Dirs
    BY StateIs, SelectedListed
  <1>3. IsScan(b) /\ b.cur = cur
    BY <1>2, ScanInitSound
  <1>4. /\ Listed(cur, ext) # {} => b.win # <<>>
        /\ b.win # <<>> => /\ b.sel = 1 /\ b.win[1] \in Listed(cur, ext)
                           /\ \A e \in Listed(cur, ext) : e = b.win[1] \/ Less(b.win[1], e)
    BY <1>2, ScanInitTop
  <1>5. PICK d0 \in Range(Dirs[cur]) : /\ d0.dir /\ d0.up
                                       /\ \A f \in Range(Dirs[cur]) : f = d0 \/ Less(d0, f)
    BY DEF ParentFirst
  <1>6. d0 \in Listed(cur, ext)
    BY <1>5 DEF Listed, Passes
  <1>7. PICK e \in Selected(b) :
             LET up == ChangeDirectory(b, e.cluster)
                 first == ScanInitFirst(up, ext, Whole(up.cur))
             IN  Becomes(IF first.rc THEN ScanFromFirst(first, ext, Whole(up.cur), Whole(up.cur)) ELSE first)
    BY ReadWhole DEF Back
  <1> HIDE DEF b
  <1>8. b.win # <<>> /\ e = b.win[1] /\ e \in Listed(cur, ext) /\ (d0 = e \/ Less(e, d0))
    BY <1>4, <1>6, <1>7 DEF Selected
  <1>9. e = d0
    <2>1. e \in Range(Dirs[cur])
      BY <1>8 DEF Listed
    <2>2. ~(Less(e, d0) /\ Less(d0, e))
      BY <1>2, <1>5, <2>1, Ordered
    <2> QED
      BY <1>5, <1>8, <2>1, <2>2
  <1>10. e \in Range(Dirs[b.cur]) /\ e.dir /\ e.up
    BY <1>3, <1>5, <1>9
  <1> DEFINE d == e.cluster
             up == ChangeDirectory(b, d)
             first == Opened(b, d, ext, Whole(d))
             next == Reopened(b, d, ext, Whole(d), Whole(d))
  <1>11. up.cur = d
    BY <1>3, ChangeDirectoryIs, ZenonT(30)
  <1>12. first.rc /\ OnLeft(b, d, ext, next) /\ ~next.win[next.sel].up
    BY <1>2, <1>3, <1>8, <1>10, LeftIsShown
  <1>13. Becomes(IF first.rc THEN next ELSE first)
    BY <1>7, <1>11 DEF Opened, Reopened
  <1> HIDE DEF first, next
  <1>14. Becomes(next)
    BY <1>12, <1>13
  <1> QED
    BY <1>3, <1>10, <1>12, <1>14 DEF Becomes, AtParent, OnLeft

LEMMA EnterMoves ==
  ASSUME FolderTree, SelectorSound, known, NEW e \in Selected(State), e.dir, Enter(e, NoFault),
         win # <<>>, win[sel].up
  PROVE  AtParent
  <1> DEFINE ext == fs_pFileExt
             d == e.cluster
             b == ChangeDirectory(State, d)
             first == Opened(State, d, ext, Whole(d))
             next == Reopened(State, d, ext, Whole(d), Whole(d))
  <1>1. IsScan(State) /\ State.win = win /\ State.sel = sel /\ State.cur = iCurrentDirectory
    BY StateIs
  <1>2. e = win[sel] /\ e.up
    BY <1>1 DEF Selected
  <1>3. iCurrentDirectory \in Folders /\ e \in Range(Dirs[iCurrentDirectory])
    BY <1>2, SelectedListed
  <1>4. b.cur = d
    BY <1>1, ChangeDirectoryIs
  <1>5. Becomes(IF ~e.up THEN ScanInit(b, ext, Whole(d))
                ELSE IF first.rc THEN next ELSE ScanInit(first, ext, Whole(d)))
    BY <1>4, ReadWhole DEF Enter, Opened, Reopened
  <1>6. first.rc /\ OnLeft(State, d, ext, next) /\ ~next.win[next.sel].up
    BY <1>1, <1>2, <1>3, LeftIsShown
  <1> HIDE DEF first, next
  <1>7. Becomes(next)
    BY <1>2, <1>5, <1>6
  <1> QED
    BY <1>1, <1>2, <1>3, <1>6, <1>7 DEF Becomes, AtParent, OnLeft

\* From a known window, with no read failing, the cursor goes where the key says; KEY_BACK
\* leads to the parent directory where ".." comes before the other entries, as ParentFirst
\* says, and selecting ".." does wherever it comes (menu.c:1012-1024, 1095-1109).
THEOREM CursorGoesWhereTheKeySays ==
  ASSUME LettersInOrder, FolderTree
  PROVE  SelectorSpec => CursorFollows
  <1> DEFINE Follows ==
        known /\ faults' = faults /\ menustate' = "FILE_SELECT2" /\ menustate = "FILE_SELECT2" =>
        LET all == Cardinality(Listing)
            at == Position
            to == Position'
        IN  /\ key'[1] = "down" => to = Min({at + 1, all})
            /\ key'[1] = "up" => to = Max({at - 1, Min({1, all})})
            /\ key'[1] = "pgdn" => to \in at..(at + MAXDIRENTRIES) /\ (to = at => at = all)
            /\ key'[1] = "pgup" => to \in (at - MAXDIRENTRIES)..at /\ (to = at => at \in {0, 1})
            /\ ToParent(key'[1]) => AtParent
  <1>1. SelectorSound /\ [SelectorNext]_SelectorVars => [Follows]_SelectorVars
    <2> SUFFICES ASSUME SelectorSound, SelectorNext, known, faults' = faults, menustate' = "FILE_SELECT2",
                        menustate = "FILE_SELECT2"
                 PROVE  Follows
      OBVIOUS
    <2>1. FileSelect2 /\ UNCHANGED fs_pFileExt
      BY DEF SelectorNext, SelectFile, Elsewhere, FileSelect2
    <2>2. ASSUME NEW f, Faulty(f) PROVE f = NoFault
      BY <2>2 DEF Faulty, SelectorSound
    <2> HIDE DEF Follows
    <2>3. CASE \E k \in ScanKeys, f \in Faults : Scan(k[1], k[2], f) /\ Faulty(f) /\ key' = k
      <3>1. PICK k \in ScanKeys, f \in Faults : Scan(k[1], k[2], f) /\ Faulty(f) /\ key' = k
        BY <2>3
      <3>2. f = NoFault /\ Scan(k[1], k[2], NoFault) /\ key' = k
        BY <2>2, <3>1
      <3>3. k[1] \in {"home", "pgup", "pgdn", "down", "up", "back", "letter"}
        BY DEF ScanKeys
      <3> DEFINE m == Whole(iCurrentDirectory)
      <3>4. /\ k[1] = "down" => Becomes(ScanNext(State, fs_pFileExt, m))
            /\ k[1] = "up" => Becomes(ScanPrev(State, fs_pFileExt, m))
            /\ k[1] = "pgdn" => Becomes(ScanNextPage(State, fs_pFileExt, m))
            /\ k[1] = "pgup" => Becomes(ScanPrevPage(State, fs_pFileExt, m))
            /\ k[1] = "back" => Back(NoFault)
        BY <3>2, ReadWhole DEF Scan
      <3> DEFINE all == Cardinality(Listing)
                 at == Position
                 to == Position'
      <3>5. /\ Becomes(ScanNext(State, fs_pFileExt, m)) => to = Min({at + 1, all})
            /\ Becomes(ScanPrev(State, fs_pFileExt, m)) => to = Max({at - 1, Min({1, all})})
            /\ Becomes(ScanNextPage(State, fs_pFileExt, m)) =>
                  to \in at..(at + MAXDIRENTRIES) /\ (to = at => at = all)
            /\ Becomes(ScanPrevPage(State, fs_pFileExt, m)) =>
                  to \in (at - MAXDIRENTRIES)..at /\ (to = at => at \in {0, 1})
        BY <2>1, StepMoves
      <3>6. ToParent(k[1]) => AtParent
        BY <3>3, <3>4, BackMoves DEF ToParent
      <3> HIDE DEF m
      <3> QED
        BY <3>2, <3>3, <3>4, <3>5, <3>6 DEF Follows
    <2>4. CASE \E e \in Selected(State), f \in Faults : e.dir /\ Enter(e, f) /\ Faulty(f) /\ key' = <<"select", 0>>
      <3>1. PICK e \in Selected(State), f \in Faults : e.dir /\ Enter(e, f) /\ Faulty(f) /\ key' = <<"select", 0>>
        BY <2>4
      <3>2. f = NoFault /\ Enter(e, NoFault)
        BY <2>2, <3>1
      <3>3. ToParent("select") => AtParent
        BY <3>1, <3>2, EnterMoves DEF ToParent
      <3>4. key'[1] = "select"
        BY <3>1
      <3> QED
        BY <3>3, <3>4 DEF Follows
    <2> QED
      BY <2>1, <2>3, <2>4 DEF FileSelect2
  <1> QED
    BY <1>1, SelectorInvariant, PTL DEF SelectorSpec, CursorFollows, AtParent
=============================================================================
