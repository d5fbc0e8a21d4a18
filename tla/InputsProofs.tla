---------------------------- MODULE InputsProofs ----------------------------
(***************************************************************************)
(* What holds of the two input drivers, for any of the six buttons and any *)
(* number of mice.                                                         *)
(***************************************************************************)
EXTENDS Inputs, TLAPS

-----------------------------------------------------------------------------
(* The input layer *)

Press(dev, code) == input_event(dev, code, TRUE)

Release(dev, code) == input_event(dev, code, FALSE)

\* An event sets or clears its key and leaves the others as they were.
LEMMA PressSets ==
  ASSUME NEW C, NEW dev \in InputDevs(C), NEW code \in C
  PROVE  /\ Press(dev, code) \in InputDevs(C)
         /\ Press(dev, code).key = dev.key \cup {code}
<1>1. dev.key \subseteq C
  BY DEF InputDevs
<1>2. CASE code \in dev.key
  <2>1. Press(dev, code) = dev
    <3>1. (code \in dev.key) = TRUE
      BY <1>2
    <3> QED
      BY <3>1, Zenon DEF Press, input_event
  <2> QED
    BY <1>2, <2>1
<1>3. CASE code \notin dev.key
  <2>1. Press(dev, code) = [key |-> dev.key \cup {code}, rep |-> code]
    BY <1>3, Zenon DEF Press, input_event
  <2>2. dev.key \cup {code} \in SUBSET C
    BY <1>1
  <2>3. [key |-> dev.key \cup {code}, rep |-> code] \in InputDevs(C)
    BY <2>2 DEF InputDevs
  <2>4. [key |-> dev.key \cup {code}, rep |-> code].key = dev.key \cup {code}
    OBVIOUS
  <2> QED
    BY <2>1, <2>3, <2>4, Zenon
<1> QED
  BY <1>2, <1>3

LEMMA ReleaseSets ==
  ASSUME NEW C, NEW dev \in InputDevs(C), NEW code \in C
  PROVE  /\ Release(dev, code) \in InputDevs(C)
         /\ Release(dev, code).key = dev.key \ {code}
<1>1. dev.key \subseteq C
  BY DEF InputDevs
<1>2. CASE code \notin dev.key
  <2>1. Release(dev, code) = dev
    <3>1. (code \in dev.key) = FALSE
      BY <1>2
    <3> QED
      BY <3>1, Zenon DEF Release, input_event
  <2> QED
    BY <1>2, <2>1
<1>3. CASE code \in dev.key
  <2>1. Release(dev, code) = [key |-> dev.key \ {code}, rep |-> NoKey]
    BY <1>3, Zenon DEF Release, input_event
  <2>2. dev.key \ {code} \in SUBSET C
    BY <1>1
  <2>3. [key |-> dev.key \ {code}, rep |-> NoKey] \in InputDevs(C)
    BY <2>2 DEF InputDevs
  <2>4. [key |-> dev.key \ {code}, rep |-> NoKey].key = dev.key \ {code}
    OBVIOUS
  <2> QED
    BY <2>1, <2>3, <2>4, Zenon
<1> QED
  BY <1>2, <1>3

-----------------------------------------------------------------------------
(***************************************************************************)
(* The buttons.  A button is outstanding from its edge to its report.      *)
(* While no two ever were at once, it is the one that its code listens to, *)
(* and every other key is as its button.                                   *)
(***************************************************************************)

Outstanding(k) == edge[k] \/ (buttons_timer /\ irq_pd = k)

KeyIsTrue(c) == c \in buttons_dev.key <=> last[c] # 0 /\ ~pinval[last[c]]

Keyed == \A c \in Codes : last[c] # 0 => pin_desc[last[c]] = c

OneMoves ==
  ~overlap => /\ \A j, k \in Pins : Outstanding(j) /\ Outstanding(k) => j = k
              /\ \A k \in Pins : Outstanding(k) => last[pin_desc[k]] = k
              /\ \A c \in Codes : last[c] = 0 \/ ~Outstanding(last[c]) => KeyIsTrue(c)

SubInv == SubTypeOK /\ Keyed /\ OneMoves

LEMMA PinFacts ==
  ASSUME NEW k \in Pins PROVE pin_desc[k] \in Codes /\ k # 0 /\ 0 \notin Pins
BY PinsAssumption DEF Codes

LEMMA SubInitially == SubInit => SubInv
<1> SUFFICES ASSUME SubInit PROVE SubInv
  OBVIOUS
<1>1. NewDev \in InputDevs(Codes) /\ NewDev.key = {}
  BY DEF NewDev, InputDevs
<1>2. SubTypeOK
  BY <1>1 DEF SubInit, SubTypeOK
<1>3. \A k \in Pins : ~Outstanding(k)
  BY PinFacts DEF SubInit, Outstanding
<1> QED
  BY <1>1, <1>2, <1>3 DEF SubInit, SubInv, Keyed, OneMoves, KeyIsTrue

LEMMA IrqSub ==
  ASSUME SubInv, NEW k \in Pins, buttons_irq(k) PROVE SubInv'
<1>1. SubTypeOK'
  BY DEF SubInv, SubTypeOK, buttons_irq
<1>2. UNCHANGED <<pinval, buttons_dev, last, overlap>> /\ Outstanding(k)
  BY DEF buttons_irq, Outstanding
<1>3. \A j \in Pins : Outstanding(j)' => j = k \/ Outstanding(j)
  BY DEF buttons_irq, Outstanding, SubInv, SubTypeOK
<1>4. Outstanding(k)'
  BY DEF buttons_irq, Outstanding
<1>5. ASSUME ~overlap, NEW c \in Codes, last[c] = 0 \/ ~Outstanding(last[c])' PROVE KeyIsTrue(c)
  <2>1. last[c] = 0 \/ ~Outstanding(last[c])
    <3>1. last[c] = 0 \/ last[c] \in Pins
      BY DEF SubInv, SubTypeOK
    <3> QED
      BY <1>2, <1>4, <1>5, <3>1 DEF SubInv, OneMoves
  <2> QED
    BY <1>5, <2>1 DEF SubInv, OneMoves
<1> QED
  BY <1>1, <1>2, <1>3, <1>5 DEF SubInv, Keyed, OneMoves, KeyIsTrue

LEMMA TimerSub == SubInv /\ buttons_timerout_function => SubInv'
<1> SUFFICES ASSUME SubInv, buttons_timerout_function PROVE SubInv'
  OBVIOUS
<1>1. UNCHANGED <<pinval, edge, irq_pd, last, overlap>> /\ buttons_timer /\ buttons_timer' = FALSE
  BY DEF buttons_timerout_function
<1>2. \A k \in Pins : Outstanding(k)' => Outstanding(k)
  BY <1>1 DEF Outstanding
<1>3. CASE irq_pd = 0
  <2>1. UNCHANGED buttons_dev
    BY <1>3 DEF buttons_timerout_function
  <2>2. \A k \in Pins : Outstanding(k)' <=> Outstanding(k)
    BY <1>1, <1>3, PinFacts DEF Outstanding
  <2>3. \A c \in Codes : last[c] = 0 \/ last[c] \in Pins
    BY DEF SubInv, SubTypeOK
  <2> QED
    BY <1>1, <2>1, <2>2, <2>3 DEF SubInv, SubTypeOK, Keyed, OneMoves, KeyIsTrue
<1>4. CASE irq_pd # 0
  <2> DEFINE code == pin_desc[irq_pd]
  <2>1. irq_pd \in Pins /\ code \in Codes /\ buttons_dev \in InputDevs(Codes) /\ pinval[irq_pd] \in BOOLEAN
    BY <1>4, PinFacts DEF SubInv, SubTypeOK
  <2>3. /\ buttons_dev' \in InputDevs(Codes)
        /\ \A c \in Codes : c \in buttons_dev'.key <=>
             IF c = code THEN ~pinval[irq_pd] ELSE c \in buttons_dev.key
    <3>1. CASE pinval[irq_pd]
      <4>1. (~pinval[irq_pd]) = FALSE
        BY <3>1
      <4>2. buttons_dev' = Release(buttons_dev, code)
        BY <1>4, <4>1, Zenon DEF buttons_timerout_function, Release
      <4>3. /\ Release(buttons_dev, code) \in InputDevs(Codes)
            /\ Release(buttons_dev, code).key = buttons_dev.key \ {code}
        BY <2>1, ReleaseSets
      <4>4. buttons_dev' \in InputDevs(Codes) /\ buttons_dev'.key = buttons_dev.key \ {code}
        BY <4>2, <4>3, Zenon
      <4> QED
        BY <3>1, <4>4
    <3>2. CASE ~pinval[irq_pd]
      <4>1. (~pinval[irq_pd]) = TRUE
        BY <3>2
      <4>2. buttons_dev' = Press(buttons_dev, code)
        BY <1>4, <4>1, Zenon DEF buttons_timerout_function, Press
      <4>3. /\ Press(buttons_dev, code) \in InputDevs(Codes)
            /\ Press(buttons_dev, code).key = buttons_dev.key \cup {code}
        BY <2>1, PressSets
      <4>4. buttons_dev' \in InputDevs(Codes) /\ buttons_dev'.key = buttons_dev.key \cup {code}
        BY <4>2, <4>3, Zenon
      <4> QED
        BY <3>2, <4>4
    <3> QED
      BY <3>1, <3>2
  <2>4. Outstanding(irq_pd)
    BY <1>1 DEF Outstanding
  <2>5. ASSUME ~overlap, NEW c \in Codes, last[c] = 0 \/ ~Outstanding(last[c])' PROVE KeyIsTrue(c)'
    <3>1. CASE c = code
      BY <1>1, <1>4, <2>1, <2>3, <2>4, <2>5, <3>1 DEF SubInv, OneMoves, KeyIsTrue
    <3>2. CASE c # code
      <4>1. last[c] = 0 \/ (last[c] \in Pins /\ last[c] # irq_pd)
        BY <3>2 DEF SubInv, SubTypeOK, Keyed
      <4>2. last[c] = 0 \/ ~Outstanding(last[c])
        BY <2>1, <2>4, <2>5, <4>1 DEF SubInv, OneMoves
      <4> QED
        BY <1>1, <2>3, <2>5, <3>2, <4>2 DEF SubInv, OneMoves, KeyIsTrue
    <3> QED
      BY <3>1, <3>2
  <2> QED
    BY <1>1, <1>2, <2>3, <2>5 DEF SubInv, SubTypeOK, Keyed, OneMoves
<1> QED
  BY <1>3, <1>4

LEMMA MoveSub ==
  ASSUME SubInv, NEW k \in Pins, Move(k) PROVE SubInv'
<1>1. /\ pinval' = [pinval EXCEPT ![k] = ~@] /\ edge' = [edge EXCEPT ![k] = TRUE]
      /\ last' = [last EXCEPT ![pin_desc[k]] = k]
      /\ UNCHANGED <<irq_pd, buttons_timer, buttons_dev>>
  BY DEF Move
<1>2. pin_desc[k] \in Codes
  BY PinFacts
<1>3. SubTypeOK'
  BY <1>1, <1>2 DEF SubInv, SubTypeOK, Move
<1>4. Keyed'
  BY <1>1, <1>2 DEF SubInv, SubTypeOK, Keyed
<1>5. ASSUME ~overlap' PROVE ~overlap /\ \A j \in Pins : j # k => ~Outstanding(j) /\ ~Outstanding(j)'
  BY <1>1, <1>5, PinFacts DEF Move, Outstanding, SubInv, SubTypeOK
<1>6. Outstanding(k)'
  BY <1>1 DEF Outstanding, SubInv, SubTypeOK
<1>7. ASSUME ~overlap', NEW c \in Codes, last'[c] = 0 \/ ~Outstanding(last[c])' PROVE KeyIsTrue(c)'
  <2>1. c # pin_desc[k]
    BY <1>1, <1>2, <1>6, <1>7, PinFacts DEF SubInv, SubTypeOK
  <2>2. last'[c] = last[c]
    BY <1>1, <2>1 DEF SubInv, SubTypeOK
  <2>3. last[c] = 0 \/ (last[c] \in Pins /\ last[c] # k)
    BY <2>1 DEF SubInv, SubTypeOK, Keyed
  <2>4. KeyIsTrue(c)
    BY <1>5, <1>7, <2>3 DEF SubInv, OneMoves
  <2>5. last[c] # 0 => pinval'[last[c]] = pinval[last[c]]
    BY <1>1, <2>3 DEF SubInv, SubTypeOK
  <2> QED
    BY <1>1, <2>2, <2>4, <2>5 DEF KeyIsTrue
<1>8. ~overlap' => \A j \in Pins : Outstanding(j)' => last'[pin_desc[j]] = j
  BY <1>1, <1>2, <1>5 DEF SubInv, SubTypeOK
<1> QED
  BY <1>3, <1>4, <1>5, <1>7, <1>8 DEF SubInv, OneMoves

LEMMA SubKeeps == SubInv /\ SubNext => SubInv'
BY IrqSub, TimerSub, MoveSub DEF SubNext

LEMMA SubStutters == SubInv /\ UNCHANGED subvars => SubInv'
BY DEF SubInv, SubTypeOK, Keyed, OneMoves, KeyIsTrue, Outstanding, subvars

LEMMA SubTrue == SubInv => KeysAreTrue
<1> SUFFICES ASSUME SubInv, ~overlap, Settled, NEW c \in Codes PROVE KeyIsTrue(c)
  BY DEF KeysAreTrue, KeyIsTrue
<1>1. last[c] = 0 \/ last[c] \in Pins
  BY DEF SubInv, SubTypeOK
<1>2. last[c] = 0 \/ ~Outstanding(last[c])
  BY <1>1 DEF Settled, Outstanding
<1> QED
  BY <1>2 DEF SubInv, OneMoves

-----------------------------------------------------------------------------
(***************************************************************************)
(* The mice.  An urb that is submitted is that of a mouse that is bound;   *)
(* once the mouse of the globals is gone, its urb is freed.  As long as no *)
(* two mice are bound at once, the globals are those of the mouse that is  *)
(* bound, its urb is submitted or was refused, the keys follow pre_val,    *)
(* and pre_val follows the buffer once the mouse has sent a report.        *)
(***************************************************************************)

KeysOf(buttons) == {KeyOf[b] : b \in buttons}

Plugged == uk = NoMouse => bound = {} /\ \A m \in Mice : urb[m] = "none"

Submitted ==
  /\ \A m \in Mice : urb[m] = "active" => m \in bound
  /\ uk # NoMouse /\ uk \notin bound => urb[uk] = "freed"

OneMouse ==
  ~shared =>
    /\ ~dangling
    /\ \A m \in bound : uk = m /\ (urb[m] = "active" \/ (urb[m] = "idle" /\ refused))
    /\ \A m \in bound :
         /\ ~stale => uk_dev[m].key = KeysOf(pre_val)
         /\ heard /\ ~changed[m] => usb_buf[m] = mouse[m] /\ pre_val = mouse[m]

MouseInv == MouseTypeOK /\ Plugged /\ Submitted /\ OneMouse

MouseDevs == InputDevs(KeysOf(Buttons))

\* one turn of the comparison of the handler
Event(d, b, now) ==
  IF b \in Buttons /\ (b \in pre_val) # (b \in now) THEN input_event(d, KeyOf[b], b \in now) ELSE d

LEMMA KeyFacts ==
  /\ \A b \in Buttons : b \in 0..2 /\ KeyOf[b] \in KeysOf(Buttons)
  /\ \A a, b \in 0..2 : KeyOf[a] = KeyOf[b] => a = b
<1>0. /\ 0 \in 0..2 /\ 1 \in 0..2 /\ 2 \in 0..2
      /\ 0 # 1 /\ 1 # 0 /\ 0 # 2 /\ 2 # 0 /\ 1 # 2 /\ 2 # 1
  OBVIOUS
<1>1. KeyOf[0] = "KEY_L" /\ KeyOf[1] = "KEY_S" /\ KeyOf[2] = "KEY_ENTER"
  BY <1>0, Zenon DEF KeyOf
<1>2. \A b \in Buttons : b \in 0..2
  BY ButtonsAssumption
<1> QED
  BY <1>1, <1>2 DEF KeysOf

\* a turn moves one button's key, if the button moved
LEMMA EventKey ==
  ASSUME NEW d \in MouseDevs, NEW b \in 0..2, NEW now \in Data, pre_val \in Data
  PROVE  /\ Event(d, b, now) \in MouseDevs
         /\ \A a \in Buttons : KeyOf[a] \in Event(d, b, now).key <=>
              IF a = b /\ (b \in pre_val) # (b \in now) THEN b \in now ELSE KeyOf[a] \in d.key
<1>1. CASE b \in Buttons /\ (b \in pre_val) # (b \in now)
  <2>1. KeyOf[b] \in KeysOf(Buttons) /\ \A a \in Buttons : KeyOf[a] = KeyOf[b] => a = b
    BY <1>1, KeyFacts
  <2>2. CASE b \in now
    <3>1. (b \in now) = TRUE
      BY <2>2
    <3>2. Event(d, b, now) = Press(d, KeyOf[b])
      BY <1>1, <3>1, Zenon DEF Event, Press
    <3>3. /\ Press(d, KeyOf[b]) \in MouseDevs
          /\ Press(d, KeyOf[b]).key = d.key \cup {KeyOf[b]}
      BY <2>1, PressSets DEF MouseDevs
    <3>4. Event(d, b, now) \in MouseDevs /\ Event(d, b, now).key = d.key \cup {KeyOf[b]}
      BY <3>2, <3>3, Zenon
    <3> QED
      BY <1>1, <2>1, <2>2, <3>4
  <2>3. CASE b \notin now
    <3>1. (b \in now) = FALSE
      BY <2>3
    <3>2. Event(d, b, now) = Release(d, KeyOf[b])
      BY <1>1, <3>1, Zenon DEF Event, Release
    <3>3. /\ Release(d, KeyOf[b]) \in MouseDevs
          /\ Release(d, KeyOf[b]).key = d.key \ {KeyOf[b]}
      BY <2>1, ReleaseSets DEF MouseDevs
    <3>4. Event(d, b, now) \in MouseDevs /\ Event(d, b, now).key = d.key \ {KeyOf[b]}
      BY <3>2, <3>3, Zenon
    <3> QED
      BY <1>1, <2>1, <2>3, <3>4
  <2> QED
    BY <2>2, <2>3
<1>2. CASE ~(b \in Buttons /\ (b \in pre_val) # (b \in now))
  BY <1>2 DEF Event
<1> QED
  BY <1>1, <1>2

\* The three turns make the keys follow the new report, if they followed the old.
LEMMA ChangesKeys ==
  ASSUME NEW d \in MouseDevs, NEW now \in Data, pre_val \in Data
  PROVE  /\ Changes(d, now) \in MouseDevs
         /\ d.key = KeysOf(pre_val) => Changes(d, now).key = KeysOf(now)
<1> DEFINE d0 == Event(d, 0, now)
           d1 == Event(d0, 1, now)
           d2 == Event(d1, 2, now)
<1>1. Changes(d, now) = d2
  BY DEF Changes, Event
<1>2. 0 \in 0..2 /\ 1 \in 0..2 /\ 2 \in 0..2
  OBVIOUS
<1>3. d0 \in MouseDevs
  BY <1>2, EventKey
<1>4. d1 \in MouseDevs
  BY <1>2, <1>3, EventKey
<1>5. d2 \in MouseDevs
  BY <1>2, <1>4, EventKey
<1>6. ASSUME d.key = KeysOf(pre_val) PROVE d2.key = KeysOf(now)
  <2>1. pre_val \subseteq Buttons /\ now \subseteq Buttons /\ d2.key \subseteq KeysOf(Buttons)
    BY <1>5 DEF Data, MouseDevs, InputDevs
  <2>2. \A a \in Buttons : KeyOf[a] \in d.key <=> a \in pre_val
    BY <1>6, <2>1, KeyFacts DEF KeysOf
  <2> HIDE DEF d0, d1, d2
  <2>3. \A a \in Buttons : KeyOf[a] \in d0.key <=>
          IF a = 0 /\ (0 \in pre_val) # (0 \in now) THEN 0 \in now ELSE KeyOf[a] \in d.key
    BY <1>2, EventKey DEF d0
  <2>4. \A a \in Buttons : KeyOf[a] \in d1.key <=>
          IF a = 1 /\ (1 \in pre_val) # (1 \in now) THEN 1 \in now ELSE KeyOf[a] \in d0.key
    BY <1>2, <1>3, EventKey DEF d1
  <2>5. \A a \in Buttons : KeyOf[a] \in d2.key <=>
          IF a = 2 /\ (2 \in pre_val) # (2 \in now) THEN 2 \in now ELSE KeyOf[a] \in d1.key
    BY <1>2, <1>4, EventKey DEF d2
  <2>6. \A a \in Buttons : a = 0 \/ a = 1 \/ a = 2
    BY ButtonsAssumption
  <2>7. \A a \in Buttons : KeyOf[a] \in d2.key <=> a \in now
    BY <2>2, <2>3, <2>4, <2>5, <2>6
  <2> QED
    BY <2>1, <2>7 DEF KeysOf
<1> QED
  BY <1>1, <1>5, <1>6

LEMMA MouseInitially == MouseInit => MouseInv
<1> SUFFICES ASSUME MouseInit PROVE MouseInv
  OBVIOUS
<1>1. NewDev \in InputDevs({KeyOf[b] : b \in Buttons})
  BY DEF NewDev, InputDevs
<1> QED
  BY <1>1 DEF MouseInit, MouseInv, MouseTypeOK, Plugged, Submitted, OneMouse, Data

\* What a completion leaves: the mouse of the globals, the only one that is bound
\* unless two are, has its urb submitted again or refused, and its keys as the data says.
LEMMA IrqKeeps ==
  ASSUME MouseInv, NEW m \in Mice, urb[m] = "active", NEW data \in Data,
         usbmouse_as_key_irq(m, data)
  PROVE  /\ urb' \in [Mice -> {"none", "active", "idle", "freed"}]
         /\ usb_buf' = [usb_buf EXCEPT ![m] = data] /\ usb_buf' \in [Mice -> Data]
         /\ uk_dev' \in [Mice -> MouseDevs]
         /\ pre_val' \in Data /\ dangling' \in BOOLEAN /\ refused' \in BOOLEAN /\ uk # NoMouse
         /\ \A x \in Mice : urb'[x] = "active" => x \in bound
         /\ uk \notin bound => urb'[uk] = "freed"
         /\ ~shared => /\ uk = m /\ m \in bound /\ pre_val' = data
                       /\ (urb'[m] = "active" \/ (urb'[m] = "idle" /\ refused'))
                       /\ ~dangling'
                       /\ ~stale => uk_dev'[m].key = KeysOf(data)
<1>1. uk \in Mice
  BY DEF MouseInv, MouseTypeOK, Plugged
<1>2. usb_buf' = [usb_buf EXCEPT ![m] = data] /\ usb_buf' \in [Mice -> Data]
  BY DEF usbmouse_as_key_irq, MouseInv, MouseTypeOK
<1>3. pre_val' = usb_buf'[uk] /\ pre_val' \in Data
  BY <1>1, <1>2 DEF usbmouse_as_key_irq
<1>4. uk_dev \in [Mice -> MouseDevs] /\ pre_val \in Data
  BY DEF MouseInv, MouseTypeOK, MouseDevs, KeysOf
<1>5. uk_dev' = [uk_dev EXCEPT ![uk] = Changes(uk_dev[uk], pre_val')]
  BY <1>3 DEF usbmouse_as_key_irq
<1>6. /\ Changes(uk_dev[uk], pre_val') \in MouseDevs
      /\ uk_dev[uk].key = KeysOf(pre_val) => Changes(uk_dev[uk], pre_val').key = KeysOf(pre_val')
  BY <1>1, <1>3, <1>4, ChangesKeys
<1>7. uk_dev' \in [Mice -> MouseDevs] /\ uk_dev'[uk] = Changes(uk_dev[uk], pre_val')
  BY <1>1, <1>4, <1>5, <1>6
<1>8. /\ urb' \in [Mice -> {"none", "active", "idle", "freed"}]
      /\ dangling' \in BOOLEAN /\ refused' \in BOOLEAN
      /\ \A x \in Mice \ {m, uk} : urb'[x] = urb[x]
      /\ urb[uk] = "freed" /\ uk # m => urb'[uk] = "freed"
      /\ uk # m => urb'[m] = "idle"
      /\ uk = m => urb'[m] \in Outcomes
      /\ refused' = (refused \/ urb'[uk] = "idle") /\ dangling' = (dangling \/ urb[uk] = "freed")
  <2>1. PICK outcome \in Outcomes :
          urb' = [urb EXCEPT ![m] = "idle", ![uk] = IF @ = "idle" THEN outcome ELSE @]
    BY DEF usbmouse_as_key_irq
  <2>2. outcome = "active" \/ outcome = "idle"
    BY DEF Outcomes
  <2>3. /\ urb' \in [Mice -> {"none", "active", "idle", "freed"}]
        /\ \A x \in Mice \ {m, uk} : urb'[x] = urb[x]
        /\ urb[uk] = "freed" /\ uk # m => urb'[uk] = "freed"
        /\ uk # m => urb'[m] = "idle"
        /\ uk = m => urb'[m] = outcome
    BY <1>1, <2>1, <2>2 DEF MouseInv, MouseTypeOK
  <2>4. refused' = (refused \/ urb'[uk] = "idle") /\ dangling' = (dangling \/ urb[uk] = "freed")
    BY DEF usbmouse_as_key_irq
  <2>5. refused' \in BOOLEAN /\ dangling' \in BOOLEAN
    BY <2>4 DEF MouseInv, MouseTypeOK
  <2> QED
    BY <2>3, <2>4, <2>5
<1>9. m \in bound /\ (uk \notin bound => urb'[uk] = "freed")
  BY <1>1, <1>8, NoMouseAssumption DEF MouseInv, Submitted
<1>10. \A x \in Mice : urb'[x] = "active" => x \in bound
  BY <1>8, <1>9 DEF MouseInv, Submitted
<1>11. ASSUME ~shared
      PROVE  /\ uk = m /\ m \in bound /\ pre_val' = data
             /\ (urb'[m] = "active" \/ (urb'[m] = "idle" /\ refused'))
             /\ ~dangling'
             /\ ~stale => uk_dev'[m].key = KeysOf(data)
  <2>1. uk = m /\ m \in bound /\ ~dangling
    BY <1>9, <1>11 DEF MouseInv, OneMouse
  <2>2. pre_val' = data
    BY <1>2, <1>3, <2>1 DEF MouseInv, MouseTypeOK
  <2>3. urb'[m] = "active" \/ (urb'[m] = "idle" /\ refused')
    BY <1>8, <2>1 DEF Outcomes
  <2>4. ~dangling'
    BY <1>8, <2>1
  <2>5. ~stale => uk_dev[m].key = KeysOf(pre_val)
    BY <1>11, <2>1 DEF MouseInv, OneMouse
  <2> QED
    BY <1>6, <1>7, <2>1, <2>2, <2>3, <2>4, <2>5
<1> QED
  BY <1>1, <1>2, <1>3, <1>7, <1>8, <1>9, <1>10, <1>11, NoMouseAssumption

LEMMA ReportMouse == ASSUME MouseInv, NEW m \in Mice, Report(m) PROVE MouseInv'
<1>1. /\ urb[m] = "active" /\ changed' = [changed EXCEPT ![m] = FALSE] /\ heard' = TRUE
      /\ usbmouse_as_key_irq(m, mouse[m]) /\ mouse[m] \in Data
      /\ UNCHANGED <<mouse, uk, bound, shared, stale>>
  BY DEF Report, usbmouse_as_key_irq, MouseInv, MouseTypeOK
<1>2. MouseTypeOK'
  BY <1>1, IrqKeeps DEF MouseInv, MouseTypeOK, MouseDevs, KeysOf
<1>3. Plugged'
  BY <1>1, IrqKeeps DEF Plugged
<1>4. Submitted'
  BY <1>1, IrqKeeps DEF Submitted
<1>5. OneMouse'
  BY <1>1, IrqKeeps DEF MouseInv, MouseTypeOK, OneMouse
<1> QED
  BY <1>2, <1>3, <1>4, <1>5 DEF MouseInv

LEMMA FailMouse == ASSUME MouseInv, NEW m \in Mice, Fail(m) PROVE MouseInv'
<1>1. /\ urb[m] = "active" /\ usbmouse_as_key_irq(m, usb_buf[m]) /\ usb_buf[m] \in Data
      /\ UNCHANGED <<mouse, changed, heard, uk, bound, shared, stale>>
  BY DEF Fail, usbmouse_as_key_irq, MouseInv, MouseTypeOK
<1>2. MouseTypeOK'
  BY <1>1, IrqKeeps DEF MouseInv, MouseTypeOK, MouseDevs, KeysOf
<1>3. Plugged'
  BY <1>1, IrqKeeps DEF Plugged
<1>4. Submitted'
  BY <1>1, IrqKeeps DEF Submitted
<1>5. OneMouse'
  BY <1>1, IrqKeeps DEF MouseInv, MouseTypeOK, OneMouse
<1> QED
  BY <1>2, <1>3, <1>4, <1>5 DEF MouseInv

LEMMA ClickMouse == ASSUME MouseInv, NEW m \in Mice, Click(m) PROVE MouseInv'
<1>1. mouse' \in [Mice -> Data] /\ \A x \in Mice : x # m => mouse'[x] = mouse[x]
  BY DEF Click, MouseInv, MouseTypeOK, Data
<1>2. changed' = [changed EXCEPT ![m] = TRUE]
  BY DEF Click
<1>3. UNCHANGED <<uk, urb, usb_buf, uk_dev, pre_val, bound, heard, stale, refused, shared, dangling>>
  BY DEF Click
<1>4. MouseTypeOK'
  BY <1>1, <1>2, <1>3 DEF MouseInv, MouseTypeOK, Data
<1> QED
  BY <1>1, <1>2, <1>3, <1>4 DEF MouseInv, MouseTypeOK, Plugged, Submitted, OneMouse

LEMMA ProbeMouse == ASSUME MouseInv, NEW m \in Mice, usbmouse_as_key_probe(m) PROVE MouseInv'
<1>1. NewDev \in InputDevs({KeyOf[b] : b \in Buttons}) /\ NewDev.key = KeysOf({})
  BY DEF NewDev, InputDevs, KeysOf
<1>2. /\ mouse' \in [Mice -> Data] /\ usb_buf' \in [Mice -> Data]
      /\ urb' \in [Mice -> {"none", "active", "idle", "freed"}]
      /\ urb'[m] \in Outcomes /\ \A x \in Mice : x # m => urb'[x] = urb[x]
      /\ refused' = (urb'[m] = "idle")
  BY DEF usbmouse_as_key_probe, Outcomes, MouseInv, MouseTypeOK
<1>3. /\ bound' = bound \cup {m} /\ uk' = m /\ uk_dev' = [uk_dev EXCEPT ![m] = NewDev]
      /\ changed' = [changed EXCEPT ![m] = FALSE] /\ pre_val' = pre_val
      /\ shared' = (bound # {}) /\ dangling' = (dangling /\ bound # {})
      /\ stale' = (pre_val # {}) /\ heard' = FALSE
  BY DEF usbmouse_as_key_probe
<1>4. MouseTypeOK'
  BY <1>1, <1>2, <1>3 DEF MouseInv, MouseTypeOK
<1>5. Plugged' /\ Submitted'
  BY <1>2, <1>3, NoMouseAssumption DEF Plugged, MouseInv, Submitted
<1>6. OneMouse'
  <2> SUFFICES ASSUME ~shared' PROVE OneMouse'
    BY DEF OneMouse
  <2>1. bound' = {m} /\ ~dangling' /\ ~heard'
    BY <1>3
  <2>2. uk' = m /\ (urb'[m] = "active" \/ (urb'[m] = "idle" /\ refused'))
    BY <1>2, <1>3 DEF Outcomes
  <2>3. ~stale' => uk_dev'[m].key = KeysOf(pre_val')
    BY <1>1, <1>3 DEF MouseInv, MouseTypeOK
  <2> QED
    BY <2>1, <2>2, <2>3 DEF OneMouse
<1> QED
  BY <1>4, <1>5, <1>6 DEF MouseInv

LEMMA DisconnectMouse ==
  ASSUME MouseInv, NEW m \in Mice, usbmouse_as_key_disconnect(m) PROVE MouseInv'
<1>1. NewDev \in InputDevs({KeyOf[b] : b \in Buttons})
  BY DEF NewDev, InputDevs
<1>2. m \in bound /\ uk \in Mice /\ uk # NoMouse
  BY NoMouseAssumption DEF usbmouse_as_key_disconnect, MouseInv, MouseTypeOK, Plugged
<1>3. MouseTypeOK'
  BY <1>1, <1>2 DEF usbmouse_as_key_disconnect, MouseInv, MouseTypeOK, Data
<1>4. Plugged'
  BY <1>2 DEF usbmouse_as_key_disconnect, Plugged
<1>5. /\ bound' = bound \ {m} /\ uk' = uk /\ urb'[uk] = "freed" /\ urb'[m] # "active"
      /\ \A x \in Mice \ {m} : urb'[x] = "active" => urb[x] = "active"
  <2>1. urb' = [urb EXCEPT ![m] = IF @ = "active" THEN "idle" ELSE @, ![uk] = "freed"]
    BY DEF usbmouse_as_key_disconnect
  <2> QED
    BY <1>2, <2>1 DEF usbmouse_as_key_disconnect, MouseInv, MouseTypeOK
<1>6. Submitted'
  BY <1>5 DEF MouseInv, Submitted
<1>7. ASSUME ~shared' PROVE ~dangling' /\ bound' = {}
  BY <1>2, <1>7 DEF usbmouse_as_key_disconnect, MouseInv, OneMouse
<1>8. OneMouse'
  BY <1>7 DEF OneMouse
<1> QED
  BY <1>3, <1>4, <1>6, <1>8 DEF MouseInv

LEMMA MouseKeeps == MouseInv /\ MouseNext => MouseInv'
BY ReportMouse, FailMouse, ClickMouse, ProbeMouse, DisconnectMouse DEF MouseNext

LEMMA MouseStutters == MouseInv /\ UNCHANGED mousevars => MouseInv'
BY DEF MouseInv, MouseTypeOK, Plugged, Submitted, OneMouse, mousevars

LEMMA MouseTrue == MouseInv => MouseKeysAreTrue /\ SilentOnlyIfRefused
BY DEF MouseInv, MouseTypeOK, OneMouse, MouseKeysAreTrue, SilentOnlyIfRefused, KeysOf

-----------------------------------------------------------------------------
(* The two drivers *)

IInv == SubInv /\ MouseInv /\ loaded \in {"input_sub", "usbmouse"}

\* The inductive invariant holds of every behaviour.
THEOREM Invariance == Spec => []IInv
<1>1. Init => IInv
  BY SubInitially, MouseInitially DEF Init, IInv
<1>2. IInv /\ [Next]_vars => IInv'
  BY SubKeeps, SubStutters, MouseKeeps, MouseStutters DEF IInv, Next, vars
<1> QED
  BY <1>1, <1>2, PTL DEF Spec

\* The types of both drivers' state.
THEOREM TypeCorrect == Spec => []TypeOK
<1>1. IInv => TypeOK
  BY DEF IInv, SubInv, MouseInv, TypeOK
<1> QED
  BY <1>1, Invariance, PTL

\* input_sub.c: as long as no two buttons move within the same 10 ms, the keys
\* that are down once all is quiet are those whose button is down.
THEOREM ButtonKeys == Spec => []KeysAreTrue
<1>1. IInv => KeysAreTrue
  BY SubTrue DEF IInv
<1> QED
  BY <1>1, Invariance, PTL

\* usbmouse.c, one mouse at a time: the keys that are down are the mouse's buttons,
\* whatever transfers failed in between.
THEOREM MouseKeys == Spec => []MouseKeysAreTrue
<1>1. IInv => MouseKeysAreTrue
  BY MouseTrue DEF IInv
<1> QED
  BY <1>1, Invariance, PTL

\* usbmouse.c, one mouse at a time, two at once before or not: nothing that was
\* freed is used, the globals are those of the mouse that is bound, and its urb is
\* submitted unless usb_submit_urb() has refused it since it was plugged in.
THEOREM MouseReports == Spec => []SilentOnlyIfRefused
<1>1. IInv => SilentOnlyIfRefused
  BY MouseTrue DEF IInv
<1> QED
  BY <1>1, Invariance, PTL
=============================================================================
