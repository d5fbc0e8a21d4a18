--------------------------- MODULE ModuleLifeProofs ---------------------------
(***************************************************************************)
(* Proofs that a module, whichever is loaded, and however its callbacks    *)
(* fall between the steps of its init and exit functions, uses only what   *)
(* is there, gives nothing back twice and leaves nothing behind, but for   *)
(* the cases KnownAstray, KnownTwice and KnownLeft list.                   *)
(*                                                                         *)
(* The argument has two halves.  The first is about scripts: what the      *)
(* remaining steps of init or exit, together with what is held, promise    *)
(* for each later step (Sure: a resource is held then; Gone: it is not;    *)
(* Ends: it is not, and no callback brings it back).  A step of the script *)
(* keeps these promises for the steps after it, and so does a callback.    *)
(* The second is about the modules: Orderly says that the scripts of init  *)
(* and exit make the promises when they start, and is proved for each      *)
(* module by going through its steps.                                      *)
(***************************************************************************)
EXTENDS ModuleLife, SequenceTheorems, TLAPS

\* What a step does to r: it takes it away, it may take it away, it may obtain
\* it, init goes on with it.
Takes(st, r)  == st.op \in {"put", "drop"} /\ st.res = r
Frees(st, r)  == st.op \in {"put", "drop", "put_idle"} /\ st.res = r
Adds(st, r)   == st.op \in {"get", "maybe"} /\ st.res = r
Brings(st, r) == st.op \in {"get", "check"} /\ st.res = r

\* Step k of s is op on r.
Is(s, k, op, r) == s[k].op = op /\ s[k].res = r

-----------------------------------------------------------------------------
(* Promises for the steps that are left, s, while h is held.               *)

\* Before step i, r is held for sure: it is held and no step gives it back, or
\* a step obtains it and no later one gives it back.
Sure(s, h, i, r) ==
  \/ r \in h /\ \A j \in 1..Len(s) : j < i => ~Frees(s[j], r)
  \/ \E k \in 1..Len(s) :
       k < i /\ Brings(s[k], r) /\ \A j \in 1..Len(s) : k < j /\ j < i => ~Frees(s[j], r)

\* Before step i, r has been away at least once.
Absent(s, h, i, r) == r \notin h \/ \E k \in 1..Len(s) : k < i /\ Takes(s[k], r)

\* Before step i, r is not held: what may obtain it is followed by a step that
\* takes it away.
Gone(s, h, i, r) ==
  /\ Absent(s, h, i, r)
  /\ \A k \in 1..Len(s) : k < i /\ Adds(s[k], r) =>
       \E j \in 1..Len(s) : k < j /\ j < i /\ Takes(s[j], r)

\* The scripts and the callbacks of module m, and whether its file keeps it.
InitOf(m) == Modules[m].init
ExitOf(m) == Modules[m].exit
Calls(m)  == Modules[m].calls
Pinned(m) == Modules[m].pinned

\* What m is known to leave behind.
Left(m, r) == <<m, r>> \in KnownLeft

\* What no step of a script obtains or gives back.
Outlasts == {Code, "file"}

\* No callback of m gives r back; c obtains r and keeps it; no callback does.
Steady(m, r)    == \A c \in Calls(m) : r \notin c.puts
Brought(c, r)   == r \in c.gets \ c.puts
Quiet(m, r)     == \A c \in Calls(m) : ~Brought(c, r)

\* Before step i, d is not held and cannot come back: it is away now or a step
\* takes it away, at a time when the door of each callback that obtains it is
\* closed, and no callback opens such a door again.
Ends(m, s, h, i, d) ==
  /\ \A c \in Calls(m) : Brought(c, d) => Quiet(m, c.door)
  /\ \/ d \notin h /\ \A c \in Calls(m) : Brought(c, d) => c.door \notin h
     \/ \E k \in 1..Len(s) :
          k < i /\ Takes(s[k], d) /\ \A c \in Calls(m) : Brought(c, d) => Absent(s, h, k, c.door)

\* Up to step i, d is not held: it is not now, and no step obtains it.
Closed(s, h, i, d) ==
  d \notin h \cup Outlasts /\ \A k \in 1..Len(s) : k < i => ~Adds(s[k], d)

\* Up to step i, no callback of m gives r back: its door is closed, and so is the
\* door of what would open it.
Undisturbed(m, s, h, i, r) ==
  \A c \in Calls(m) : r \in c.puts =>
    /\ Closed(s, h, i, c.door)
    /\ \A b \in Calls(m) : Brought(b, c.door) => Quiet(m, b.door) /\ Closed(s, h, i, b.door)

\* While m holds d it holds r: the callbacks that d lets in, and those that they
\* let in, use r.
Relies(m, d, r) ==
  \/ m \in {"first_drv", "second_drv"} /\ d \in {"chrdev", "file"} /\ r = Code
  \/ /\ m \in {"third_drv", "forth_drv", "asyn", "sixth_drv", "buttons_all"}
     /\ \/ d \in {"chrdev", "file", "irqs"} /\ r = Code
        \/ d = "irqs" /\ r = "file"
  \/ m = "buttons_all" /\ d \in {"chrdev", "irqs"} /\ r = "timer_set"
  \/ /\ m = "input_sub"
     /\ \/ d \in {"irqs", "timer"} /\ r \in {"input_dev", Code}
        \/ d = "input" /\ r = "input_dev"
        \/ d = "irqs" /\ r = "timer_set"
  \/ m = "touch" /\ d \in {"irq_tc", "irq_adc"} /\ r \in {"regs", "input_dev", Code}
  \/ m = "usbmouse" /\ d = "urb_active" /\ r \in {"input_dev", "usb_buf", "urb", Code}
  \/ /\ m = "lcd"
     /\ \/ d = "lcd_on" /\ r = "video_memory"
        \/ d \in {"framebuffer", "file"} /\ r \in {"fb_info", "video_memory", Code}
        \/ d = "file" /\ r = "framebuffer"
  \/ m = "s3c_nand" /\ d \in {"mtd_registered", "file"} /\ r \in {"chip", "mtd", "regs", Code}
  \/ m = "s3c_nor" /\ d \in {"mtd_registered", "file"} /\ r = "mtd"
  \/ /\ m = "ramblock"
     /\ \/ d = "disk" /\ r \in {"buffer", "queue", "gendisk", Code}
        \/ d = "file" /\ r = Code
  \/ m = "virt_net" /\ d = "registered" /\ r \in {"netdev", Code}
  \/ /\ m = "i2c_bus"
     /\ \/ d = "adapter" /\ r \in {"regs", "irq", Code}
        \/ d = "irq" /\ r \in {"regs", Code}
  \/ m = "at24cxx_19" /\ d \in {"chrdev", "file"} /\ r \in {"client", Code}

\* exit cannot begin while d is held: a file that keeps the module is open.
Blocked(m, d) == Pinned(m) /\ (d = "file" \/ Relies(m, d, "file"))

\* The step needs its resource to be held, and is not one of the known cases.
Wants(m, ph, st) == \/ st.op = "put" /\ <<m, st.res>> \notin KnownTwice
                    \/ st.op = "use" /\ <<m, ph, st.res>> \notin KnownAstray

\* init itself gives r back; m obtains r; m still has r when it is live; exit
\* needs r; what an earlier load left.
Brief(m, r)   == \E i \in 1..Len(InitOf(m)) : InitOf(m)[i].op = "put" /\ InitOf(m)[i].res = r
Obtains(m, r) == \/ r = Code
                 \/ \E i \in 1..Len(InitOf(m)) : Adds(InitOf(m)[i], r)
                 \/ \E c \in Calls(m) : Brought(c, r)
Keeps(m)      == {r \in Resources : Obtains(m, r) /\ ~Brief(m, r)}
Owned(m, r)   == \E i \in 1..Len(ExitOf(m)) : Wants(m, "unloading", ExitOf(m)[i]) /\ ExitOf(m)[i].res = r
Leftovers(m)  == {r \in Resources : Left(m, r)}

\* The shapes of the scripts: what a failed check undoes, init and exit.
Script(Ops, Undos) == Seq([op : Ops, res : Resources \ Outlasts, undo : Undos])
UndoScript == Script({"put"}, {<<>>})
InitScript == Script({"get", "maybe", "check", "use", "put"}, UndoScript)
ExitScript == Script({"use", "put", "drop", "put_idle"}, {<<>>})

-----------------------------------------------------------------------------
(* What is promised of a script.                                           *)

\* A step finds what it needs.
Founded(m, ph, s, h) ==
  \A i \in 1..Len(s) : Wants(m, ph, s[i]) => Sure(s, h, i, s[i].res)

\* No callback takes away what a step needs before the step.
Calm(m, ph, s, h) ==
  \A i \in 1..Len(s) : Wants(m, ph, s[i]) => Undisturbed(m, s, h, i, s[i].res)

\* A check that fails finds what it gives back, once each, and no door of m relies
\* on it.
Undoable(m, s, h) ==
  \A i \in 1..Len(s) : s[i].op = "check" =>
    \A j \in 1..Len(s[i].undo) :
      /\ Steady(m, s[i].undo[j].res) /\ Sure(s, h, i, s[i].undo[j].res)
      /\ \A k \in 1..Len(s[i].undo) : k < j => s[i].undo[k].res # s[i].undo[j].res
      /\ \A d \in Resources : ~Relies(m, d, s[i].undo[j].res)

\* At the end of init, what exit needs is held.
Keeping(m, s, h) ==
  \A r \in Resources : Owned(m, r) => Steady(m, r) /\ Sure(s, h, Len(s) + 1, r)

\* At the end of init, what it had only for a while is away.
Passing(m, s, h) ==
  \A r \in Resources : Brief(m, r) => Quiet(m, r) /\ Gone(s, h, Len(s) + 1, r)

\* When init obtains d, it holds all that d relies on.
Grounded(m, s, h) ==
  \A i \in 1..Len(s), d \in Resources, r \in Resources :
    Adds(s[i], d) /\ Relies(m, d, r) => Steady(m, r) /\ Sure(s, h, i, r)

\* A step obtains only what m obtains.
Obtaining(m, s) == \A i \in 1..Len(s), r \in Resources : Adds(s[i], r) => Obtains(m, r)

\* A step gives back nothing that m relies on (init, and what a check undoes).
Unrelied(m, s) ==
  \A i \in 1..Len(s), d \in Resources, r \in Resources : Frees(s[i], r) => ~Relies(m, d, r)

\* exit gives r back only when whatever relies on it has gone, for good.
Ordered(m, s, h) ==
  \A i \in 1..Len(s), d \in Resources, r \in Resources :
    Frees(s[i], r) /\ Relies(m, d, r) => Blocked(m, d) \/ Ends(m, s, h, i, d)

\* At the end of exit, or of a failed init, nothing is left.
Ending(m, s, h) ==
  \A r \in Resources \ Outlasts : Left(m, r) \/ Blocked(m, r) \/ Ends(m, s, h, Len(s) + 1, r)

\* When the check at step i fails, r is not held: it is what was checked, or
\* relies on it, or is gone.
Lost(m, s, h, i, r) == \/ r = s[i].res \/ Relies(m, r, s[i].res)
                       \/ r \notin Outlasts /\ Quiet(m, r) /\ Gone(s, h, i, r)

\* When the check at step i fails, r is given back, or away for good.
Cleaned(m, s, h, i, r) ==
  \/ Left(m, r)
  \/ Blocked(m, r)
  \/ Quiet(m, r) /\ \E j \in 1..Len(s[i].undo) : s[i].undo[j].res = r
  \/ Lost(m, s, h, i, r) /\ \A c \in Calls(m) : Brought(c, r) => Quiet(m, c.door) /\ Lost(m, s, h, i, c.door)

\* A check that fails leaves nothing, and no way in to the code.
Failable(m, s, h) ==
  \A i \in 1..Len(s) : s[i].op = "check" =>
    /\ \A r \in Resources \ Outlasts : Obtains(m, r) => Cleaned(m, s, h, i, r)
    /\ \A d \in Resources : Relies(m, d, Code) => d = s[i].res \/ Relies(m, d, s[i].res)
    /\ Pinned(m) => Relies(m, "file", s[i].res)

\* A callback uses only what its door relies on.  What it obtains relies on nothing
\* more than its door or what it obtains with it, and what relies on what it gives
\* back goes with it.
Answered(m, c) ==
  /\ c.door \in Resources \ {Code}
  /\ c.gets \subseteq Resources \ {Code} /\ c.puts \subseteq Resources \ {Code}
  /\ c.needs \subseteq Resources /\ c.after \subseteq Resources
  /\ \A r \in c.needs \cup c.after : <<m, c.name, r>> \notin KnownAstray => Relies(m, c.door, r)
  /\ \A r \in c.after : <<m, c.name, r>> \notin KnownAstray => r \notin c.puts
  /\ \A d \in Resources, r \in Resources : Brought(c, d) /\ Relies(m, d, r) =>
       r \notin c.puts /\ (Relies(m, c.door, r) \/ r = c.door \/ r \in c.gets)
  /\ \A d \in Resources, r \in Resources : r \in c.puts /\ Relies(m, d, r) => d \in c.puts
  /\ "file" \in c.gets /\ Pinned(m) => Relies(m, c.door, Code)

\* exit gives back once, and uses nothing that it has given back.
Single(m, s) ==
  \A i \in 1..Len(s) : Wants(m, "unloading", s[i]) =>
    \A j \in 1..Len(s) : j < i => ~Frees(s[j], s[i].res)

\* exit ends what the module has when it is live.
Clearing(m, s) ==
  \A r \in Keeps(m) \ Outlasts :
    Left(m, r) \/ Blocked(m, r) \/ Ends(m, s, Keeps(m), Len(s) + 1, r)

\* init starts with its code and what earlier loads left, and promises all this.
Loads(m) ==
  /\ InitOf(m) \in InitScript
  /\ Founded(m, "loading", InitOf(m), {Code})
  /\ Calm(m, "loading", InitOf(m), Leftovers(m))
  /\ Undoable(m, InitOf(m), {Code})
  /\ Keeping(m, InitOf(m), {Code})
  /\ Passing(m, InitOf(m), Leftovers(m))
  /\ Grounded(m, InitOf(m), {Code})
  /\ Failable(m, InitOf(m), Leftovers(m))
  /\ Unrelied(m, InitOf(m))

\* exit starts with what init and the callbacks have obtained.
Unloads(m) ==
  /\ ExitOf(m) \in ExitScript
  /\ Single(m, ExitOf(m))
  /\ Ordered(m, ExitOf(m), Keeps(m))
  /\ Clearing(m, ExitOf(m))

\* What is had for a while is not left, nor is what relies on the code; a file that
\* relies on the code keeps it.
Apart(m) ==
  /\ \A r \in Resources : Brief(m, r) => ~Left(m, r) /\ r \notin Outlasts
  /\ \A d \in Resources : Relies(m, d, Code) => ~Left(m, d) /\ d # Code /\ (d = "file" => Pinned(m))
  /\ \A r \in Resources : ~Relies(m, Code, r)

\* The scripts and callbacks of m are in order.
Orderly(m) == Loads(m) /\ Unloads(m) /\ Apart(m) /\ \A c \in Calls(m) : Answered(m, c)

-----------------------------------------------------------------------------
(* Each module is orderly.  s and e are the scripts of its init and exit;  *)
(* what is promised of them follows from their steps, one by one.          *)
USE DEF Get, Maybe, Check, Use, Put, PutIdle, Drop, Is, Takes, Frees, Adds, Brings,
        Callback, On, Opens, Closes, Arms, Expires, Code

(* The LEDs (led/first_drv.c). *)
LEMMA FirstOrderly == Orderly("first_drv")
<1> DEFINE s == InitOf("first_drv")
           e == ExitOf("first_drv")
<1>1. /\ s = first_drv_init /\ e = first_drv_exit
      /\ Calls("first_drv") = {first_drv_open, first_drv_write, Closes({})}
      /\ Pinned("first_drv") = TRUE
  BY SMT DEF Modules, Loadable, Unpinned, InitOf, ExitOf, Calls, Pinned
<1>2. s = InitOf("first_drv") /\ e = ExitOf("first_drv")
  OBVIOUS
<1> HIDE DEF s, e
<1>3. /\ Len(s) = 4 /\ Is(s, 1, "get", "chrdev") /\ Is(s, 2, "get", "class")
      /\ Is(s, 3, "get", "device") /\ Is(s, 4, "get", "gpb")
  BY <1>1, SMT DEF first_drv_init
<1>4. /\ Len(e) = 4 /\ Is(e, 1, "put", "chrdev") /\ Is(e, 2, "put", "device")
      /\ Is(e, 3, "put", "class") /\ Is(e, 4, "put", "gpb")
  BY <1>1, SMT DEF first_drv_exit
<1>5. \A k \in 1..Len(s) : /\ s[k].op \in {"get"}
                           /\ k = 1 \/ k = 2 \/ k = 3 \/ k = 4
  BY <1>3, SMT
<1>6. \A k \in 1..Len(e) : /\ e[k].op \in {"put"}
                           /\ k = 1 \/ k = 2 \/ k = 3 \/ k = 4
  BY <1>4, SMT
<1>7. \A r : Obtains("first_drv", r) => r \in {Code, "chrdev", "class", "device", "gpb", "file"}
  BY <1>1, <1>2, <1>3, <1>5, SMTT(30) DEF Obtains, Brought, first_drv_open, first_drv_write
<1>8. \A r : ~Brief("first_drv", r)
  BY <1>2, <1>3, <1>5, SMT DEF Brief
<1>9. \A r : Owned("first_drv", r) => r \in {"chrdev", "device", "class", "gpb"}
  BY <1>2, <1>4, <1>6, SMT DEF Owned, Wants
<1>10. Loads("first_drv")
  <2>1. s \in InitScript
    BY <1>1, SMT DEF first_drv_init, InitScript, UndoScript, Script, Resources, Outlasts
  <2>2. Founded("first_drv", "loading", s, {Code})
    BY <1>1, <1>3, <1>5, SMT
       DEF Founded, Wants, Sure, KnownTwice, KnownAstray, first_drv_open, first_drv_write
  <2>3. Undoable("first_drv", s, {Code})
    BY <1>5, SMT DEF Undoable
  <2>4. Keeping("first_drv", s, {Code})
    BY <1>1, <1>3, <1>9, SMT DEF Keeping, Steady, Sure, first_drv_open, first_drv_write
  <2>5. Passing("first_drv", s, Leftovers("first_drv"))
    BY <1>8, SMT DEF Passing
  <2>6. Grounded("first_drv", s, {Code})
    BY <1>1, <1>3, <1>5, SMTT(30) DEF Grounded, Relies, Steady, Sure, first_drv_open, first_drv_write
  <2>7. Failable("first_drv", s, Leftovers("first_drv"))
    BY <1>5, SMT DEF Failable
  <2>8. Unrelied("first_drv", s)
    BY <1>3, <1>5, SMT DEF Unrelied, Relies
  <2>9. Calm("first_drv", "loading", s, Leftovers("first_drv"))
    BY <1>5, SMT DEF Calm, Wants
  <2> QED
    BY <1>2, <2>1, <2>2, <2>3, <2>4, <2>5, <2>6, <2>7, <2>8, <2>9 DEF Loads
<1>11. Unloads("first_drv")
  <2>1. Keeps("first_drv") \subseteq {Code, "chrdev", "class", "device", "gpb", "file"}
    BY <1>7, SMT DEF Keeps
  <2>2. e \in ExitScript
    BY <1>1, SMT DEF first_drv_exit, ExitScript, Script, Resources, Outlasts
  <2>3. Single("first_drv", e)
    BY <1>4, <1>6, SMT DEF Single, Wants, KnownTwice, KnownAstray
  <2>4. Ordered("first_drv", e, Keeps("first_drv"))
    BY <1>1, <1>4, <1>6, <2>1, SMTT(30)
       DEF Ordered, Blocked, Relies, Ends, Quiet, Brought, Absent, first_drv_open, first_drv_write
  <2>5. Clearing("first_drv", e)
    BY <1>1, <1>4, <2>1, SMT
       DEF Clearing, Left, KnownLeft, Blocked, Relies, Ends, Quiet, Brought, Absent, Outlasts,
           first_drv_open, first_drv_write
  <2> QED
    BY <1>2, <2>2, <2>3, <2>4, <2>5 DEF Unloads
<1>12. Apart("first_drv")
  BY <1>1, <1>8, SMT DEF Apart, Relies, Left, KnownLeft, Outlasts
<1>13. \A c \in Calls("first_drv") : Answered("first_drv", c)
  BY <1>1, SMTT(30)
     DEF Answered, Brought, Relies, KnownAstray, Resources, first_drv_open, first_drv_write
<1> QED
  BY <1>10, <1>11, <1>12, <1>13 DEF Orderly

(* The polled keys (2th-inquiry/second_drv.c). *)
LEMMA SecondOrderly == Orderly("second_drv")
<1> DEFINE s == InitOf("second_drv")
           e == ExitOf("second_drv")
<1>1. /\ s = second_drv_init /\ e = second_drv_exit
      /\ Calls("second_drv") = {second_drv_open, second_drv_read, Closes({})}
      /\ Pinned("second_drv") = TRUE
  BY SMT DEF Modules, Loadable, Unpinned, InitOf, ExitOf, Calls, Pinned
<1>2. s = InitOf("second_drv") /\ e = ExitOf("second_drv")
  OBVIOUS
<1> HIDE DEF s, e
<1>3. /\ Len(s) = 4 /\ Is(s, 1, "get", "chrdev") /\ Is(s, 2, "get", "class")
      /\ Is(s, 3, "get", "device") /\ Is(s, 4, "get", "gpg")
  BY <1>1, SMT DEF second_drv_init
<1>4. /\ Len(e) = 4 /\ Is(e, 1, "put", "chrdev") /\ Is(e, 2, "put", "device")
      /\ Is(e, 3, "put", "class") /\ Is(e, 4, "put", "gpg")
  BY <1>1, SMT DEF second_drv_exit
<1>5. \A k \in 1..Len(s) : /\ s[k].op \in {"get"}
                           /\ k = 1 \/ k = 2 \/ k = 3 \/ k = 4
  BY <1>3, SMT
<1>6. \A k \in 1..Len(e) : /\ e[k].op \in {"put"}
                           /\ k = 1 \/ k = 2 \/ k = 3 \/ k = 4
  BY <1>4, SMT
<1>7. \A r : Obtains("second_drv", r) => r \in {Code, "chrdev", "class", "device", "gpg", "file"}
  BY <1>1, <1>2, <1>3, <1>5, SMTT(30) DEF Obtains, Brought, second_drv_open, second_drv_read
<1>8. \A r : ~Brief("second_drv", r)
  BY <1>2, <1>3, <1>5, SMT DEF Brief
<1>9. \A r : Owned("second_drv", r) => r \in {"chrdev", "device", "class", "gpg"}
  BY <1>2, <1>4, <1>6, SMT DEF Owned, Wants
<1>10. Loads("second_drv")
  <2>1. s \in InitScript
    BY <1>1, SMT DEF second_drv_init, InitScript, UndoScript, Script, Resources, Outlasts
  <2>2. Founded("second_drv", "loading", s, {Code})
    BY <1>1, <1>3, <1>5, SMT
       DEF Founded, Wants, Sure, KnownTwice, KnownAstray, second_drv_open, second_drv_read
  <2>3. Undoable("second_drv", s, {Code})
    BY <1>5, SMT DEF Undoable
  <2>4. Keeping("second_drv", s, {Code})
    BY <1>1, <1>3, <1>9, SMT DEF Keeping, Steady, Sure, second_drv_open, second_drv_read
  <2>5. Passing("second_drv", s, Leftovers("second_drv"))
    BY <1>8, SMT DEF Passing
  <2>6. Grounded("second_drv", s, {Code})
    BY <1>1, <1>3, <1>5, SMTT(30) DEF Grounded, Relies, Steady, Sure, second_drv_open, second_drv_read
  <2>7. Failable("second_drv", s, Leftovers("second_drv"))
    BY <1>5, SMT DEF Failable
  <2>8. Unrelied("second_drv", s)
    BY <1>3, <1>5, SMT DEF Unrelied, Relies
  <2>9. Calm("second_drv", "loading", s, Leftovers("second_drv"))
    BY <1>5, SMT DEF Calm, Wants
  <2> QED
    BY <1>2, <2>1, <2>2, <2>3, <2>4, <2>5, <2>6, <2>7, <2>8, <2>9 DEF Loads
<1>11. Unloads("second_drv")
  <2>1. Keeps("second_drv") \subseteq {Code, "chrdev", "class", "device", "gpg", "file"}
    BY <1>7, SMT DEF Keeps
  <2>2. e \in ExitScript
    BY <1>1, SMT DEF second_drv_exit, ExitScript, Script, Resources, Outlasts
  <2>3. Single("second_drv", e)
    BY <1>4, <1>6, SMT DEF Single, Wants, KnownTwice, KnownAstray
  <2>4. Ordered("second_drv", e, Keeps("second_drv"))
    BY <1>1, <1>4, <1>6, <2>1, SMTT(30)
       DEF Ordered, Blocked, Relies, Ends, Quiet, Brought, Absent, second_drv_open, second_drv_read
  <2>5. Clearing("second_drv", e)
    BY <1>1, <1>4, <2>1, SMT
       DEF Clearing, Left, KnownLeft, Blocked, Relies, Ends, Quiet, Brought, Absent, Outlasts,
           second_drv_open, second_drv_read
  <2> QED
    BY <1>2, <2>2, <2>3, <2>4, <2>5 DEF Unloads
<1>12. Apart("second_drv")
  BY <1>1, <1>8, SMT DEF Apart, Relies, Left, KnownLeft, Outlasts
<1>13. \A c \in Calls("second_drv") : Answered("second_drv", c)
  BY <1>1, SMTT(30)
     DEF Answered, Brought, Relies, KnownAstray, Resources, second_drv_open, second_drv_read
<1> QED
  BY <1>10, <1>11, <1>12, <1>13 DEF Orderly

(* The buttons by interrupt (3th-interrupt). *)
LEMMA ThirdOrderly == Orderly("third_drv")
<1> DEFINE s == InitOf("third_drv")
           e == ExitOf("third_drv")
<1>1. /\ s = third_drv_init /\ e = third_drv_exit
      /\ Calls("third_drv") = {buttons_open, buttons_close, buttons_irq}
      /\ Pinned("third_drv") = TRUE
  BY SMT DEF Modules, Loadable, Unpinned, InitOf, ExitOf, Calls, Pinned, buttons
<1>2. s = InitOf("third_drv") /\ e = ExitOf("third_drv")
  OBVIOUS
<1> HIDE DEF s, e
<1>3. /\ Len(s) = 4 /\ Is(s, 1, "get", "chrdev") /\ Is(s, 2, "get", "class")
      /\ Is(s, 3, "get", "device") /\ Is(s, 4, "get", "gpg")
  BY <1>1, SMT DEF third_drv_init
<1>4. /\ Len(e) = 4 /\ Is(e, 1, "put", "chrdev") /\ Is(e, 2, "put", "device")
      /\ Is(e, 3, "put", "class") /\ Is(e, 4, "put", "gpg")
  BY <1>1, SMT DEF third_drv_exit
<1>5. \A k \in 1..Len(s) : /\ s[k].op \in {"get"}
                           /\ k = 1 \/ k = 2 \/ k = 3 \/ k = 4
  BY <1>3, SMT
<1>6. \A k \in 1..Len(e) : /\ e[k].op \in {"put"}
                           /\ k = 1 \/ k = 2 \/ k = 3 \/ k = 4
  BY <1>4, SMT
<1>7. \A r : Obtains("third_drv", r) => r \in {Code, "chrdev", "class", "device", "gpg", "file", "irqs"}
  BY <1>1, <1>2, <1>3, <1>5, SMTT(30) DEF Obtains, Brought, buttons_open, buttons_close, buttons_irq
<1>8. \A r : ~Brief("third_drv", r)
  BY <1>2, <1>3, <1>5, SMT DEF Brief
<1>9. \A r : Owned("third_drv", r) => r \in {"chrdev", "device", "class", "gpg"}
  BY <1>2, <1>4, <1>6, SMT DEF Owned, Wants
<1>10. Loads("third_drv")
  <2>1. s \in InitScript
    BY <1>1, SMT DEF third_drv_init, InitScript, UndoScript, Script, Resources, Outlasts
  <2>2. Founded("third_drv", "loading", s, {Code})
    BY <1>1, <1>3, <1>5, SMT
       DEF Founded, Wants, Sure, KnownTwice, KnownAstray, buttons_open, buttons_close, buttons_irq
  <2>3. Undoable("third_drv", s, {Code})
    BY <1>5, SMT DEF Undoable
  <2>4. Keeping("third_drv", s, {Code})
    BY <1>1, <1>3, <1>9, SMT DEF Keeping, Steady, Sure, buttons_open, buttons_close, buttons_irq
  <2>5. Passing("third_drv", s, Leftovers("third_drv"))
    BY <1>8, SMT DEF Passing
  <2>6. Grounded("third_drv", s, {Code})
    BY <1>1, <1>3, <1>5, SMTT(30)
       DEF Grounded, Relies, Steady, Sure, buttons_open, buttons_close, buttons_irq
  <2>7. Failable("third_drv", s, Leftovers("third_drv"))
    BY <1>5, SMT DEF Failable
  <2>8. Unrelied("third_drv", s)
    BY <1>3, <1>5, SMT DEF Unrelied, Relies
  <2>9. Calm("third_drv", "loading", s, Leftovers("third_drv"))
    BY <1>5, SMT DEF Calm, Wants
  <2> QED
    BY <1>2, <2>1, <2>2, <2>3, <2>4, <2>5, <2>6, <2>7, <2>8, <2>9 DEF Loads
<1>11. Unloads("third_drv")
  <2>1. Keeps("third_drv") \subseteq {Code, "chrdev", "class", "device", "gpg", "file", "irqs"}
    BY <1>7, SMT DEF Keeps
  <2>2. e \in ExitScript
    BY <1>1, SMT DEF third_drv_exit, ExitScript, Script, Resources, Outlasts
  <2>3. Single("third_drv", e)
    BY <1>4, <1>6, SMT DEF Single, Wants, KnownTwice, KnownAstray
  <2>4. Ordered("third_drv", e, Keeps("third_drv"))
    BY <1>1, <1>4, <1>6, <2>1, SMTT(30)
       DEF Ordered, Blocked, Relies, Ends, Quiet, Brought, Absent, buttons_open, buttons_close,
           buttons_irq
  <2>5. Clearing("third_drv", e)
    BY <1>1, <1>4, <2>1, SMT
       DEF Clearing, Left, KnownLeft, Blocked, Relies, Ends, Quiet, Brought, Absent, Outlasts,
           buttons_open, buttons_close, buttons_irq
  <2> QED
    BY <1>2, <2>2, <2>3, <2>4, <2>5 DEF Unloads
<1>12. Apart("third_drv")
  BY <1>1, <1>8, SMT DEF Apart, Relies, Left, KnownLeft, Outlasts
<1>13. \A c \in Calls("third_drv") : Answered("third_drv", c)
  BY <1>1, SMTT(30)
     DEF Answered, Brought, Relies, KnownAstray, Resources, buttons_open, buttons_close, buttons_irq
<1> QED
  BY <1>10, <1>11, <1>12, <1>13 DEF Orderly

(* The buttons by poll, by signal and with the semaphore (4th-poll,
   5th-asynchronous, 6th-synchronous): three drivers with the same scripts. *)
LEMMA PlainOrderly == ASSUME NEW m \in {"forth_drv", "asyn", "sixth_drv"} PROVE Orderly(m)
<1> DEFINE s == InitOf(m)
           e == ExitOf(m)
<1>1. /\ s = forth_drv_init /\ e = forth_drv_exit
      /\ Calls(m) = {buttons_open, buttons_close, buttons_irq}
      /\ Pinned(m) = TRUE
  <2>1. CASE m = "forth_drv"
    BY <2>1, SMT
       DEF Modules, Loadable, Unpinned, InitOf, ExitOf, Calls, Pinned, buttons, forth_drv_init,
           forth_drv_exit
  <2>2. CASE m = "asyn"
    BY <2>2, SMT
       DEF Modules, Loadable, Unpinned, InitOf, ExitOf, Calls, Pinned, buttons, forth_drv_init,
           fifth_drv_init, forth_drv_exit, fifth_drv_exit
  <2>3. CASE m = "sixth_drv"
    BY <2>3, SMT
       DEF Modules, Loadable, Unpinned, InitOf, ExitOf, Calls, Pinned, buttons, forth_drv_init,
           sixth_drv_init, forth_drv_exit, sixth_drv_exit
  <2> QED
    BY <2>1, <2>2, <2>3
<1>2. s = InitOf(m) /\ e = ExitOf(m)
  OBVIOUS
<1> HIDE DEF s, e
<1>3. /\ Len(s) = 3 /\ Is(s, 1, "get", "chrdev") /\ Is(s, 2, "get", "class")
      /\ Is(s, 3, "get", "device")
  BY <1>1, SMT DEF forth_drv_init
<1>4. /\ Len(e) = 3 /\ Is(e, 1, "put", "chrdev") /\ Is(e, 2, "put", "device")
      /\ Is(e, 3, "put", "class")
  BY <1>1, SMT DEF forth_drv_exit
<1>5. \A k \in 1..Len(s) : /\ s[k].op \in {"get"}
                           /\ k = 1 \/ k = 2 \/ k = 3
  BY <1>3, SMT
<1>6. \A k \in 1..Len(e) : /\ e[k].op \in {"put"}
                           /\ k = 1 \/ k = 2 \/ k = 3
  BY <1>4, SMT
<1>7. \A r : Obtains(m, r) => r \in {Code, "chrdev", "class", "device", "file", "irqs"}
  BY <1>1, <1>2, <1>3, <1>5, SMTT(30) DEF Obtains, Brought, buttons_open, buttons_close, buttons_irq
<1>8. \A r : ~Brief(m, r)
  BY <1>2, <1>3, <1>5, SMT DEF Brief
<1>9. \A r : Owned(m, r) => r \in {"chrdev", "device", "class"}
  BY <1>2, <1>4, <1>6, SMT DEF Owned, Wants
<1>10. Loads(m)
  <2>1. s \in InitScript
    BY <1>1, SMT DEF forth_drv_init, InitScript, UndoScript, Script, Resources, Outlasts
  <2>2. Founded(m, "loading", s, {Code})
    BY <1>1, <1>3, <1>5, SMT
       DEF Founded, Wants, Sure, KnownTwice, KnownAstray, buttons_open, buttons_close, buttons_irq
  <2>3. Undoable(m, s, {Code})
    BY <1>5, SMT DEF Undoable
  <2>4. Keeping(m, s, {Code})
    BY <1>1, <1>3, <1>9, SMT DEF Keeping, Steady, Sure, buttons_open, buttons_close, buttons_irq
  <2>5. Passing(m, s, Leftovers(m))
    BY <1>8, SMT DEF Passing
  <2>6. Grounded(m, s, {Code})
    BY <1>1, <1>3, <1>5, SMTT(30)
       DEF Grounded, Relies, Steady, Sure, buttons_open, buttons_close, buttons_irq
  <2>7. Failable(m, s, Leftovers(m))
    BY <1>5, SMT DEF Failable
  <2>8. Unrelied(m, s)
    BY <1>3, <1>5, SMT DEF Unrelied, Relies
  <2>9. Calm(m, "loading", s, Leftovers(m))
    BY <1>5, SMT DEF Calm, Wants
  <2> QED
    BY <1>2, <2>1, <2>2, <2>3, <2>4, <2>5, <2>6, <2>7, <2>8, <2>9 DEF Loads
<1>11. Unloads(m)
  <2>1. Keeps(m) \subseteq {Code, "chrdev", "class", "device", "file", "irqs"}
    BY <1>7, SMT DEF Keeps
  <2>2. e \in ExitScript
    BY <1>1, SMT DEF forth_drv_exit, ExitScript, Script, Resources, Outlasts
  <2>3. Single(m, e)
    BY <1>4, <1>6, SMT DEF Single, Wants, KnownTwice, KnownAstray
  <2>4. Ordered(m, e, Keeps(m))
    BY <1>1, <1>4, <1>6, <2>1, SMTT(30)
       DEF Ordered, Blocked, Relies, Ends, Quiet, Brought, Absent, buttons_open, buttons_close,
           buttons_irq
  <2>5. Clearing(m, e)
    BY <1>1, <1>4, <2>1, SMT
       DEF Clearing, Left, KnownLeft, Blocked, Relies, Ends, Quiet, Brought, Absent, Outlasts,
           buttons_open, buttons_close, buttons_irq
  <2> QED
    BY <1>2, <2>2, <2>3, <2>4, <2>5 DEF Unloads
<1>12. Apart(m)
  BY <1>1, <1>8, SMT DEF Apart, Relies, Left, KnownLeft, Outlasts
<1>13. \A c \in Calls(m) : Answered(m, c)
  <2>1. CASE m = "forth_drv"
    BY <1>1, <2>1, SMTT(30)
       DEF Answered, Brought, Relies, KnownAstray, Resources, buttons_open, buttons_close, buttons_irq
  <2>2. CASE m = "asyn"
    BY <1>1, <2>2, SMTT(30)
       DEF Answered, Brought, Relies, KnownAstray, Resources, buttons_open, buttons_close, buttons_irq
  <2>3. CASE m = "sixth_drv"
    BY <1>1, <2>3, SMTT(30)
       DEF Answered, Brought, Relies, KnownAstray, Resources, buttons_open, buttons_close, buttons_irq
  <2> QED
    BY <2>1, <2>2, <2>3
<1> QED
  BY <1>10, <1>11, <1>12, <1>13 DEF Orderly

(* The buttons with the timer (7th-chr_dev_drv_all). *)
LEMMA ButtonsAllOrderly == Orderly("buttons_all")
<1> DEFINE s == InitOf("buttons_all")
           e == ExitOf("buttons_all")
<1>1. /\ s = buttons_all_init /\ e = buttons_all_exit
      /\ Calls("buttons_all") = {buttons_open, buttons_close, buttons_all_irq, buttons_all_timer}
      /\ Pinned("buttons_all") = TRUE
  BY SMT DEF Modules, Loadable, Unpinned, InitOf, ExitOf, Calls, Pinned
<1>2. s = InitOf("buttons_all") /\ e = ExitOf("buttons_all")
  OBVIOUS
<1> HIDE DEF s, e
<1>3. /\ Len(s) = 7 /\ Is(s, 1, "get", "timer_set") /\ Is(s, 2, "get", "unarmed")
      /\ Is(s, 3, "put", "unarmed") /\ Is(s, 4, "get", "timer") /\ Is(s, 5, "get", "chrdev")
      /\ Is(s, 6, "get", "class") /\ Is(s, 7, "get", "device")
  BY <1>1, SMT DEF buttons_all_init, set_timer
<1>4. /\ Len(e) = 4 /\ Is(e, 1, "put", "chrdev") /\ Is(e, 2, "put", "device")
      /\ Is(e, 3, "put", "class") /\ Is(e, 4, "drop", "timer_set")
  BY <1>1, SMT DEF buttons_all_exit
<1>5. \A k \in 1..Len(s) : /\ s[k].op \in {"get", "put"}
                           /\ k = 1 \/ k = 2 \/ k = 3 \/ k = 4 \/ k = 5 \/ k = 6 \/ k = 7
  BY <1>3, SMT
<1>6. \A k \in 1..Len(e) : /\ e[k].op \in {"put", "drop"}
                           /\ k = 1 \/ k = 2 \/ k = 3 \/ k = 4
  BY <1>4, SMT
<1>7. \A r : Obtains("buttons_all", r) => r \in {Code, "timer_set", "unarmed", "timer", "chrdev", "class", "device", "file", "irqs"}
  BY <1>1, <1>2, <1>3, <1>5, SMTT(30)
     DEF Obtains, Brought, buttons_open, buttons_close, buttons_all_irq, buttons_all_timer
<1>8. \A r : Brief("buttons_all", r) => r = "unarmed"
  BY <1>2, <1>3, <1>5, SMT DEF Brief
<1>9. \A r : Owned("buttons_all", r) => r \in {"chrdev", "device", "class"}
  BY <1>2, <1>4, <1>6, SMT DEF Owned, Wants
<1>10. Loads("buttons_all")
  <2>1. s \in InitScript
    BY <1>1, SMT DEF buttons_all_init, set_timer, InitScript, UndoScript, Script, Resources, Outlasts
  <2>2. Founded("buttons_all", "loading", s, {Code})
    BY <1>1, <1>3, <1>5, SMT
       DEF Founded, Wants, Sure, KnownTwice, KnownAstray, buttons_open, buttons_close, buttons_all_irq,
           buttons_all_timer
  <2>3. Undoable("buttons_all", s, {Code})
    BY <1>5, SMT DEF Undoable
  <2>4. Keeping("buttons_all", s, {Code})
    BY <1>1, <1>3, <1>9, SMT
       DEF Keeping, Steady, Sure, buttons_open, buttons_close, buttons_all_irq, buttons_all_timer
  <2>5. Passing("buttons_all", s, Leftovers("buttons_all"))
    BY <1>1, <1>3, <1>5, <1>8, SMT
       DEF Passing, Quiet, Brought, Gone, Absent, Leftovers, Left, KnownLeft, buttons_open,
           buttons_close, buttons_all_irq, buttons_all_timer
  <2>6. Grounded("buttons_all", s, {Code})
    BY <1>1, <1>3, <1>5, SMTT(30)
       DEF Grounded, Relies, Steady, Sure, buttons_open, buttons_close, buttons_all_irq,
           buttons_all_timer
  <2>7. Failable("buttons_all", s, Leftovers("buttons_all"))
    BY <1>5, SMT DEF Failable
  <2>8. Unrelied("buttons_all", s)
    BY <1>3, <1>5, SMT DEF Unrelied, Relies
  <2>9. Calm("buttons_all", "loading", s, Leftovers("buttons_all"))
    BY <1>1, <1>3, <1>5, SMT
       DEF Calm, Wants, Undisturbed, Closed, Quiet, Brought, KnownTwice, KnownAstray, Leftovers, Left,
           KnownLeft, Outlasts, buttons_open, buttons_close, buttons_all_irq, buttons_all_timer
  <2> QED
    BY <1>2, <2>1, <2>2, <2>3, <2>4, <2>5, <2>6, <2>7, <2>8, <2>9 DEF Loads
<1>11. Unloads("buttons_all")
  <2>1. Keeps("buttons_all") \subseteq {Code, "timer_set", "timer", "chrdev", "class", "device", "file", "irqs"}
    BY <1>2, <1>3, <1>7, SMT DEF Keeps, Brief
  <2>2. e \in ExitScript
    BY <1>1, SMT DEF buttons_all_exit, ExitScript, Script, Resources, Outlasts
  <2>3. Single("buttons_all", e)
    BY <1>4, <1>6, SMT DEF Single, Wants, KnownTwice, KnownAstray
  <2>4. Ordered("buttons_all", e, Keeps("buttons_all"))
    BY <1>1, <1>4, <1>6, <2>1, SMTT(30)
       DEF Ordered, Blocked, Relies, Ends, Quiet, Brought, Absent, buttons_open, buttons_close,
           buttons_all_irq, buttons_all_timer
  <2>5. Clearing("buttons_all", e)
    BY <1>1, <1>4, <2>1, SMT
       DEF Clearing, Left, KnownLeft, Blocked, Relies, Ends, Quiet, Brought, Absent, Outlasts,
           buttons_open, buttons_close, buttons_all_irq, buttons_all_timer
  <2> QED
    BY <1>2, <2>2, <2>3, <2>4, <2>5 DEF Unloads
<1>12. Apart("buttons_all")
  BY <1>1, <1>8, SMT DEF Apart, Relies, Left, KnownLeft, Outlasts
<1>13. \A c \in Calls("buttons_all") : Answered("buttons_all", c)
  BY <1>1, SMTT(30)
     DEF Answered, Brought, Relies, KnownAstray, Resources, buttons_open, buttons_close,
         buttons_all_irq, buttons_all_timer
<1> QED
  BY <1>10, <1>11, <1>12, <1>13 DEF Orderly

(* The buttons as an input device (8th-input_sub_sys). *)
LEMMA InputSubOrderly == Orderly("input_sub")
<1> DEFINE s == InitOf("input_sub")
           e == ExitOf("input_sub")
<1>1. /\ s = input_sub_init /\ e = input_sub_exit
      /\ Calls("input_sub") = {input_sub_irq, input_sub_timer}
      /\ Pinned("input_sub") = FALSE
  BY SMT DEF Modules, Loadable, Unpinned, InitOf, ExitOf, Calls, Pinned
<1>2. s = InitOf("input_sub") /\ e = ExitOf("input_sub")
  OBVIOUS
<1> HIDE DEF s, e
<1>3. /\ Len(s) = 8 /\ Is(s, 1, "maybe", "input_dev") /\ Is(s, 2, "check", "input_dev")
      /\ Is(s, 3, "get", "input") /\ Is(s, 4, "get", "timer_set") /\ Is(s, 5, "get", "unarmed")
      /\ Is(s, 6, "put", "unarmed") /\ Is(s, 7, "get", "timer") /\ Is(s, 8, "get", "irqs")
      /\ s[2].undo = <<>>
  BY <1>1, SMT DEF input_sub_init, set_timer
<1>4. /\ Len(e) = 6 /\ Is(e, 1, "put", "irqs") /\ Is(e, 2, "drop", "timer")
      /\ Is(e, 3, "put", "input") /\ Is(e, 4, "put", "input_dev") /\ Is(e, 5, "put", "input_dev")
      /\ Is(e, 6, "drop", "timer_set")
  BY <1>1, SMT DEF input_sub_exit, input_unregister, input_free
<1>5. \A k \in 1..Len(s) : /\ s[k].op \in {"maybe", "check", "get", "put"}
                           /\ k = 1 \/ k = 2 \/ k = 3 \/ k = 4 \/ k = 5 \/ k = 6 \/ k = 7 \/ k = 8
  BY <1>3, SMT
<1>6. \A k \in 1..Len(e) : /\ e[k].op \in {"put", "drop"}
                           /\ k = 1 \/ k = 2 \/ k = 3 \/ k = 4 \/ k = 5 \/ k = 6
  BY <1>4, SMT
<1>7. \A r : Obtains("input_sub", r) => r \in {Code, "input_dev", "input", "timer_set", "unarmed", "timer", "irqs"}
  BY <1>1, <1>2, <1>3, <1>5, SMTT(30) DEF Obtains, Brought, input_sub_irq, input_sub_timer
<1>8. \A r : Brief("input_sub", r) => r = "unarmed"
  BY <1>2, <1>3, <1>5, SMT DEF Brief
<1>9. \A r : Owned("input_sub", r) => r \in {"irqs", "input", "input_dev"}
  BY <1>2, <1>4, <1>6, SMT DEF Owned, Wants
<1>10. Loads("input_sub")
  <2>1. s \in InitScript
    BY <1>1, SMT DEF input_sub_init, set_timer, InitScript, UndoScript, Script, Resources, Outlasts
  <2>2. Founded("input_sub", "loading", s, {Code})
    BY <1>1, <1>3, <1>5, SMT
       DEF Founded, Wants, Sure, KnownTwice, KnownAstray, input_sub_irq, input_sub_timer
  <2>3. Undoable("input_sub", s, {Code})
    BY <1>3, <1>5, SMT DEF Undoable
  <2>4. Keeping("input_sub", s, {Code})
    BY <1>1, <1>3, <1>9, SMT DEF Keeping, Steady, Sure, input_sub_irq, input_sub_timer
  <2>5. Passing("input_sub", s, Leftovers("input_sub"))
    BY <1>1, <1>3, <1>5, <1>8, SMT
       DEF Passing, Quiet, Brought, Gone, Absent, Leftovers, Left, KnownLeft, input_sub_irq,
           input_sub_timer
  <2>6. Grounded("input_sub", s, {Code})
    BY <1>1, <1>3, <1>5, SMTT(30) DEF Grounded, Relies, Steady, Sure, input_sub_irq, input_sub_timer
  <2>7. Failable("input_sub", s, Leftovers("input_sub"))
    BY <1>1, <1>3, <1>5, <1>7, SMTT(30)
       DEF Failable, Cleaned, Lost, Blocked, Quiet, Brought, Gone, Absent, Leftovers, Left, KnownLeft,
           Outlasts, Relies, input_sub_irq, input_sub_timer
  <2>8. Unrelied("input_sub", s)
    BY <1>3, <1>5, SMT DEF Unrelied, Relies
  <2>9. Calm("input_sub", "loading", s, Leftovers("input_sub"))
    BY <1>1, <1>3, <1>5, SMT
       DEF Calm, Wants, Undisturbed, Closed, Quiet, Brought, KnownTwice, KnownAstray, Leftovers, Left,
           KnownLeft, Outlasts, input_sub_irq, input_sub_timer
  <2> QED
    BY <1>2, <2>1, <2>2, <2>3, <2>4, <2>5, <2>6, <2>7, <2>8, <2>9 DEF Loads
<1>11. Unloads("input_sub")
  <2>1. Keeps("input_sub") \subseteq {Code, "input_dev", "input", "timer_set", "timer", "irqs"}
    BY <1>2, <1>3, <1>7, SMT DEF Keeps, Brief
  <2>2. e \in ExitScript
    BY <1>1, SMT
       DEF input_sub_exit, input_unregister, input_free, ExitScript, Script, Resources, Outlasts
  <2>3. Single("input_sub", e)
    BY <1>4, <1>6, SMT DEF Single, Wants, KnownTwice, KnownAstray
  <2>4. Ordered("input_sub", e, Keeps("input_sub"))
    BY <1>1, <1>4, <1>6, <2>1, SMTT(30)
       DEF Ordered, Blocked, Relies, Ends, Quiet, Brought, Absent, input_sub_irq, input_sub_timer
  <2>5. Clearing("input_sub", e)
    BY <1>1, <1>4, <2>1, SMT
       DEF Clearing, Left, KnownLeft, Blocked, Relies, Ends, Quiet, Brought, Absent, Outlasts,
           input_sub_irq, input_sub_timer
  <2> QED
    BY <1>2, <2>2, <2>3, <2>4, <2>5 DEF Unloads
<1>12. Apart("input_sub")
  BY <1>1, <1>8, SMT DEF Apart, Relies, Left, KnownLeft, Outlasts
<1>13. \A c \in Calls("input_sub") : Answered("input_sub", c)
  BY <1>1, SMTT(30)
     DEF Answered, Brought, Relies, KnownAstray, Resources, input_sub_irq, input_sub_timer
<1> QED
  BY <1>10, <1>11, <1>12, <1>13 DEF Orderly

(* The touch screen (11th-ts). *)
LEMMA TouchOrderly == Orderly("touch")
<1> DEFINE s == InitOf("touch")
           e == ExitOf("touch")
<1>1. /\ s = s3c_ts_init /\ e = s3c_ts_exit
      /\ Calls("touch") = {pen_down_up_irq, adc_irq, ts_timer}
      /\ Pinned("touch") = FALSE
  BY SMT DEF Modules, Loadable, Unpinned, InitOf, ExitOf, Calls, Pinned
<1>2. s = InitOf("touch") /\ e = ExitOf("touch")
  OBVIOUS
<1> HIDE DEF s, e
<1>3. /\ Len(s) = 13 /\ Is(s, 1, "get", "input_dev") /\ Is(s, 2, "get", "input")
      /\ Is(s, 3, "get", "clk") /\ Is(s, 4, "get", "regs") /\ Is(s, 5, "use", "regs")
      /\ Is(s, 6, "get", "irq_tc") /\ Is(s, 7, "get", "irq_adc") /\ Is(s, 8, "use", "regs")
      /\ Is(s, 9, "get", "timer_set") /\ Is(s, 10, "get", "unarmed") /\ Is(s, 11, "put", "unarmed")
      /\ Is(s, 12, "get", "timer") /\ Is(s, 13, "use", "regs")
  BY <1>1, SMT DEF s3c_ts_init, set_timer
<1>4. /\ Len(e) = 8 /\ Is(e, 1, "drop", "timer") /\ Is(e, 2, "put", "irq_tc")
      /\ Is(e, 3, "put", "irq_adc") /\ Is(e, 4, "put", "regs") /\ Is(e, 5, "put", "input")
      /\ Is(e, 6, "put", "input_dev") /\ Is(e, 7, "put", "input_dev")
      /\ Is(e, 8, "drop", "timer_set")
  BY <1>1, SMT DEF s3c_ts_exit, input_unregister, input_free
<1>5. \A k \in 1..Len(s) : /\ s[k].op \in {"get", "use", "put"}
                           /\ k = 1 \/ k = 2 \/ k = 3 \/ k = 4 \/ k = 5 \/ k = 6 \/ k = 7 \/ k = 8
                              \/ k = 9 \/ k = 10 \/ k = 11 \/ k = 12 \/ k = 13
  BY <1>3, SMT
<1>6. \A k \in 1..Len(e) : /\ e[k].op \in {"drop", "put"}
                           /\ k = 1 \/ k = 2 \/ k = 3 \/ k = 4 \/ k = 5 \/ k = 6 \/ k = 7 \/ k = 8
  BY <1>4, SMT
<1>7. \A r : Obtains("touch", r) => r \in {Code, "input_dev", "input", "clk", "regs", "irq_tc", "irq_adc", "timer_set", "unarmed", "timer"}
  BY <1>1, <1>2, <1>3, <1>5, SMTT(30) DEF Obtains, Brought, pen_down_up_irq, adc_irq, ts_timer
<1>8. \A r : Brief("touch", r) => r = "unarmed"
  BY <1>2, <1>3, <1>5, SMTT(30) DEF Brief
<1>9. \A r : Owned("touch", r) => r \in {"irq_tc", "irq_adc", "regs", "input", "input_dev"}
  BY <1>2, <1>4, <1>6, SMTT(30) DEF Owned, Wants
<1>10. Loads("touch")
  <2>1. s \in InitScript
    BY <1>1, SMT DEF s3c_ts_init, set_timer, InitScript, UndoScript, Script, Resources, Outlasts
  <2>2. Founded("touch", "loading", s, {Code})
    BY <1>1, <1>3, <1>5, SMT
       DEF Founded, Wants, Sure, KnownTwice, KnownAstray, pen_down_up_irq, adc_irq, ts_timer
  <2>3. Undoable("touch", s, {Code})
    BY <1>5, SMT DEF Undoable
  <2>4. Keeping("touch", s, {Code})
    BY <1>1, <1>3, <1>9, SMT DEF Keeping, Steady, Sure, pen_down_up_irq, adc_irq, ts_timer
  <2>5. Passing("touch", s, Leftovers("touch"))
    BY <1>1, <1>3, <1>5, <1>8, SMT
       DEF Passing, Quiet, Brought, Gone, Absent, Leftovers, Left, KnownLeft, pen_down_up_irq, adc_irq,
           ts_timer
  <2>6. Grounded("touch", s, {Code})
    BY <1>1, <1>3, <1>5, SMTT(30) DEF Grounded, Relies, Steady, Sure, pen_down_up_irq, adc_irq, ts_timer
  <2>7. Failable("touch", s, Leftovers("touch"))
    BY <1>5, SMT DEF Failable
  <2>8. Unrelied("touch", s)
    BY <1>3, <1>5, SMT DEF Unrelied, Relies
  <2>9. Calm("touch", "loading", s, Leftovers("touch"))
    BY <1>1, <1>3, <1>5, SMT
       DEF Calm, Wants, Undisturbed, Closed, Quiet, Brought, KnownTwice, KnownAstray, Leftovers, Left,
           KnownLeft, Outlasts, pen_down_up_irq, adc_irq, ts_timer
  <2> QED
    BY <1>2, <2>1, <2>2, <2>3, <2>4, <2>5, <2>6, <2>7, <2>8, <2>9 DEF Loads
<1>11. Unloads("touch")
  <2>1. Keeps("touch") \subseteq {Code, "input_dev", "input", "clk", "regs", "irq_tc", "irq_adc", "timer_set", "timer"}
    BY <1>2, <1>3, <1>7, SMT DEF Keeps, Brief
  <2>2. e \in ExitScript
    BY <1>1, SMT DEF s3c_ts_exit, input_unregister, input_free, ExitScript, Script, Resources, Outlasts
  <2>3. Single("touch", e)
    BY <1>4, <1>6, SMT DEF Single, Wants, KnownTwice, KnownAstray
  <2>4. Ordered("touch", e, Keeps("touch"))
    BY <1>1, <1>4, <1>6, <2>1, SMTT(30)
       DEF Ordered, Blocked, Relies, Ends, Quiet, Brought, Absent, pen_down_up_irq, adc_irq, ts_timer
  <2>5. Clearing("touch", e)
    BY <1>1, <1>4, <2>1, SMT
       DEF Clearing, Left, KnownLeft, Blocked, Relies, Ends, Quiet, Brought, Absent, Outlasts,
           pen_down_up_irq, adc_irq, ts_timer
  <2> QED
    BY <1>2, <2>2, <2>3, <2>4, <2>5 DEF Unloads
<1>12. Apart("touch")
  BY <1>1, <1>8, SMT DEF Apart, Relies, Left, KnownLeft, Outlasts
<1>13. \A c \in Calls("touch") : Answered("touch", c)
  BY <1>1, SMTT(30)
     DEF Answered, Brought, Relies, KnownAstray, Resources, pen_down_up_irq, adc_irq, ts_timer
<1> QED
  BY <1>10, <1>11, <1>12, <1>13 DEF Orderly

(* The USB mouse (12th-usb). *)
LEMMA MouseOrderly == Orderly("usbmouse")
<1> DEFINE s == InitOf("usbmouse")
           e == ExitOf("usbmouse")
<1>1. /\ s = usbmouse_as_key_init /\ e = usbmouse_as_key_exit
      /\ Calls("usbmouse") = {usbmouse_as_key_irq, usbmouse_as_key_irq_last}
      /\ Pinned("usbmouse") = FALSE
  BY SMT DEF Modules, Loadable, Unpinned, InitOf, ExitOf, Calls, Pinned
<1>2. s = InitOf("usbmouse") /\ e = ExitOf("usbmouse")
  OBVIOUS
<1> HIDE DEF s, e
<1>3. /\ Len(s) = 6 /\ Is(s, 1, "get", "usb_driver") /\ Is(s, 2, "get", "input_dev")
      /\ Is(s, 3, "get", "input") /\ Is(s, 4, "get", "usb_buf") /\ Is(s, 5, "get", "urb")
      /\ Is(s, 6, "maybe", "urb_active")
  BY <1>1, SMT DEF usbmouse_as_key_init, usbmouse_as_key_probe
<1>4. /\ Len(e) = 7 /\ Is(e, 1, "drop", "urb_active") /\ Is(e, 2, "put", "urb")
      /\ Is(e, 3, "put", "usb_buf") /\ Is(e, 4, "put", "input") /\ Is(e, 5, "put", "input_dev")
      /\ Is(e, 6, "put", "input_dev") /\ Is(e, 7, "put", "usb_driver")
  BY <1>1, SMT DEF usbmouse_as_key_exit, usbmouse_as_key_disconnect, input_unregister, input_free
<1>5. \A k \in 1..Len(s) : /\ s[k].op \in {"get", "maybe"}
                           /\ k = 1 \/ k = 2 \/ k = 3 \/ k = 4 \/ k = 5 \/ k = 6
  BY <1>3, SMT
<1>6. \A k \in 1..Len(e) : /\ e[k].op \in {"drop", "put"}
                           /\ k = 1 \/ k = 2 \/ k = 3 \/ k = 4 \/ k = 5 \/ k = 6 \/ k = 7
  BY <1>4, SMT
<1>7. \A r : Obtains("usbmouse", r) => r \in {Code, "usb_driver", "input_dev", "input", "usb_buf", "urb", "urb_active"}
  BY <1>1, <1>2, <1>3, <1>5, SMTT(30)
     DEF Obtains, Brought, usbmouse_as_key_irq, usbmouse_as_key_irq_last
<1>8. \A r : ~Brief("usbmouse", r)
  BY <1>2, <1>3, <1>5, SMT DEF Brief
<1>9. \A r : Owned("usbmouse", r) => r \in {"urb", "usb_buf", "input", "input_dev", "usb_driver"}
  BY <1>2, <1>4, <1>6, SMT DEF Owned, Wants
<1>10. Loads("usbmouse")
  <2>1. s \in InitScript
    BY <1>1, SMT
       DEF usbmouse_as_key_init, usbmouse_as_key_probe, InitScript, UndoScript, Script, Resources,
           Outlasts
  <2>2. Founded("usbmouse", "loading", s, {Code})
    BY <1>1, <1>3, <1>5, SMT
       DEF Founded, Wants, Sure, KnownTwice, KnownAstray, usbmouse_as_key_irq, usbmouse_as_key_irq_last
  <2>3. Undoable("usbmouse", s, {Code})
    BY <1>5, SMT DEF Undoable
  <2>4. Keeping("usbmouse", s, {Code})
    BY <1>1, <1>3, <1>9, SMT DEF Keeping, Steady, Sure, usbmouse_as_key_irq, usbmouse_as_key_irq_last
  <2>5. Passing("usbmouse", s, Leftovers("usbmouse"))
    BY <1>8, SMT DEF Passing
  <2>6. Grounded("usbmouse", s, {Code})
    BY <1>1, <1>3, <1>5, SMTT(30)
       DEF Grounded, Relies, Steady, Sure, usbmouse_as_key_irq, usbmouse_as_key_irq_last
  <2>7. Failable("usbmouse", s, Leftovers("usbmouse"))
    BY <1>5, SMT DEF Failable
  <2>8. Unrelied("usbmouse", s)
    BY <1>3, <1>5, SMT DEF Unrelied, Relies
  <2>9. Calm("usbmouse", "loading", s, Leftovers("usbmouse"))
    BY <1>5, SMT DEF Calm, Wants
  <2> QED
    BY <1>2, <2>1, <2>2, <2>3, <2>4, <2>5, <2>6, <2>7, <2>8, <2>9 DEF Loads
<1>11. Unloads("usbmouse")
  <2>1. Keeps("usbmouse") \subseteq {Code, "usb_driver", "input_dev", "input", "usb_buf", "urb", "urb_active"}
    BY <1>7, SMT DEF Keeps
  <2>2. e \in ExitScript
    BY <1>1, SMT
       DEF usbmouse_as_key_exit, usbmouse_as_key_disconnect, input_unregister, input_free, ExitScript,
           Script, Resources, Outlasts
  <2>3. Single("usbmouse", e)
    BY <1>4, <1>6, SMT DEF Single, Wants, KnownTwice, KnownAstray
  <2>4. Ordered("usbmouse", e, Keeps("usbmouse"))
    BY <1>1, <1>4, <1>6, <2>1, SMTT(30)
       DEF Ordered, Blocked, Relies, Ends, Quiet, Brought, Absent, usbmouse_as_key_irq,
           usbmouse_as_key_irq_last
  <2>5. Clearing("usbmouse", e)
    BY <1>1, <1>4, <2>1, SMT
       DEF Clearing, Left, KnownLeft, Blocked, Relies, Ends, Quiet, Brought, Absent, Outlasts,
           usbmouse_as_key_irq, usbmouse_as_key_irq_last
  <2> QED
    BY <1>2, <2>2, <2>3, <2>4, <2>5 DEF Unloads
<1>12. Apart("usbmouse")
  BY <1>1, <1>8, SMT DEF Apart, Relies, Left, KnownLeft, Outlasts
<1>13. \A c \in Calls("usbmouse") : Answered("usbmouse", c)
  BY <1>1, SMTT(30)
     DEF Answered, Brought, Relies, KnownAstray, Resources, usbmouse_as_key_irq,
         usbmouse_as_key_irq_last
<1> QED
  BY <1>10, <1>11, <1>12, <1>13 DEF Orderly

(* The frame buffer (10th-lcd). *)
LEMMA LcdOrderly == Orderly("lcd")
<1> DEFINE s == InitOf("lcd")
           e == ExitOf("lcd")
<1>1. /\ s = lcd_init /\ e = lcd_exit
      /\ Calls("lcd") = {lcd_scan, lcd_open, lcd_draw, Closes({})}
      /\ Pinned("lcd") = TRUE
  BY SMT DEF Modules, Loadable, Unpinned, InitOf, ExitOf, Calls, Pinned
<1>2. s = InitOf("lcd") /\ e = ExitOf("lcd")
  OBVIOUS
<1> HIDE DEF s, e
<1>3. /\ Len(s) = 12 /\ Is(s, 1, "maybe", "fb_info") /\ Is(s, 2, "check", "fb_info")
      /\ Is(s, 3, "get", "gpccon") /\ Is(s, 4, "get", "gpdcon") /\ Is(s, 5, "get", "gpgcon")
      /\ Is(s, 6, "get", "regs") /\ Is(s, 7, "use", "regs") /\ Is(s, 8, "get", "video_memory")
      /\ Is(s, 9, "use", "regs") /\ Is(s, 10, "get", "lcd_on") /\ Is(s, 11, "maybe", "framebuffer")
      /\ Is(s, 12, "check", "framebuffer") /\ s[2].undo = <<>> /\ s[12].undo = <<>>
  BY <1>1, SMT DEF lcd_init
<1>4. /\ Len(e) = 9 /\ Is(e, 1, "put", "framebuffer") /\ Is(e, 2, "use", "regs")
      /\ Is(e, 3, "put", "lcd_on") /\ Is(e, 4, "put", "video_memory") /\ Is(e, 5, "put", "regs")
      /\ Is(e, 6, "put", "gpgcon") /\ Is(e, 7, "put", "gpccon") /\ Is(e, 8, "put", "gpdcon")
      /\ Is(e, 9, "put", "fb_info")
  BY <1>1, SMT DEF lcd_exit
<1>5. \A k \in 1..Len(s) : /\ s[k].op \in {"maybe", "check", "get", "use"}
                           /\ k = 1 \/ k = 2 \/ k = 3 \/ k = 4 \/ k = 5 \/ k = 6 \/ k = 7 \/ k = 8
                              \/ k = 9 \/ k = 10 \/ k = 11 \/ k = 12
  BY <1>3, SMT
<1>6. \A k \in 1..Len(e) : /\ e[k].op \in {"put", "use"}
                           /\ k = 1 \/ k = 2 \/ k = 3 \/ k = 4 \/ k = 5 \/ k = 6 \/ k = 7 \/ k = 8
                              \/ k = 9
  BY <1>4, SMT
<1>7. \A r : Obtains("lcd", r) => r \in {Code, "fb_info", "gpccon", "gpdcon", "gpgcon", "regs", "video_memory", "lcd_on", "framebuffer", "file"}
  BY <1>1, <1>2, <1>3, <1>5, SMTT(30) DEF Obtains, Brought, lcd_scan, lcd_open, lcd_draw
<1>8. \A r : ~Brief("lcd", r)
  BY <1>2, <1>3, <1>5, SMTT(30) DEF Brief
<1>9. \A r : Owned("lcd", r) => r \in {"framebuffer", "regs", "lcd_on", "video_memory", "gpgcon", "gpccon", "gpdcon", "fb_info"}
  BY <1>2, <1>4, <1>6, SMTT(30) DEF Owned, Wants
<1>10. Loads("lcd")
  <2>1. s \in InitScript
    BY <1>1, SMT DEF lcd_init, InitScript, UndoScript, Script, Resources, Outlasts
  <2>2. Founded("lcd", "loading", s, {Code})
    BY <1>1, <1>3, <1>5, SMT
       DEF Founded, Wants, Sure, KnownTwice, KnownAstray, lcd_scan, lcd_open, lcd_draw
  <2>3. Undoable("lcd", s, {Code})
    <3>1. \A k \in 1..Len(s) : s[k].op = "check" => s[k].undo = <<>>
      BY <1>3, <1>5, SMT
    <3> QED
      BY <3>1, SMT DEF Undoable
  <2>4. Keeping("lcd", s, {Code})
    BY <1>1, <1>3, <1>9, SMT DEF Keeping, Steady, Sure, lcd_scan, lcd_open, lcd_draw
  <2>5. Passing("lcd", s, Leftovers("lcd"))
    BY <1>8, SMT DEF Passing
  <2>6. Grounded("lcd", s, {Code})
    BY <1>1, <1>3, <1>5, SMTT(30) DEF Grounded, Relies, Steady, Sure, lcd_scan, lcd_open, lcd_draw
  <2>7. Failable("lcd", s, Leftovers("lcd"))
    BY <1>1, <1>3, <1>5, <1>7, SMTT(30)
       DEF Failable, Cleaned, Lost, Blocked, Quiet, Brought, Gone, Absent, Leftovers, Left, KnownLeft,
           Outlasts, Relies, lcd_scan, lcd_open, lcd_draw
  <2>8. Unrelied("lcd", s)
    BY <1>3, <1>5, SMT DEF Unrelied, Relies
  <2>9. Calm("lcd", "loading", s, Leftovers("lcd"))
    <3>1. \A i \in 1..Len(s) : Wants("lcd", "loading", s[i]) => s[i].res \in {"regs"}
      BY <1>3, <1>5, SMT DEF Wants
    <3>2. \A r \in {"regs"} : Steady("lcd", r)
      BY <1>1, SMT DEF Steady, lcd_scan, lcd_open, lcd_draw
    <3> QED
      BY <3>1, <3>2, SMT DEF Calm, Undisturbed, Steady
  <2> QED
    BY <1>2, <2>1, <2>2, <2>3, <2>4, <2>5, <2>6, <2>7, <2>8, <2>9 DEF Loads
<1>11. Unloads("lcd")
  <2>1. Keeps("lcd") \subseteq {Code, "fb_info", "gpccon", "gpdcon", "gpgcon", "regs", "video_memory", "lcd_on", "framebuffer", "file"}
    BY <1>7, SMT DEF Keeps
  <2>2. e \in ExitScript
    BY <1>1, SMT DEF lcd_exit, ExitScript, Script, Resources, Outlasts
  <2>3. Single("lcd", e)
    BY <1>4, <1>6, SMT DEF Single, Wants, KnownTwice, KnownAstray
  <2>4. Ordered("lcd", e, Keeps("lcd"))
    BY <1>1, <1>4, <1>6, <2>1, SMTT(30)
       DEF Ordered, Blocked, Relies, Ends, Quiet, Brought, Absent, lcd_scan, lcd_open, lcd_draw
  <2>5. Clearing("lcd", e)
    BY <1>1, <1>4, <2>1, SMT
       DEF Clearing, Left, KnownLeft, Blocked, Relies, Ends, Quiet, Brought, Absent, Outlasts,
           lcd_scan, lcd_open, lcd_draw
  <2> QED
    BY <1>2, <2>2, <2>3, <2>4, <2>5 DEF Unloads
<1>12. Apart("lcd")
  BY <1>1, <1>8, SMT DEF Apart, Relies, Left, KnownLeft, Outlasts
<1>13. \A c \in Calls("lcd") : Answered("lcd", c)
  BY <1>1, SMTT(30) DEF Answered, Brought, Relies, KnownAstray, Resources, lcd_scan, lcd_open, lcd_draw
<1> QED
  BY <1>10, <1>11, <1>12, <1>13 DEF Orderly

(* The NAND flash (14th-nand). *)
LEMMA NandOrderly == Orderly("s3c_nand")
<1> DEFINE s == InitOf("s3c_nand")
           e == ExitOf("s3c_nand")
<1>1. /\ s = s3c_nand_init /\ e = s3c_nand_exit
      /\ Calls("s3c_nand") = {nand_open, nand_access, Closes({})}
      /\ Pinned("s3c_nand") = TRUE
  BY SMT DEF Modules, Loadable, Unpinned, InitOf, ExitOf, Calls, Pinned
<1>2. s = InitOf("s3c_nand") /\ e = ExitOf("s3c_nand")
  OBVIOUS
<1> HIDE DEF s, e
<1>3. /\ Len(s) = 8 /\ Is(s, 1, "get", "chip") /\ Is(s, 2, "get", "regs") /\ Is(s, 3, "get", "clk")
      /\ Is(s, 4, "use", "regs") /\ Is(s, 5, "get", "mtd") /\ Is(s, 6, "maybe", "scan_data")
      /\ Is(s, 7, "use", "scan_data") /\ Is(s, 8, "get", "mtd_registered")
  BY <1>1, SMT DEF s3c_nand_init
<1>4. /\ Len(e) = 4 /\ Is(e, 1, "put", "mtd_registered") /\ Is(e, 2, "put", "mtd")
      /\ Is(e, 3, "put", "regs") /\ Is(e, 4, "put", "chip")
  BY <1>1, SMT DEF s3c_nand_exit
<1>5. \A k \in 1..Len(s) : /\ s[k].op \in {"get", "use", "maybe"}
                           /\ k = 1 \/ k = 2 \/ k = 3 \/ k = 4 \/ k = 5 \/ k = 6 \/ k = 7 \/ k = 8
  BY <1>3, SMT
<1>6. \A k \in 1..Len(e) : /\ e[k].op \in {"put"}
                           /\ k = 1 \/ k = 2 \/ k = 3 \/ k = 4
  BY <1>4, SMT
<1>7. \A r : Obtains("s3c_nand", r) => r \in {Code, "chip", "regs", "clk", "mtd", "scan_data", "mtd_registered", "file"}
  BY <1>1, <1>2, <1>3, <1>5, SMTT(30) DEF Obtains, Brought, nand_open, nand_access
<1>8. \A r : ~Brief("s3c_nand", r)
  BY <1>2, <1>3, <1>5, SMT DEF Brief
<1>9. \A r : Owned("s3c_nand", r) => r \in {"mtd_registered", "mtd", "regs", "chip"}
  BY <1>2, <1>4, <1>6, SMT DEF Owned, Wants
<1>10. Loads("s3c_nand")
  <2>1. s \in InitScript
    BY <1>1, SMT DEF s3c_nand_init, InitScript, UndoScript, Script, Resources, Outlasts
  <2>2. Founded("s3c_nand", "loading", s, {Code})
    BY <1>1, <1>3, <1>5, SMT DEF Founded, Wants, Sure, KnownTwice, KnownAstray, nand_open, nand_access
  <2>3. Undoable("s3c_nand", s, {Code})
    BY <1>5, SMT DEF Undoable
  <2>4. Keeping("s3c_nand", s, {Code})
    BY <1>1, <1>3, <1>9, SMT DEF Keeping, Steady, Sure, nand_open, nand_access
  <2>5. Passing("s3c_nand", s, Leftovers("s3c_nand"))
    BY <1>8, SMT DEF Passing
  <2>6. Grounded("s3c_nand", s, {Code})
    BY <1>1, <1>3, <1>5, SMTT(30) DEF Grounded, Relies, Steady, Sure, nand_open, nand_access
  <2>7. Failable("s3c_nand", s, Leftovers("s3c_nand"))
    BY <1>5, SMT DEF Failable
  <2>8. Unrelied("s3c_nand", s)
    BY <1>3, <1>5, SMT DEF Unrelied, Relies
  <2>9. Calm("s3c_nand", "loading", s, Leftovers("s3c_nand"))
    <3>1. \A i \in 1..Len(s) : Wants("s3c_nand", "loading", s[i]) => s[i].res \in {"regs", "scan_data"}
      BY <1>3, <1>5, SMT DEF Wants
    <3>2. \A r \in {"regs", "scan_data"} : Steady("s3c_nand", r)
      BY <1>1, SMT DEF Steady, nand_open, nand_access
    <3> QED
      BY <3>1, <3>2, SMT DEF Calm, Undisturbed, Steady
  <2> QED
    BY <1>2, <2>1, <2>2, <2>3, <2>4, <2>5, <2>6, <2>7, <2>8, <2>9 DEF Loads
<1>11. Unloads("s3c_nand")
  <2>1. Keeps("s3c_nand") \subseteq {Code, "chip", "regs", "clk", "mtd", "scan_data", "mtd_registered", "file"}
    BY <1>7, SMT DEF Keeps
  <2>2. e \in ExitScript
    BY <1>1, SMT DEF s3c_nand_exit, ExitScript, Script, Resources, Outlasts
  <2>3. Single("s3c_nand", e)
    BY <1>4, <1>6, SMT DEF Single, Wants, KnownTwice, KnownAstray
  <2>4. Ordered("s3c_nand", e, Keeps("s3c_nand"))
    BY <1>1, <1>4, <1>6, <2>1, SMTT(30)
       DEF Ordered, Blocked, Relies, Ends, Quiet, Brought, Absent, nand_open, nand_access
  <2>5. Clearing("s3c_nand", e)
    BY <1>1, <1>4, <2>1, SMT
       DEF Clearing, Left, KnownLeft, Blocked, Relies, Ends, Quiet, Brought, Absent, Outlasts,
           nand_open, nand_access
  <2> QED
    BY <1>2, <2>2, <2>3, <2>4, <2>5 DEF Unloads
<1>12. Apart("s3c_nand")
  BY <1>1, <1>8, SMT DEF Apart, Relies, Left, KnownLeft, Outlasts
<1>13. \A c \in Calls("s3c_nand") : Answered("s3c_nand", c)
  BY <1>1, SMTT(30) DEF Answered, Brought, Relies, KnownAstray, Resources, nand_open, nand_access
<1> QED
  BY <1>10, <1>11, <1>12, <1>13 DEF Orderly

(* The NOR flash (15th-nor). *)
LEMMA NorOrderly == Orderly("s3c_nor")
<1> DEFINE s == InitOf("s3c_nor")
           e == ExitOf("s3c_nor")
<1>1. /\ s = s3c_nor_init /\ e = s3c_nor_exit
      /\ Calls("s3c_nor") = {nor_open, nor_access, nor_close}
      /\ Pinned("s3c_nor") = FALSE
  BY SMT DEF Modules, Loadable, Unpinned, InitOf, ExitOf, Calls, Pinned
<1>2. s = InitOf("s3c_nor") /\ e = ExitOf("s3c_nor")
  OBVIOUS
<1> HIDE DEF s, e
<1>3. /\ Len(s) = 6 /\ Is(s, 1, "get", "map") /\ Is(s, 2, "get", "virt") /\ Is(s, 3, "maybe", "mtd")
      /\ Is(s, 4, "maybe", "mtd") /\ Is(s, 5, "check", "mtd") /\ Is(s, 6, "get", "mtd_registered")
      /\ s[5].undo = <<Put("virt"), Put("map")>>
  BY <1>1, SMT DEF s3c_nor_init
<1>4. /\ Len(e) = 3 /\ Is(e, 1, "put_idle", "mtd_registered") /\ Is(e, 2, "put", "virt")
      /\ Is(e, 3, "put", "map")
  BY <1>1, SMT DEF s3c_nor_exit
<1>5. \A k \in 1..Len(s) : /\ s[k].op \in {"get", "maybe", "check"}
                           /\ k = 1 \/ k = 2 \/ k = 3 \/ k = 4 \/ k = 5 \/ k = 6
  BY <1>3, SMT
<1>6. \A k \in 1..Len(e) : /\ e[k].op \in {"put_idle", "put"}
                           /\ k = 1 \/ k = 2 \/ k = 3
  BY <1>4, SMT
<1>7. \A r : Obtains("s3c_nor", r) => r \in {Code, "map", "virt", "mtd", "mtd_registered", "file"}
  BY <1>1, <1>2, <1>3, <1>5, SMTT(30) DEF Obtains, Brought, nor_open, nor_access, nor_close
<1>8. \A r : ~Brief("s3c_nor", r)
  BY <1>2, <1>3, <1>5, SMT DEF Brief
<1>9. \A r : Owned("s3c_nor", r) => r \in {"virt", "map"}
  BY <1>2, <1>4, <1>6, SMT DEF Owned, Wants
<1>10. Loads("s3c_nor")
  <2>1. s \in InitScript
    BY <1>1, SMT DEF s3c_nor_init, InitScript, UndoScript, Script, Resources, Outlasts
  <2>2. Founded("s3c_nor", "loading", s, {Code})
    BY <1>1, <1>3, <1>5, SMT
       DEF Founded, Wants, Sure, KnownTwice, KnownAstray, nor_open, nor_access, nor_close
  <2>3. Undoable("s3c_nor", s, {Code})
    BY <1>1, <1>3, <1>5, SMTT(30) DEF Undoable, Steady, Sure, Relies, nor_open, nor_access, nor_close
  <2>4. Keeping("s3c_nor", s, {Code})
    BY <1>1, <1>3, <1>9, SMT DEF Keeping, Steady, Sure, nor_open, nor_access, nor_close
  <2>5. Passing("s3c_nor", s, Leftovers("s3c_nor"))
    BY <1>8, SMT DEF Passing
  <2>6. Grounded("s3c_nor", s, {Code})
    BY <1>1, <1>3, <1>5, SMTT(30) DEF Grounded, Relies, Steady, Sure, nor_open, nor_access, nor_close
  <2>7. Failable("s3c_nor", s, Leftovers("s3c_nor"))
    <3>1. \A k \in 1..Len(s) : s[k].op = "check" => k = 5 /\ s[k].res = "mtd"
      BY <1>3, <1>5, SMT
    <3>2. \A r : Obtains("s3c_nor", r) => r \in Outlasts \/ Left("s3c_nor", r) \/ r \in {"map", "virt"}
      BY <1>7, SMT DEF Outlasts, Left, KnownLeft
    <3>3. \A r \in {"map", "virt"} : Quiet("s3c_nor", r) /\ \E j \in 1..Len(s[5].undo) : s[5].undo[j].res = r
      BY <1>1, <1>3, SMT DEF Quiet, Brought, nor_open, nor_access, nor_close
    <3>4. \A d : ~Relies("s3c_nor", d, Code)
      BY SMT DEF Relies
    <3> QED
      BY <1>1, <3>1, <3>2, <3>3, <3>4 DEF Failable, Cleaned
  <2>8. Unrelied("s3c_nor", s)
    BY <1>3, <1>5, SMT DEF Unrelied, Relies
  <2>9. Calm("s3c_nor", "loading", s, Leftovers("s3c_nor"))
    BY <1>5, SMT DEF Calm, Wants
  <2> QED
    BY <1>2, <2>1, <2>2, <2>3, <2>4, <2>5, <2>6, <2>7, <2>8, <2>9 DEF Loads
<1>11. Unloads("s3c_nor")
  <2>1. Keeps("s3c_nor") \subseteq {Code, "map", "virt", "mtd", "mtd_registered", "file"}
    BY <1>7, SMT DEF Keeps
  <2>2. e \in ExitScript
    BY <1>1, SMT DEF s3c_nor_exit, ExitScript, Script, Resources, Outlasts
  <2>3. Single("s3c_nor", e)
    BY <1>4, <1>6, SMT DEF Single, Wants, KnownTwice, KnownAstray
  <2>4. Ordered("s3c_nor", e, Keeps("s3c_nor"))
    BY <1>1, <1>4, <1>6, <2>1, SMTT(30)
       DEF Ordered, Blocked, Relies, Ends, Quiet, Brought, Absent, nor_open, nor_access, nor_close
  <2>5. Clearing("s3c_nor", e)
    BY <1>1, <1>4, <2>1, SMT
       DEF Clearing, Left, KnownLeft, Blocked, Relies, Ends, Quiet, Brought, Absent, Outlasts,
           nor_open, nor_access, nor_close
  <2> QED
    BY <1>2, <2>2, <2>3, <2>4, <2>5 DEF Unloads
<1>12. Apart("s3c_nor")
  BY <1>1, <1>8, SMT DEF Apart, Relies, Left, KnownLeft, Outlasts
<1>13. \A c \in Calls("s3c_nor") : Answered("s3c_nor", c)
  BY <1>1, SMTT(30)
     DEF Answered, Brought, Relies, KnownAstray, Resources, nor_open, nor_access, nor_close
<1> QED
  BY <1>10, <1>11, <1>12, <1>13 DEF Orderly

(* The RAM block device (13th-ramblock). *)
LEMMA RamOrderly == Orderly("ramblock")
<1> DEFINE s == InitOf("ramblock")
           e == ExitOf("ramblock")
<1>1. /\ s = ramblock_init /\ e = ramblock_exit
      /\ Calls("ramblock") = {ramblock_open, ramblock_close, ramblock_request}
      /\ Pinned("ramblock") = TRUE
  BY SMT DEF Modules, Loadable, Unpinned, InitOf, ExitOf, Calls, Pinned
<1>2. s = InitOf("ramblock") /\ e = ExitOf("ramblock")
  OBVIOUS
<1> HIDE DEF s, e
<1>3. /\ Len(s) = 5 /\ Is(s, 1, "get", "gendisk") /\ Is(s, 2, "get", "queue")
      /\ Is(s, 3, "get", "blkdev") /\ Is(s, 4, "get", "buffer") /\ Is(s, 5, "get", "disk")
  BY <1>1, SMT DEF ramblock_init
<1>4. /\ Len(e) = 5 /\ Is(e, 1, "put", "blkdev") /\ Is(e, 2, "put", "disk")
      /\ Is(e, 3, "put", "gendisk") /\ Is(e, 4, "put", "queue") /\ Is(e, 5, "put", "buffer")
  BY <1>1, SMT DEF ramblock_exit
<1>5. \A k \in 1..Len(s) : /\ s[k].op \in {"get"}
                           /\ k = 1 \/ k = 2 \/ k = 3 \/ k = 4 \/ k = 5
  BY <1>3, SMT
<1>6. \A k \in 1..Len(e) : /\ e[k].op \in {"put"}
                           /\ k = 1 \/ k = 2 \/ k = 3 \/ k = 4 \/ k = 5
  BY <1>4, SMT
<1>7. \A r : Obtains("ramblock", r) => r \in {Code, "gendisk", "queue", "blkdev", "buffer", "disk", "file"}
  BY <1>1, <1>2, <1>3, <1>5, SMTT(30)
     DEF Obtains, Brought, ramblock_open, ramblock_close, ramblock_request
<1>8. \A r : ~Brief("ramblock", r)
  BY <1>2, <1>3, <1>5, SMT DEF Brief
<1>9. \A r : Owned("ramblock", r) => r \in {"blkdev", "disk", "gendisk", "queue", "buffer"}
  BY <1>2, <1>4, <1>6, SMT DEF Owned, Wants
<1>10. Loads("ramblock")
  <2>1. s \in InitScript
    BY <1>1, SMT DEF ramblock_init, InitScript, UndoScript, Script, Resources, Outlasts
  <2>2. Founded("ramblock", "loading", s, {Code})
    BY <1>1, <1>3, <1>5, SMT
       DEF Founded, Wants, Sure, KnownTwice, KnownAstray, ramblock_open, ramblock_close,
           ramblock_request
  <2>3. Undoable("ramblock", s, {Code})
    BY <1>5, SMT DEF Undoable
  <2>4. Keeping("ramblock", s, {Code})
    BY <1>1, <1>3, <1>9, SMT DEF Keeping, Steady, Sure, ramblock_open, ramblock_close, ramblock_request
  <2>5. Passing("ramblock", s, Leftovers("ramblock"))
    BY <1>8, SMT DEF Passing
  <2>6. Grounded("ramblock", s, {Code})
    BY <1>1, <1>3, <1>5, SMTT(30)
       DEF Grounded, Relies, Steady, Sure, ramblock_open, ramblock_close, ramblock_request
  <2>7. Failable("ramblock", s, Leftovers("ramblock"))
    BY <1>5, SMT DEF Failable
  <2>8. Unrelied("ramblock", s)
    BY <1>3, <1>5, SMT DEF Unrelied, Relies
  <2>9. Calm("ramblock", "loading", s, Leftovers("ramblock"))
    BY <1>5, SMT DEF Calm, Wants
  <2> QED
    BY <1>2, <2>1, <2>2, <2>3, <2>4, <2>5, <2>6, <2>7, <2>8, <2>9 DEF Loads
<1>11. Unloads("ramblock")
  <2>1. Keeps("ramblock") \subseteq {Code, "gendisk", "queue", "blkdev", "buffer", "disk", "file"}
    BY <1>7, SMT DEF Keeps
  <2>2. e \in ExitScript
    BY <1>1, SMT DEF ramblock_exit, ExitScript, Script, Resources, Outlasts
  <2>3. Single("ramblock", e)
    BY <1>4, <1>6, SMT DEF Single, Wants, KnownTwice, KnownAstray
  <2>4. Ordered("ramblock", e, Keeps("ramblock"))
    BY <1>1, <1>4, <1>6, <2>1, SMTT(30)
       DEF Ordered, Blocked, Relies, Ends, Quiet, Brought, Absent, ramblock_open, ramblock_close,
           ramblock_request
  <2>5. Clearing("ramblock", e)
    BY <1>1, <1>4, <2>1, SMT
       DEF Clearing, Left, KnownLeft, Blocked, Relies, Ends, Quiet, Brought, Absent, Outlasts,
           ramblock_open, ramblock_close, ramblock_request
  <2> QED
    BY <1>2, <2>2, <2>3, <2>4, <2>5 DEF Unloads
<1>12. Apart("ramblock")
  BY <1>1, <1>8, SMT DEF Apart, Relies, Left, KnownLeft, Outlasts
<1>13. \A c \in Calls("ramblock") : Answered("ramblock", c)
  BY <1>1, SMTT(30)
     DEF Answered, Brought, Relies, KnownAstray, Resources, ramblock_open, ramblock_close,
         ramblock_request
<1> QED
  BY <1>10, <1>11, <1>12, <1>13 DEF Orderly

(* The virtual network device (16th-virt_net). *)
LEMMA VirtOrderly == Orderly("virt_net")
<1> DEFINE s == InitOf("virt_net")
           e == ExitOf("virt_net")
<1>1. /\ s = virt_net_init /\ e = virt_net_exit
      /\ Calls("virt_net") = {virt_net_send_packet}
      /\ Pinned("virt_net") = FALSE
  BY SMT DEF Modules, Loadable, Unpinned, InitOf, ExitOf, Calls, Pinned
<1>2. s = InitOf("virt_net") /\ e = ExitOf("virt_net")
  OBVIOUS
<1> HIDE DEF s, e
<1>3. /\ Len(s) = 3 /\ Is(s, 1, "maybe", "netdev") /\ Is(s, 2, "check", "netdev")
      /\ Is(s, 3, "get", "registered") /\ s[2].undo = <<>>
  BY <1>1, SMT DEF virt_net_init
<1>4. /\ Len(e) = 2 /\ Is(e, 1, "put", "registered") /\ Is(e, 2, "put", "netdev")
  BY <1>1, SMT DEF virt_net_exit
<1>5. \A k \in 1..Len(s) : /\ s[k].op \in {"maybe", "check", "get"}
                           /\ k = 1 \/ k = 2 \/ k = 3
  BY <1>3, SMT
<1>6. \A k \in 1..Len(e) : /\ e[k].op \in {"put"}
                           /\ k = 1 \/ k = 2
  BY <1>4, SMT
<1>7. \A r : Obtains("virt_net", r) => r \in {Code, "netdev", "registered"}
  BY <1>1, <1>2, <1>3, <1>5, SMTT(30) DEF Obtains, Brought, virt_net_send_packet, emulator_rx_packet
<1>8. \A r : ~Brief("virt_net", r)
  BY <1>2, <1>3, <1>5, SMT DEF Brief
<1>9. \A r : Owned("virt_net", r) => r \in {"registered", "netdev"}
  BY <1>2, <1>4, <1>6, SMT DEF Owned, Wants
<1>10. Loads("virt_net")
  <2>1. s \in InitScript
    BY <1>1, SMT DEF virt_net_init, InitScript, UndoScript, Script, Resources, Outlasts
  <2>2. Founded("virt_net", "loading", s, {Code})
    BY <1>1, <1>3, <1>5, SMT
       DEF Founded, Wants, Sure, KnownTwice, KnownAstray, virt_net_send_packet, emulator_rx_packet
  <2>3. Undoable("virt_net", s, {Code})
    BY <1>3, <1>5, SMT DEF Undoable
  <2>4. Keeping("virt_net", s, {Code})
    BY <1>1, <1>3, <1>9, SMT DEF Keeping, Steady, Sure, virt_net_send_packet, emulator_rx_packet
  <2>5. Passing("virt_net", s, Leftovers("virt_net"))
    BY <1>8, SMT DEF Passing
  <2>6. Grounded("virt_net", s, {Code})
    BY <1>1, <1>3, <1>5, SMTT(30)
       DEF Grounded, Relies, Steady, Sure, virt_net_send_packet, emulator_rx_packet
  <2>7. Failable("virt_net", s, Leftovers("virt_net"))
    BY <1>1, <1>3, <1>5, <1>7, SMTT(30)
       DEF Failable, Cleaned, Lost, Blocked, Quiet, Brought, Gone, Absent, Leftovers, Left, KnownLeft,
           Outlasts, Relies, virt_net_send_packet, emulator_rx_packet
  <2>8. Unrelied("virt_net", s)
    BY <1>3, <1>5, SMT DEF Unrelied, Relies
  <2>9. Calm("virt_net", "loading", s, Leftovers("virt_net"))
    BY <1>5, SMT DEF Calm, Wants
  <2> QED
    BY <1>2, <2>1, <2>2, <2>3, <2>4, <2>5, <2>6, <2>7, <2>8, <2>9 DEF Loads
<1>11. Unloads("virt_net")
  <2>1. Keeps("virt_net") \subseteq {Code, "netdev", "registered"}
    BY <1>7, SMT DEF Keeps
  <2>2. e \in ExitScript
    BY <1>1, SMT DEF virt_net_exit, ExitScript, Script, Resources, Outlasts
  <2>3. Single("virt_net", e)
    BY <1>4, <1>6, SMT DEF Single, Wants, KnownTwice, KnownAstray
  <2>4. Ordered("virt_net", e, Keeps("virt_net"))
    BY <1>1, <1>4, <1>6, <2>1, SMTT(30)
       DEF Ordered, Blocked, Relies, Ends, Quiet, Brought, Absent, virt_net_send_packet,
           emulator_rx_packet
  <2>5. Clearing("virt_net", e)
    BY <1>1, <1>4, <2>1, SMT
       DEF Clearing, Left, KnownLeft, Blocked, Relies, Ends, Quiet, Brought, Absent, Outlasts,
           virt_net_send_packet, emulator_rx_packet
  <2> QED
    BY <1>2, <2>2, <2>3, <2>4, <2>5 DEF Unloads
<1>12. Apart("virt_net")
  BY <1>1, <1>8, SMT DEF Apart, Relies, Left, KnownLeft, Outlasts
<1>13. \A c \in Calls("virt_net") : Answered("virt_net", c)
  BY <1>1, SMTT(30)
     DEF Answered, Brought, Relies, KnownAstray, Resources, virt_net_send_packet, emulator_rx_packet
<1> QED
  BY <1>10, <1>11, <1>12, <1>13 DEF Orderly

(* The I2C bus adapter (21th_i2c_drv/6th_i2c_bus). *)
LEMMA BusOrderly == Orderly("i2c_bus")
<1> DEFINE s == InitOf("i2c_bus")
           e == ExitOf("i2c_bus")
<1>1. /\ s = i2c_bus_s3c2440_init /\ e = i2c_bus_s3c2440_exit
      /\ Calls("i2c_bus") = {xfer_irq, xfer_begin, xfer_end}
      /\ Pinned("i2c_bus") = FALSE
  BY SMT DEF Modules, Loadable, Unpinned, InitOf, ExitOf, Calls, Pinned
<1>2. s = InitOf("i2c_bus") /\ e = ExitOf("i2c_bus")
  OBVIOUS
<1> HIDE DEF s, e
<1>3. /\ Len(s) = 5 /\ Is(s, 1, "get", "regs") /\ Is(s, 2, "get", "clk") /\ Is(s, 3, "use", "regs")
      /\ Is(s, 4, "get", "irq") /\ Is(s, 5, "get", "adapter")
  BY <1>1, SMT DEF i2c_bus_s3c2440_init
<1>4. /\ Len(e) = 3 /\ Is(e, 1, "put", "adapter") /\ Is(e, 2, "put", "irq")
      /\ Is(e, 3, "put", "regs")
  BY <1>1, SMT DEF i2c_bus_s3c2440_exit
<1>5. \A k \in 1..Len(s) : /\ s[k].op \in {"get", "use"}
                           /\ k = 1 \/ k = 2 \/ k = 3 \/ k = 4 \/ k = 5
  BY <1>3, SMT
<1>6. \A k \in 1..Len(e) : /\ e[k].op \in {"put"}
                           /\ k = 1 \/ k = 2 \/ k = 3
  BY <1>4, SMT
<1>7. \A r : Obtains("i2c_bus", r) => r \in {Code, "regs", "clk", "irq", "adapter", "transfer"}
  BY <1>1, <1>2, <1>3, <1>5, SMTT(30) DEF Obtains, Brought, xfer_irq, xfer_begin, xfer_end
<1>8. \A r : ~Brief("i2c_bus", r)
  BY <1>2, <1>3, <1>5, SMT DEF Brief
<1>9. \A r : Owned("i2c_bus", r) => r \in {"adapter", "irq", "regs"}
  BY <1>2, <1>4, <1>6, SMT DEF Owned, Wants
<1>10. Loads("i2c_bus")
  <2>1. s \in InitScript
    BY <1>1, SMT DEF i2c_bus_s3c2440_init, InitScript, UndoScript, Script, Resources, Outlasts
  <2>2. Founded("i2c_bus", "loading", s, {Code})
    BY <1>1, <1>3, <1>5, SMT
       DEF Founded, Wants, Sure, KnownTwice, KnownAstray, xfer_irq, xfer_begin, xfer_end
  <2>3. Undoable("i2c_bus", s, {Code})
    BY <1>5, SMT DEF Undoable
  <2>4. Keeping("i2c_bus", s, {Code})
    BY <1>1, <1>3, <1>9, SMT DEF Keeping, Steady, Sure, xfer_irq, xfer_begin, xfer_end
  <2>5. Passing("i2c_bus", s, Leftovers("i2c_bus"))
    BY <1>8, SMT DEF Passing
  <2>6. Grounded("i2c_bus", s, {Code})
    BY <1>1, <1>3, <1>5, SMTT(30) DEF Grounded, Relies, Steady, Sure, xfer_irq, xfer_begin, xfer_end
  <2>7. Failable("i2c_bus", s, Leftovers("i2c_bus"))
    BY <1>5, SMT DEF Failable
  <2>8. Unrelied("i2c_bus", s)
    BY <1>3, <1>5, SMT DEF Unrelied, Relies
  <2>9. Calm("i2c_bus", "loading", s, Leftovers("i2c_bus"))
    <3>1. \A i \in 1..Len(s) : Wants("i2c_bus", "loading", s[i]) => s[i].res \in {"regs"}
      BY <1>3, <1>5, SMT DEF Wants
    <3>2. \A r \in {"regs"} : Steady("i2c_bus", r)
      BY <1>1, SMT DEF Steady, xfer_irq, xfer_begin, xfer_end
    <3> QED
      BY <3>1, <3>2, SMT DEF Calm, Undisturbed, Steady
  <2> QED
    BY <1>2, <2>1, <2>2, <2>3, <2>4, <2>5, <2>6, <2>7, <2>8, <2>9 DEF Loads
<1>11. Unloads("i2c_bus")
  <2>1. Keeps("i2c_bus") \subseteq {Code, "regs", "clk", "irq", "adapter", "transfer"}
    BY <1>7, SMT DEF Keeps
  <2>2. e \in ExitScript
    BY <1>1, SMT DEF i2c_bus_s3c2440_exit, ExitScript, Script, Resources, Outlasts
  <2>3. Single("i2c_bus", e)
    BY <1>4, <1>6, SMT DEF Single, Wants, KnownTwice, KnownAstray
  <2>4. Ordered("i2c_bus", e, Keeps("i2c_bus"))
    BY <1>1, <1>4, <1>6, <2>1, SMTT(30)
       DEF Ordered, Blocked, Relies, Ends, Quiet, Brought, Absent, xfer_irq, xfer_begin, xfer_end
  <2>5. Clearing("i2c_bus", e)
    BY <1>1, <1>4, <2>1, SMT
       DEF Clearing, Left, KnownLeft, Blocked, Relies, Ends, Quiet, Brought, Absent, Outlasts,
           xfer_irq, xfer_begin, xfer_end
  <2> QED
    BY <1>2, <2>2, <2>3, <2>4, <2>5 DEF Unloads
<1>12. Apart("i2c_bus")
  BY <1>1, <1>8, SMT DEF Apart, Relies, Left, KnownLeft, Outlasts
<1>13. \A c \in Calls("i2c_bus") : Answered("i2c_bus", c)
  BY <1>1, SMTT(30)
     DEF Answered, Brought, Relies, KnownAstray, Resources, xfer_irq, xfer_begin, xfer_end
<1> QED
  BY <1>10, <1>11, <1>12, <1>13 DEF Orderly

(* The AT24Cxx of the newer kernel (21th_i2c_drv/4th_drv_dev_test). *)
LEMMA DevOrderly == Orderly("at24cxx_dev")
<1> DEFINE s == InitOf("at24cxx_dev")
           e == ExitOf("at24cxx_dev")
<1>1. /\ s = at24cxx_dev_init /\ e = at24cxx_dev_exit
      /\ Calls("at24cxx_dev") = {at24cxx_open, at24cxx_read, at24cxx_write, at24cxx_close}
      /\ Pinned("at24cxx_dev") = FALSE
  BY SMT DEF Modules, Loadable, Unpinned, InitOf, ExitOf, Calls, Pinned
<1>2. s = InitOf("at24cxx_dev") /\ e = ExitOf("at24cxx_dev")
  OBVIOUS
<1> HIDE DEF s, e
<1>3. /\ Len(s) = 6 /\ Is(s, 1, "get", "adapter_ref") /\ Is(s, 2, "get", "client")
      /\ Is(s, 3, "get", "chrdev") /\ Is(s, 4, "get", "class") /\ Is(s, 5, "get", "device")
      /\ Is(s, 6, "put", "adapter_ref")
  BY <1>1, SMT DEF at24cxx_dev_init, at24cxx_probe
<1>4. /\ Len(e) = 4 /\ Is(e, 1, "put", "device") /\ Is(e, 2, "put", "class")
      /\ Is(e, 3, "put", "chrdev") /\ Is(e, 4, "put", "client")
  BY <1>1, SMT DEF at24cxx_dev_exit, at24cxx_remove
<1>5. \A k \in 1..Len(s) : /\ s[k].op \in {"get", "put"}
                           /\ k = 1 \/ k = 2 \/ k = 3 \/ k = 4 \/ k = 5 \/ k = 6
  BY <1>3, SMT
<1>6. \A k \in 1..Len(e) : /\ e[k].op \in {"put"}
                           /\ k = 1 \/ k = 2 \/ k = 3 \/ k = 4
  BY <1>4, SMT
<1>7. \A r : Obtains("at24cxx_dev", r) => r \in {Code, "adapter_ref", "client", "chrdev", "class", "device", "file"}
  BY <1>1, <1>2, <1>3, <1>5, SMTT(30)
     DEF Obtains, Brought, at24cxx_open, at24cxx_read, at24cxx_write, at24cxx_close
<1>8. \A r : Brief("at24cxx_dev", r) => r = "adapter_ref"
  BY <1>2, <1>3, <1>5, SMT DEF Brief
<1>9. \A r : Owned("at24cxx_dev", r) => r \in {"device", "class", "chrdev", "client"}
  BY <1>2, <1>4, <1>6, SMT DEF Owned, Wants
<1>10. Loads("at24cxx_dev")
  <2>1. s \in InitScript
    BY <1>1, SMT
       DEF at24cxx_dev_init, at24cxx_probe, InitScript, UndoScript, Script, Resources, Outlasts
  <2>2. Founded("at24cxx_dev", "loading", s, {Code})
    BY <1>1, <1>3, <1>5, SMT
       DEF Founded, Wants, Sure, KnownTwice, KnownAstray, at24cxx_open, at24cxx_read, at24cxx_write,
           at24cxx_close
  <2>3. Undoable("at24cxx_dev", s, {Code})
    BY <1>5, SMT DEF Undoable
  <2>4. Keeping("at24cxx_dev", s, {Code})
    BY <1>1, <1>3, <1>9, SMT
       DEF Keeping, Steady, Sure, at24cxx_open, at24cxx_read, at24cxx_write, at24cxx_close
  <2>5. Passing("at24cxx_dev", s, Leftovers("at24cxx_dev"))
    BY <1>1, <1>3, <1>5, <1>8, SMT
       DEF Passing, Quiet, Brought, Gone, Absent, Leftovers, Left, KnownLeft, at24cxx_open,
           at24cxx_read, at24cxx_write, at24cxx_close
  <2>6. Grounded("at24cxx_dev", s, {Code})
    BY <1>1, <1>3, <1>5, SMTT(30)
       DEF Grounded, Relies, Steady, Sure, at24cxx_open, at24cxx_read, at24cxx_write, at24cxx_close
  <2>7. Failable("at24cxx_dev", s, Leftovers("at24cxx_dev"))
    BY <1>5, SMT DEF Failable
  <2>8. Unrelied("at24cxx_dev", s)
    BY <1>3, <1>5, SMT DEF Unrelied, Relies
  <2>9. Calm("at24cxx_dev", "loading", s, Leftovers("at24cxx_dev"))
    BY <1>1, <1>3, <1>5, SMT
       DEF Calm, Wants, Undisturbed, Closed, Quiet, Brought, KnownTwice, KnownAstray, Leftovers, Left,
           KnownLeft, Outlasts, at24cxx_open, at24cxx_read, at24cxx_write, at24cxx_close
  <2> QED
    BY <1>2, <2>1, <2>2, <2>3, <2>4, <2>5, <2>6, <2>7, <2>8, <2>9 DEF Loads
<1>11. Unloads("at24cxx_dev")
  <2>1. Keeps("at24cxx_dev") \subseteq {Code, "client", "chrdev", "class", "device", "file"}
    BY <1>2, <1>3, <1>7, SMT DEF Keeps, Brief
  <2>2. e \in ExitScript
    BY <1>1, SMT DEF at24cxx_dev_exit, at24cxx_remove, ExitScript, Script, Resources, Outlasts
  <2>3. Single("at24cxx_dev", e)
    BY <1>4, <1>6, SMT DEF Single, Wants, KnownTwice, KnownAstray
  <2>4. Ordered("at24cxx_dev", e, Keeps("at24cxx_dev"))
    BY <1>1, <1>4, <1>6, <2>1, SMTT(30)
       DEF Ordered, Blocked, Relies, Ends, Quiet, Brought, Absent, at24cxx_open, at24cxx_read,
           at24cxx_write, at24cxx_close
  <2>5. Clearing("at24cxx_dev", e)
    BY <1>1, <1>4, <2>1, SMT
       DEF Clearing, Left, KnownLeft, Blocked, Relies, Ends, Quiet, Brought, Absent, Outlasts,
           at24cxx_open, at24cxx_read, at24cxx_write, at24cxx_close
  <2> QED
    BY <1>2, <2>2, <2>3, <2>4, <2>5 DEF Unloads
<1>12. Apart("at24cxx_dev")
  BY <1>1, <1>8, SMT DEF Apart, Relies, Left, KnownLeft, Outlasts
<1>13. \A c \in Calls("at24cxx_dev") : Answered("at24cxx_dev", c)
  BY <1>1, SMTT(30)
     DEF Answered, Brought, Relies, KnownAstray, Resources, at24cxx_open, at24cxx_read, at24cxx_write,
         at24cxx_close
<1> QED
  BY <1>10, <1>11, <1>12, <1>13 DEF Orderly

(* A client made by name (21th_i2c_drv/1th). *)
LEMMA NewOrderly == Orderly("new_device")
<1> DEFINE s == InitOf("new_device")
           e == ExitOf("new_device")
<1>1. /\ s = new_device_init /\ e = new_device_exit
      /\ Calls("new_device") = {}
      /\ Pinned("new_device") = FALSE
  BY SMT DEF Modules, Loadable, Unpinned, InitOf, ExitOf, Calls, Pinned
<1>2. s = InitOf("new_device") /\ e = ExitOf("new_device")
  OBVIOUS
<1> HIDE DEF s, e
<1>3. /\ Len(s) = 3 /\ Is(s, 1, "get", "adapter_ref") /\ Is(s, 2, "get", "client")
      /\ Is(s, 3, "put", "adapter_ref")
  BY <1>1, SMT DEF new_device_init
<1>4. /\ Len(e) = 1 /\ Is(e, 1, "put", "client")
  BY <1>1, SMT DEF new_device_exit
<1>5. \A k \in 1..Len(s) : /\ s[k].op \in {"get", "put"}
                           /\ k = 1 \/ k = 2 \/ k = 3
  BY <1>3, SMT
<1>6. \A k \in 1..Len(e) : /\ e[k].op \in {"put"}
                           /\ k = 1
  BY <1>4, SMT
<1>7. \A r : Obtains("new_device", r) => r \in {Code, "adapter_ref", "client"}
  BY <1>1, <1>2, <1>3, <1>5, SMTT(30) DEF Obtains, Brought
<1>8. \A r : Brief("new_device", r) => r = "adapter_ref"
  BY <1>2, <1>3, <1>5, SMT DEF Brief
<1>9. \A r : Owned("new_device", r) => r \in {"client"}
  BY <1>2, <1>4, <1>6, SMT DEF Owned, Wants
<1>10. Loads("new_device")
  <2>1. s \in InitScript
    BY <1>1, SMT DEF new_device_init, InitScript, UndoScript, Script, Resources, Outlasts
  <2>2. Founded("new_device", "loading", s, {Code})
    BY <1>1, <1>3, <1>5, SMT DEF Founded, Wants, Sure, KnownTwice, KnownAstray
  <2>3. Undoable("new_device", s, {Code})
    BY <1>5, SMT DEF Undoable
  <2>4. Keeping("new_device", s, {Code})
    BY <1>1, <1>3, <1>9, SMT DEF Keeping, Steady, Sure
  <2>5. Passing("new_device", s, Leftovers("new_device"))
    BY <1>1, <1>3, <1>5, <1>8, SMT DEF Passing, Quiet, Brought, Gone, Absent, Leftovers, Left, KnownLeft
  <2>6. Grounded("new_device", s, {Code})
    BY <1>1, <1>3, <1>5, SMTT(30) DEF Grounded, Relies, Steady, Sure
  <2>7. Failable("new_device", s, Leftovers("new_device"))
    BY <1>5, SMT DEF Failable
  <2>8. Unrelied("new_device", s)
    BY <1>3, <1>5, SMT DEF Unrelied, Relies
  <2>9. Calm("new_device", "loading", s, Leftovers("new_device"))
    BY <1>1, <1>3, <1>5, SMT
       DEF Calm, Wants, Undisturbed, Closed, Quiet, Brought, KnownTwice, KnownAstray, Leftovers, Left,
           KnownLeft, Outlasts
  <2> QED
    BY <1>2, <2>1, <2>2, <2>3, <2>4, <2>5, <2>6, <2>7, <2>8, <2>9 DEF Loads
<1>11. Unloads("new_device")
  <2>1. Keeps("new_device") \subseteq {Code, "client"}
    BY <1>2, <1>3, <1>7, SMT DEF Keeps, Brief
  <2>2. e \in ExitScript
    BY <1>1, SMT DEF new_device_exit, ExitScript, Script, Resources, Outlasts
  <2>3. Single("new_device", e)
    BY <1>4, <1>6, SMT DEF Single, Wants, KnownTwice, KnownAstray
  <2>4. Ordered("new_device", e, Keeps("new_device"))
    BY <1>1, <1>4, <1>6, <2>1, SMTT(30) DEF Ordered, Blocked, Relies, Ends, Quiet, Brought, Absent
  <2>5. Clearing("new_device", e)
    BY <1>1, <1>4, <2>1, SMT
       DEF Clearing, Left, KnownLeft, Blocked, Relies, Ends, Quiet, Brought, Absent, Outlasts
  <2> QED
    BY <1>2, <2>2, <2>3, <2>4, <2>5 DEF Unloads
<1>12. Apart("new_device")
  BY <1>1, <1>8, SMT DEF Apart, Relies, Left, KnownLeft, Outlasts
<1> QED
  BY <1>1, <1>10, <1>11, <1>12 DEF Orderly

(* A client made if a chip answers (21th_i2c_drv/2th). *)
LEMMA NewProbedOrderly == Orderly("new_probed_device")
<1> DEFINE s == InitOf("new_probed_device")
           e == ExitOf("new_probed_device")
<1>1. /\ s = new_probed_device_init /\ e = new_probed_device_exit
      /\ Calls("new_probed_device") = {}
      /\ Pinned("new_probed_device") = FALSE
  BY SMT DEF Modules, Loadable, Unpinned, InitOf, ExitOf, Calls, Pinned
<1>2. s = InitOf("new_probed_device") /\ e = ExitOf("new_probed_device")
  OBVIOUS
<1> HIDE DEF s, e
<1>3. /\ Len(s) = 4 /\ Is(s, 1, "get", "adapter_ref") /\ Is(s, 2, "maybe", "client")
      /\ Is(s, 3, "put", "adapter_ref") /\ Is(s, 4, "check", "client") /\ s[4].undo = <<>>
  BY <1>1, SMT DEF new_probed_device_init
<1>4. /\ Len(e) = 1 /\ Is(e, 1, "put", "client")
  BY <1>1, SMT DEF new_probed_device_exit
<1>5. \A k \in 1..Len(s) : /\ s[k].op \in {"get", "maybe", "put", "check"}
                           /\ k = 1 \/ k = 2 \/ k = 3 \/ k = 4
  BY <1>3, SMT
<1>6. \A k \in 1..Len(e) : /\ e[k].op \in {"put"}
                           /\ k = 1
  BY <1>4, SMT
<1>7. \A r : Obtains("new_probed_device", r) => r \in {Code, "adapter_ref", "client"}
  BY <1>1, <1>2, <1>3, <1>5, SMTT(30) DEF Obtains, Brought
<1>8. \A r : Brief("new_probed_device", r) => r = "adapter_ref"
  BY <1>2, <1>3, <1>5, SMT DEF Brief
<1>9. \A r : Owned("new_probed_device", r) => r \in {"client"}
  BY <1>2, <1>4, <1>6, SMT DEF Owned, Wants
<1>10. Loads("new_probed_device")
  <2>1. s \in InitScript
    BY <1>1, SMT DEF new_probed_device_init, InitScript, UndoScript, Script, Resources, Outlasts
  <2>2. Founded("new_probed_device", "loading", s, {Code})
    BY <1>1, <1>3, <1>5, SMT DEF Founded, Wants, Sure, KnownTwice, KnownAstray
  <2>3. Undoable("new_probed_device", s, {Code})
    BY <1>3, <1>5, SMT DEF Undoable
  <2>4. Keeping("new_probed_device", s, {Code})
    BY <1>1, <1>3, <1>9, SMT DEF Keeping, Steady, Sure
  <2>5. Passing("new_probed_device", s, Leftovers("new_probed_device"))
    BY <1>1, <1>3, <1>5, <1>8, SMT DEF Passing, Quiet, Brought, Gone, Absent, Leftovers, Left, KnownLeft
  <2>6. Grounded("new_probed_device", s, {Code})
    BY <1>1, <1>3, <1>5, SMTT(30) DEF Grounded, Relies, Steady, Sure
  <2>7. Failable("new_probed_device", s, Leftovers("new_probed_device"))
    BY <1>1, <1>3, <1>5, <1>7, SMTT(30)
       DEF Failable, Cleaned, Lost, Blocked, Quiet, Brought, Gone, Absent, Leftovers, Left, KnownLeft,
           Outlasts, Relies
  <2>8. Unrelied("new_probed_device", s)
    BY <1>3, <1>5, SMT DEF Unrelied, Relies
  <2>9. Calm("new_probed_device", "loading", s, Leftovers("new_probed_device"))
    BY <1>1, <1>3, <1>5, SMT
       DEF Calm, Wants, Undisturbed, Closed, Quiet, Brought, KnownTwice, KnownAstray, Leftovers, Left,
           KnownLeft, Outlasts
  <2> QED
    BY <1>2, <2>1, <2>2, <2>3, <2>4, <2>5, <2>6, <2>7, <2>8, <2>9 DEF Loads
<1>11. Unloads("new_probed_device")
  <2>1. Keeps("new_probed_device") \subseteq {Code, "client"}
    BY <1>2, <1>3, <1>7, SMT DEF Keeps, Brief
  <2>2. e \in ExitScript
    BY <1>1, SMT DEF new_probed_device_exit, ExitScript, Script, Resources, Outlasts
  <2>3. Single("new_probed_device", e)
    BY <1>4, <1>6, SMT DEF Single, Wants, KnownTwice, KnownAstray
  <2>4. Ordered("new_probed_device", e, Keeps("new_probed_device"))
    BY <1>1, <1>4, <1>6, <2>1, SMTT(30) DEF Ordered, Blocked, Relies, Ends, Quiet, Brought, Absent
  <2>5. Clearing("new_probed_device", e)
    BY <1>1, <1>4, <2>1, SMT
       DEF Clearing, Left, KnownLeft, Blocked, Relies, Ends, Quiet, Brought, Absent, Outlasts
  <2> QED
    BY <1>2, <2>2, <2>3, <2>4, <2>5 DEF Unloads
<1>12. Apart("new_probed_device")
  BY <1>1, <1>8, SMT DEF Apart, Relies, Left, KnownLeft, Outlasts
<1> QED
  BY <1>1, <1>10, <1>11, <1>12 DEF Orderly

(* A client found by detect() (21th_i2c_drv/3th). *)
LEMMA DetectOrderly == Orderly("adapter_detect")
<1> DEFINE s == InitOf("adapter_detect")
           e == ExitOf("adapter_detect")
<1>1. /\ s = adapter_detect_init /\ e = adapter_detect_exit
      /\ Calls("adapter_detect") = {}
      /\ Pinned("adapter_detect") = FALSE
  BY SMT DEF Modules, Loadable, Unpinned, InitOf, ExitOf, Calls, Pinned
<1>2. s = InitOf("adapter_detect") /\ e = ExitOf("adapter_detect")
  OBVIOUS
<1> HIDE DEF s, e
<1>3. /\ Len(s) = 2 /\ Is(s, 1, "get", "i2c_driver") /\ Is(s, 2, "maybe", "client")
  BY <1>1, SMT DEF adapter_detect_init
<1>4. /\ Len(e) = 2 /\ Is(e, 1, "drop", "client") /\ Is(e, 2, "put", "i2c_driver")
  BY <1>1, SMT DEF adapter_detect_exit
<1>5. \A k \in 1..Len(s) : /\ s[k].op \in {"get", "maybe"}
                           /\ k = 1 \/ k = 2
  BY <1>3, SMT
<1>6. \A k \in 1..Len(e) : /\ e[k].op \in {"drop", "put"}
                           /\ k = 1 \/ k = 2
  BY <1>4, SMT
<1>7. \A r : Obtains("adapter_detect", r) => r \in {Code, "i2c_driver", "client"}
  BY <1>1, <1>2, <1>3, <1>5, SMTT(30) DEF Obtains, Brought
<1>8. \A r : ~Brief("adapter_detect", r)
  BY <1>2, <1>3, <1>5, SMT DEF Brief
<1>9. \A r : Owned("adapter_detect", r) => r \in {"i2c_driver"}
  BY <1>2, <1>4, <1>6, SMT DEF Owned, Wants
<1>10. Loads("adapter_detect")
  <2>1. s \in InitScript
    BY <1>1, SMT DEF adapter_detect_init, InitScript, UndoScript, Script, Resources, Outlasts
  <2>2. Founded("adapter_detect", "loading", s, {Code})
    BY <1>1, <1>3, <1>5, SMT DEF Founded, Wants, Sure, KnownTwice, KnownAstray
  <2>3. Undoable("adapter_detect", s, {Code})
    BY <1>5, SMT DEF Undoable
  <2>4. Keeping("adapter_detect", s, {Code})
    BY <1>1, <1>3, <1>9, SMT DEF Keeping, Steady, Sure
  <2>5. Passing("adapter_detect", s, Leftovers("adapter_detect"))
    BY <1>8, SMT DEF Passing
  <2>6. Grounded("adapter_detect", s, {Code})
    BY <1>1, <1>3, <1>5, SMTT(30) DEF Grounded, Relies, Steady, Sure
  <2>7. Failable("adapter_detect", s, Leftovers("adapter_detect"))
    BY <1>5, SMT DEF Failable
  <2>8. Unrelied("adapter_detect", s)
    BY <1>3, <1>5, SMT DEF Unrelied, Relies
  <2>9. Calm("adapter_detect", "loading", s, Leftovers("adapter_detect"))
    BY <1>5, SMT DEF Calm, Wants
  <2> QED
    BY <1>2, <2>1, <2>2, <2>3, <2>4, <2>5, <2>6, <2>7, <2>8, <2>9 DEF Loads
<1>11. Unloads("adapter_detect")
  <2>1. Keeps("adapter_detect") \subseteq {Code, "i2c_driver", "client"}
    BY <1>7, SMT DEF Keeps
  <2>2. e \in ExitScript
    BY <1>1, SMT DEF adapter_detect_exit, ExitScript, Script, Resources, Outlasts
  <2>3. Single("adapter_detect", e)
    BY <1>4, <1>6, SMT DEF Single, Wants, KnownTwice, KnownAstray
  <2>4. Ordered("adapter_detect", e, Keeps("adapter_detect"))
    BY <1>1, <1>4, <1>6, <2>1, SMTT(30) DEF Ordered, Blocked, Relies, Ends, Quiet, Brought, Absent
  <2>5. Clearing("adapter_detect", e)
    BY <1>1, <1>4, <2>1, SMT
       DEF Clearing, Left, KnownLeft, Blocked, Relies, Ends, Quiet, Brought, Absent, Outlasts
  <2> QED
    BY <1>2, <2>2, <2>3, <2>4, <2>5 DEF Unloads
<1>12. Apart("adapter_detect")
  BY <1>1, <1>8, SMT DEF Apart, Relies, Left, KnownLeft, Outlasts
<1> QED
  BY <1>1, <1>10, <1>11, <1>12 DEF Orderly

(* A driver for the older kernel that attaches nothing (19th_i2c_drv/1th). *)
LEMMA AttachOrderly == Orderly("attach")
<1> DEFINE s == InitOf("attach")
           e == ExitOf("attach")
<1>1. s = attach_init /\ e = attach_exit /\ Calls("attach") = {} /\ Pinned("attach") = FALSE
  BY SMT DEF Modules, Loadable, Unpinned, InitOf, ExitOf, Calls, Pinned
<1>2. s = InitOf("attach") /\ e = ExitOf("attach")
  OBVIOUS
<1> HIDE DEF s, e
<1>3. /\ Len(s) = 1 /\ Is(s, 1, "get", "i2c_driver")
  BY <1>1, SMT DEF attach_init
<1>4. /\ Len(e) = 1 /\ Is(e, 1, "put", "i2c_driver")
  BY <1>1, SMT DEF attach_exit
<1>5. \A k \in 1..Len(s) : /\ s[k].op \in {"get"}
                           /\ k = 1
  BY <1>3, SMT
<1>6. \A k \in 1..Len(e) : /\ e[k].op \in {"put"}
                           /\ k = 1
  BY <1>4, SMT
<1>7. \A r : Obtains("attach", r) => r \in {Code, "i2c_driver"}
  BY <1>1, <1>2, <1>3, <1>5, SMTT(30) DEF Obtains, Brought
<1>8. \A r : ~Brief("attach", r)
  BY <1>2, <1>3, <1>5, SMT DEF Brief
<1>9. \A r : Owned("attach", r) => r \in {"i2c_driver"}
  BY <1>2, <1>4, <1>6, SMT DEF Owned, Wants
<1>10. Loads("attach")
  <2>1. s \in InitScript
    BY <1>1, SMT DEF attach_init, InitScript, UndoScript, Script, Resources, Outlasts
  <2>2. Founded("attach", "loading", s, {Code})
    BY <1>1, <1>3, <1>5, SMT DEF Founded, Wants, Sure, KnownTwice, KnownAstray
  <2>3. Undoable("attach", s, {Code})
    BY <1>5, SMT DEF Undoable
  <2>4. Keeping("attach", s, {Code})
    BY <1>1, <1>3, <1>9, SMT DEF Keeping, Steady, Sure
  <2>5. Passing("attach", s, Leftovers("attach"))
    BY <1>8, SMT DEF Passing
  <2>6. Grounded("attach", s, {Code})
    BY <1>1, <1>3, <1>5, SMTT(30) DEF Grounded, Relies, Steady, Sure
  <2>7. Failable("attach", s, Leftovers("attach"))
    BY <1>5, SMT DEF Failable
  <2>8. Unrelied("attach", s)
    BY <1>3, <1>5, SMT DEF Unrelied, Relies
  <2>9. Calm("attach", "loading", s, Leftovers("attach"))
    BY <1>5, SMT DEF Calm, Wants
  <2> QED
    BY <1>2, <2>1, <2>2, <2>3, <2>4, <2>5, <2>6, <2>7, <2>8, <2>9 DEF Loads
<1>11. Unloads("attach")
  <2>1. Keeps("attach") \subseteq {Code, "i2c_driver"}
    BY <1>7, SMT DEF Keeps
  <2>2. e \in ExitScript
    BY <1>1, SMT DEF attach_exit, ExitScript, Script, Resources, Outlasts
  <2>3. Single("attach", e)
    BY <1>4, <1>6, SMT DEF Single, Wants, KnownTwice, KnownAstray
  <2>4. Ordered("attach", e, Keeps("attach"))
    BY <1>1, <1>4, <1>6, <2>1, SMTT(30) DEF Ordered, Blocked, Relies, Ends, Quiet, Brought, Absent
  <2>5. Clearing("attach", e)
    BY <1>1, <1>4, <2>1, SMT
       DEF Clearing, Left, KnownLeft, Blocked, Relies, Ends, Quiet, Brought, Absent, Outlasts
  <2> QED
    BY <1>2, <2>2, <2>3, <2>4, <2>5 DEF Unloads
<1>12. Apart("attach")
  BY <1>1, <1>8, SMT DEF Apart, Relies, Left, KnownLeft, Outlasts
<1> QED
  BY <1>1, <1>10, <1>11, <1>12 DEF Orderly

(* The AT24Cxx of the older kernel (19th_i2c_drv/5th). *)
LEMMA ClientOrderly == Orderly("at24cxx_19")
<1> DEFINE s == InitOf("at24cxx_19")
           e == ExitOf("at24cxx_19")
<1>1. /\ s = at24cxx_init /\ e = at24cxx_exit
      /\ Calls("at24cxx_19") = {at24cxx_19_open, at24cxx_19_read, at24cxx_19_write, Closes({})}
      /\ Pinned("at24cxx_19") = TRUE
  BY SMT DEF Modules, Loadable, Unpinned, InitOf, ExitOf, Calls, Pinned
<1>2. s = InitOf("at24cxx_19") /\ e = ExitOf("at24cxx_19")
  OBVIOUS
<1> HIDE DEF s, e
<1>3. /\ Len(s) = 6 /\ Is(s, 1, "get", "i2c_driver") /\ Is(s, 2, "get", "client")
      /\ Is(s, 3, "get", "attached") /\ Is(s, 4, "get", "chrdev") /\ Is(s, 5, "get", "class")
      /\ Is(s, 6, "get", "device")
  BY <1>1, SMT DEF at24cxx_init, at24cxx_detect
<1>4. /\ Len(e) = 5 /\ Is(e, 1, "put", "device") /\ Is(e, 2, "put", "class")
      /\ Is(e, 3, "put", "chrdev") /\ Is(e, 4, "put", "attached") /\ Is(e, 5, "put", "i2c_driver")
  BY <1>1, SMT DEF at24cxx_exit, at24cxx_detach
<1>5. \A k \in 1..Len(s) : /\ s[k].op \in {"get"}
                           /\ k = 1 \/ k = 2 \/ k = 3 \/ k = 4 \/ k = 5 \/ k = 6
  BY <1>3, SMT
<1>6. \A k \in 1..Len(e) : /\ e[k].op \in {"put"}
                           /\ k = 1 \/ k = 2 \/ k = 3 \/ k = 4 \/ k = 5
  BY <1>4, SMT
<1>7. \A r : Obtains("at24cxx_19", r) => r \in {Code, "i2c_driver", "client", "attached", "chrdev", "class", "device", "file"}
  BY <1>1, <1>2, <1>3, <1>5, SMTT(30)
     DEF Obtains, Brought, at24cxx_19_open, at24cxx_19_read, at24cxx_19_write
<1>8. \A r : ~Brief("at24cxx_19", r)
  BY <1>2, <1>3, <1>5, SMT DEF Brief
<1>9. \A r : Owned("at24cxx_19", r) => r \in {"device", "class", "chrdev", "attached", "i2c_driver"}
  BY <1>2, <1>4, <1>6, SMT DEF Owned, Wants
<1>10. Loads("at24cxx_19")
  <2>1. s \in InitScript
    BY <1>1, SMT DEF at24cxx_init, at24cxx_detect, InitScript, UndoScript, Script, Resources, Outlasts
  <2>2. Founded("at24cxx_19", "loading", s, {Code})
    BY <1>1, <1>3, <1>5, SMT
       DEF Founded, Wants, Sure, KnownTwice, KnownAstray, at24cxx_19_open, at24cxx_19_read,
           at24cxx_19_write
  <2>3. Undoable("at24cxx_19", s, {Code})
    BY <1>5, SMT DEF Undoable
  <2>4. Keeping("at24cxx_19", s, {Code})
    BY <1>1, <1>3, <1>9, SMT
       DEF Keeping, Steady, Sure, at24cxx_19_open, at24cxx_19_read, at24cxx_19_write
  <2>5. Passing("at24cxx_19", s, Leftovers("at24cxx_19"))
    BY <1>8, SMT DEF Passing
  <2>6. Grounded("at24cxx_19", s, {Code})
    BY <1>1, <1>3, <1>5, SMTT(30)
       DEF Grounded, Relies, Steady, Sure, at24cxx_19_open, at24cxx_19_read, at24cxx_19_write
  <2>7. Failable("at24cxx_19", s, Leftovers("at24cxx_19"))
    BY <1>5, SMT DEF Failable
  <2>8. Unrelied("at24cxx_19", s)
    BY <1>3, <1>5, SMT DEF Unrelied, Relies
  <2>9. Calm("at24cxx_19", "loading", s, Leftovers("at24cxx_19"))
    BY <1>5, SMT DEF Calm, Wants
  <2> QED
    BY <1>2, <2>1, <2>2, <2>3, <2>4, <2>5, <2>6, <2>7, <2>8, <2>9 DEF Loads
<1>11. Unloads("at24cxx_19")
  <2>1. Keeps("at24cxx_19") \subseteq {Code, "i2c_driver", "client", "attached", "chrdev", "class", "device", "file"}
    BY <1>7, SMT DEF Keeps
  <2>2. e \in ExitScript
    BY <1>1, SMT DEF at24cxx_exit, at24cxx_detach, ExitScript, Script, Resources, Outlasts
  <2>3. Single("at24cxx_19", e)
    BY <1>4, <1>6, SMT DEF Single, Wants, KnownTwice, KnownAstray
  <2>4. Ordered("at24cxx_19", e, Keeps("at24cxx_19"))
    BY <1>1, <1>4, <1>6, <2>1, SMTT(30)
       DEF Ordered, Blocked, Relies, Ends, Quiet, Brought, Absent, at24cxx_19_open, at24cxx_19_read,
           at24cxx_19_write
  <2>5. Clearing("at24cxx_19", e)
    BY <1>1, <1>4, <2>1, SMT
       DEF Clearing, Left, KnownLeft, Blocked, Relies, Ends, Quiet, Brought, Absent, Outlasts,
           at24cxx_19_open, at24cxx_19_read, at24cxx_19_write
  <2> QED
    BY <1>2, <2>2, <2>3, <2>4, <2>5 DEF Unloads
<1>12. Apart("at24cxx_19")
  BY <1>1, <1>8, SMT DEF Apart, Relies, Left, KnownLeft, Outlasts
<1>13. \A c \in Calls("at24cxx_19") : Answered("at24cxx_19", c)
  BY <1>1, SMTT(30)
     DEF Answered, Brought, Relies, KnownAstray, Resources, at24cxx_19_open, at24cxx_19_read,
         at24cxx_19_write
<1> QED
  BY <1>10, <1>11, <1>12, <1>13 DEF Orderly

HIDE DEF Get, Maybe, Check, Use, Put, PutIdle, Drop, Is, Takes, Frees, Adds, Brings,
         Callback, On, Opens, Closes, Arms, Expires, Code

(* There are no other modules. *)
LEMMA AllOrderly == \A m \in DOMAIN Modules : Orderly(m)
<1> SUFFICES ASSUME NEW m \in DOMAIN Modules PROVE Orderly(m)
  OBVIOUS
<1>1. m \in {"first_drv", "second_drv", "third_drv", "forth_drv", "asyn", "sixth_drv",
             "buttons_all", "input_sub", "touch", "usbmouse", "lcd", "s3c_nand", "s3c_nor",
             "ramblock", "virt_net", "i2c_bus", "at24cxx_dev", "new_device", "new_probed_device",
             "adapter_detect", "attach", "at24cxx_19"}
  BY SMTT(30) DEF Modules
<1> QED
  BY <1>1, FirstOrderly, SecondOrderly, ThirdOrderly, PlainOrderly, ButtonsAllOrderly,
     InputSubOrderly, TouchOrderly, MouseOrderly, LcdOrderly, NandOrderly, NorOrderly, RamOrderly,
     VirtOrderly, BusOrderly, DevOrderly, NewOrderly, NewProbedOrderly, DetectOrderly, AttachOrderly,
     ClientOrderly

-----------------------------------------------------------------------------
(* The promises, one step or one callback later.                           *)

\* One step of a script: h2 is what is held after it.
Effect(s, h, h2) ==
  \A r : /\ r \in h /\ ~Frees(s[1], r) => r \in h2
         /\ Brings(s[1], r) => r \in h2
         /\ r \in h2 => r \in h \/ Adds(s[1], r)
         /\ Takes(s[1], r) => r \notin h2

\* The callback c comes.
Answer(m, h, h2, c) == c \in Calls(m) /\ c.door \in h /\ h2 = (h \cup c.gets) \ c.puts

(* Before the first step a promise is about now; it survives when more (less) is
   held, and holds one step on. *)
LEMMA SureNow == ASSUME NEW s, NEW h, NEW r, Sure(s, h, 1, r) PROVE r \in h
  BY DEF Sure

LEMMA SureMore ==
  ASSUME NEW s, NEW h, NEW h2, NEW i, NEW r, Sure(s, h, i, r), r \in h => r \in h2
  PROVE  Sure(s, h2, i, r)
  BY DEF Sure

LEMMA SureStep ==
  ASSUME NEW X, NEW s \in Seq(X), s # <<>>, NEW h, NEW h2, Effect(s, h, h2),
         NEW i \in 1..Len(s), NEW r, Sure(s, h, i + 1, r)
  PROVE  Sure(Tail(s), h2, i, r)
<1> DEFINE t == Tail(s)
<1>1. Len(t) = Len(s) - 1 /\ \A j \in 1..Len(t) : t[j] = s[j + 1] /\ j + 1 \in 1..Len(s)
  OBVIOUS
<1>2. 1 \in 1..Len(s) /\ 1 < i + 1
  OBVIOUS
<1> HIDE DEF t
<1>3. CASE r \in h /\ \A j \in 1..Len(s) : j < i + 1 => ~Frees(s[j], r)
  <2>1. r \in h2
    BY <1>2, <1>3 DEF Effect
  <2>2. \A j \in 1..Len(t) : j < i => ~Frees(t[j], r)
    BY <1>1, <1>3
  <2> QED
    BY <2>1, <2>2 DEF Sure, t
<1>4. ASSUME NEW k \in 1..Len(s), k < i + 1, Brings(s[k], r),
             \A j \in 1..Len(s) : k < j /\ j < i + 1 => ~Frees(s[j], r)
      PROVE  Sure(t, h2, i, r)
  <2>1. \A j \in 1..Len(t) : k < j + 1 /\ j < i => ~Frees(t[j], r)
    BY <1>1, <1>4
  <2>2. CASE k = 1
    <3>1. r \in h2
      BY <1>4, <2>2 DEF Effect
    <3>2. \A j \in 1..Len(t) : j < i => ~Frees(t[j], r)
      BY <2>1, <2>2
    <3> QED
      BY <3>1, <3>2 DEF Sure
  <2>3. CASE k # 1
    <3>1. k - 1 \in 1..Len(t) /\ k - 1 < i /\ t[k - 1] = s[k]
      BY <1>1, <1>4, <2>3
    <3>2. \A j \in 1..Len(t) : k - 1 < j /\ j < i => ~Frees(t[j], r)
      BY <2>1, <1>1
    <3> QED
      BY <3>1, <3>2, <1>4 DEF Sure
  <2> QED
    BY <2>2, <2>3
<1> QED
  BY <1>3, <1>4 DEF Sure, t

LEMMA GoneNow == ASSUME NEW s, NEW h, NEW r, Gone(s, h, 1, r) PROVE r \notin h
  BY DEF Gone, Absent

LEMMA GoneLess ==
  ASSUME NEW s, NEW h, NEW h2, NEW i, NEW r, Gone(s, h, i, r), r \in h2 => r \in h
  PROVE  Gone(s, h2, i, r)
  BY DEF Gone, Absent

LEMMA GoneStep ==
  ASSUME NEW X, NEW s \in Seq(X), s # <<>>, NEW h, NEW h2, Effect(s, h, h2),
         NEW i \in 1..Len(s), NEW r, Gone(s, h, i + 1, r)
  PROVE  Gone(Tail(s), h2, i, r)
<1> DEFINE t == Tail(s)
<1>1. Len(t) = Len(s) - 1 /\ \A j \in 1..Len(t) : t[j] = s[j + 1] /\ j + 1 \in 1..Len(s)
  OBVIOUS
<1>2. 1 \in 1..Len(s) /\ 1 < i + 1
  OBVIOUS
<1>3. \A k \in 1..Len(s) : k # 1 => k - 1 \in 1..Len(t) /\ t[k - 1] = s[k]
  OBVIOUS
<1> HIDE DEF t
<1>4. Absent(t, h2, i, r)
  <2>1. SUFFICES ASSUME r \in h2 PROVE \E k \in 1..Len(t) : k < i /\ Takes(t[k], r)
    BY DEF Absent
  <2>2. PICK k \in 1..Len(s) : k < i + 1 /\ Takes(s[k], r)
    BY <2>1, <1>2 DEF Effect, Gone, Absent
  <2>3. k # 1
    BY <2>1, <2>2 DEF Effect
  <2>4. k - 1 \in 1..Len(t) /\ k - 1 < i /\ Takes(t[k - 1], r)
    BY <2>2, <2>3, <1>3
  <2> QED
    BY <2>4
<1>5. ASSUME NEW k \in 1..Len(t), k < i, Adds(t[k], r)
      PROVE  \E j \in 1..Len(t) : k < j /\ j < i /\ Takes(t[j], r)
  <2>1. k + 1 \in 1..Len(s) /\ k + 1 < i + 1 /\ Adds(s[k + 1], r)
    BY <1>1, <1>5
  <2>2. PICK j \in 1..Len(s) : k + 1 < j /\ j < i + 1 /\ Takes(s[j], r)
    BY <2>1 DEF Gone
  <2>3. j - 1 \in 1..Len(t) /\ k < j - 1 /\ j - 1 < i /\ Takes(t[j - 1], r)
    BY <2>2, <1>3
  <2> QED
    BY <2>3
<1> QED
  BY <1>4, <1>5 DEF Gone, t

LEMMA ClosedStep ==
  ASSUME NEW X, NEW s \in Seq(X), s # <<>>, NEW h, NEW h2, Effect(s, h, h2),
         NEW i \in 1..Len(s), NEW d, Closed(s, h, i + 1, d)
  PROVE  Closed(Tail(s), h2, i, d)
<1>1. 1 \in 1..Len(s) /\ 1 < i + 1
  OBVIOUS
<1>2. d \notin h2 \cup Outlasts
  BY <1>1 DEF Closed, Effect
<1>3. \A k \in 1..Len(Tail(s)) : k < i => k + 1 \in 1..Len(s) /\ k + 1 < i + 1 /\ Tail(s)[k] = s[k + 1]
  OBVIOUS
<1> QED
  BY <1>2, <1>3 DEF Closed

(* An exit script obtains nothing. *)
LEMMA AbsentStep ==
  ASSUME NEW X, NEW s \in Seq(X), s # <<>>, NEW h, NEW h2, Effect(s, h, h2),
         NEW i \in 1..Len(s), NEW r, ~Adds(s[1], r), Absent(s, h, i + 1, r)
  PROVE  Absent(Tail(s), h2, i, r)
<1> SUFFICES ASSUME r \in h2 PROVE \E k \in 1..Len(Tail(s)) : k < i /\ Takes(Tail(s)[k], r)
  BY DEF Absent
<1>1. PICK k \in 1..Len(s) : k < i + 1 /\ Takes(s[k], r)
  BY DEF Effect, Absent
<1>2. k # 1
  BY <1>1 DEF Effect
<1>3. k - 1 \in 1..Len(Tail(s)) /\ k - 1 < i /\ Tail(s)[k - 1] = s[k]
  BY <1>1, <1>2
<1> QED
  BY <1>1, <1>3

LEMMA EndsNow == ASSUME NEW m, NEW s, NEW h, NEW d, Ends(m, s, h, 1, d) PROVE d \notin h
  BY DEF Ends

LEMMA EndsLess ==
  ASSUME NEW m, NEW s, NEW h, NEW h2, NEW i, NEW d, Ends(m, s, h, i, d), \A r : r \in h2 => r \in h
  PROVE  Ends(m, s, h2, i, d)
  BY DEF Ends, Absent

LEMMA EndsStep ==
  ASSUME NEW X, NEW s \in Seq(X), s # <<>>, NEW h, NEW h2, Effect(s, h, h2), \A r : ~Adds(s[1], r),
         NEW m, NEW i \in 1..Len(s), NEW d, Ends(m, s, h, i + 1, d)
  PROVE  Ends(m, Tail(s), h2, i, d)
<1>1. CASE d \notin h /\ \A c \in Calls(m) : Brought(c, d) => c.door \notin h
  BY <1>1 DEF Ends, Effect
<1>2. ASSUME NEW k \in 1..Len(s), k < i + 1, Takes(s[k], d),
             \A c \in Calls(m) : Brought(c, d) => Absent(s, h, k, c.door)
      PROVE  Ends(m, Tail(s), h2, i, d)
  <2>1. CASE k = 1
    <3>1. d \notin h2
      BY <1>2, <2>1 DEF Effect
    <3>2. \A c \in Calls(m) : Brought(c, d) => c.door \notin h2
      BY <1>2, <2>1 DEF Effect, Absent
    <3> QED
      BY <3>1, <3>2 DEF Ends
  <2>2. CASE k # 1
    <3>1. k - 1 \in 1..Len(Tail(s)) /\ k - 1 < i /\ Tail(s)[k - 1] = s[k]
      BY <1>2, <2>2
    <3>2. k - 1 \in 1..Len(s) /\ (k - 1) + 1 = k
      BY <2>2
    <3>3. \A c \in Calls(m) : Brought(c, d) => Absent(Tail(s), h2, k - 1, c.door)
      BY <3>2, <1>2, AbsentStep
    <3> QED
      BY <3>1, <3>3, <1>2 DEF Ends
  <2> QED
    BY <2>1, <2>2
<1> QED
  BY <1>1, <1>2 DEF Ends

(* A callback that would bring d back has its door closed. *)
LEMMA EndsAnswer ==
  ASSUME NEW m, NEW s, NEW h, NEW h2, NEW c, Answer(m, h, h2, c), NEW i, NEW d, Ends(m, s, h, i, d)
  PROVE  Ends(m, s, h2, i, d)
<1>1. \A r : r \in h2 => r \in h \/ Brought(c, r)
  BY DEF Answer, Brought
<1>2. CASE d \notin h /\ \A b \in Calls(m) : Brought(b, d) => b.door \notin h
  <2>1. d \notin h2
    BY <1>1, <1>2 DEF Answer
  <2>2. \A b \in Calls(m) : Brought(b, d) => b.door \notin h2
    BY <1>1, <1>2 DEF Answer, Ends, Quiet
  <2> QED
    BY <2>1, <2>2 DEF Ends
<1>3. ASSUME NEW k \in 1..Len(s), k < i, Takes(s[k], d),
             \A b \in Calls(m) : Brought(b, d) => Absent(s, h, k, b.door)
      PROVE  Ends(m, s, h2, i, d)
  <2>1. \A b \in Calls(m) : Brought(b, d) => Absent(s, h2, k, b.door)
    BY <1>1, <1>3 DEF Answer, Ends, Quiet, Absent
  <2> QED
    BY <1>3, <2>1 DEF Ends
<1> QED
  BY <1>2, <1>3 DEF Ends

-----------------------------------------------------------------------------
\* A script goes on, and keeps its promises.
Going(X, s, h, h2) == s \in Seq(X) /\ s # <<>> /\ Effect(s, h, h2)

LEMMA Shift ==
  ASSUME NEW X, NEW s \in Seq(X), s # <<>>
  PROVE  /\ Len(Tail(s)) = Len(s) - 1 /\ Len(s) \in Nat
         /\ Len(Tail(s)) + 1 = Len(s) /\ Len(s) \in 1..Len(s)
         /\ 1 \in 1..Len(s) /\ Head(s) = s[1]
         /\ \A i \in 1..Len(Tail(s)) : i \in 1..Len(s) /\ i + 1 \in 1..Len(s) /\ Tail(s)[i] = s[i + 1]
  OBVIOUS

LEMMA FoundedStep ==
  ASSUME NEW X, NEW s, NEW h, NEW h2, Going(X, s, h, h2), NEW m, NEW ph, Founded(m, ph, s, h)
  PROVE  Founded(m, ph, Tail(s), h2)
  BY Shift, SureStep DEF Founded, Going

LEMMA CalmStep ==
  ASSUME NEW X, NEW s, NEW h, NEW h2, Going(X, s, h, h2), NEW m, NEW ph, Calm(m, ph, s, h)
  PROVE  Calm(m, ph, Tail(s), h2)
<1> SUFFICES ASSUME NEW i \in 1..Len(Tail(s)), Wants(m, ph, Tail(s)[i])
             PROVE  Undisturbed(m, Tail(s), h2, i, Tail(s)[i].res)
  BY DEF Calm
<1>1. i \in 1..Len(s) /\ i + 1 \in 1..Len(s) /\ Tail(s)[i] = s[i + 1]
  BY Shift DEF Going
<1>2. Undisturbed(m, s, h, i + 1, s[i + 1].res)
  BY <1>1 DEF Calm
<1>3. \A d : Closed(s, h, i + 1, d) => Closed(Tail(s), h2, i, d)
  BY <1>1, ClosedStep DEF Going
<1> QED
  BY <1>1, <1>2, <1>3 DEF Undisturbed

LEMMA UndoableStep ==
  ASSUME NEW X, NEW s, NEW h, NEW h2, Going(X, s, h, h2), NEW m, Undoable(m, s, h)
  PROVE  Undoable(m, Tail(s), h2)
  BY Shift, SureStep DEF Undoable, Going

LEMMA KeepingStep ==
  ASSUME NEW X, NEW s, NEW h, NEW h2, Going(X, s, h, h2), NEW m, Keeping(m, s, h)
  PROVE  Keeping(m, Tail(s), h2)
  BY Shift, SureStep DEF Keeping, Going

LEMMA PassingStep ==
  ASSUME NEW X, NEW s, NEW h, NEW h2, Going(X, s, h, h2), NEW m, Passing(m, s, h)
  PROVE  Passing(m, Tail(s), h2)
  BY Shift, GoneStep DEF Passing, Going

LEMMA GroundedStep ==
  ASSUME NEW X, NEW s, NEW h, NEW h2, Going(X, s, h, h2), NEW m, Grounded(m, s, h)
  PROVE  Grounded(m, Tail(s), h2)
  BY Shift, SureStep DEF Grounded, Going

LEMMA FailableStep ==
  ASSUME NEW X, NEW s, NEW h, NEW h2, Going(X, s, h, h2), NEW m, Failable(m, s, h)
  PROVE  Failable(m, Tail(s), h2)
<1>1. ASSUME NEW i \in 1..Len(Tail(s)), NEW r, Lost(m, s, h, i + 1, r)
      PROVE  Lost(m, Tail(s), h2, i, r)
  BY <1>1, Shift, GoneStep DEF Lost, Going
<1>2. ASSUME NEW i \in 1..Len(Tail(s)), NEW r, Cleaned(m, s, h, i + 1, r)
      PROVE  Cleaned(m, Tail(s), h2, i, r)
  BY <1>1, <1>2, Shift DEF Cleaned, Going
<1> QED
  BY <1>2, Shift DEF Failable, Going

LEMMA UnreliedStep ==
  ASSUME NEW X, NEW s \in Seq(X), s # <<>>, NEW m, Unrelied(m, s)
  PROVE  Unrelied(m, Tail(s))
  BY Shift DEF Unrelied

LEMMA OrderedStep ==
  ASSUME NEW X, NEW s, NEW h, NEW h2, Going(X, s, h, h2), \A r : ~Adds(s[1], r), NEW m, Ordered(m, s, h)
  PROVE  Ordered(m, Tail(s), h2)
  BY Shift, EndsStep DEF Ordered, Going

LEMMA EndingStep ==
  ASSUME NEW X, NEW s, NEW h, NEW h2, Going(X, s, h, h2), \A r : ~Adds(s[1], r), NEW m, Ending(m, s, h)
  PROVE  Ending(m, Tail(s), h2)
  BY Shift, EndsStep DEF Ending, Going

(* It keeps them whatever callbacks come. *)
LEMMA SureAnswer ==
  ASSUME NEW m, NEW h, NEW h2, NEW c, Answer(m, h, h2, c), NEW s, NEW i, NEW r, Steady(m, r), Sure(s, h, i, r)
  PROVE  Sure(s, h2, i, r)
  BY DEF Answer, Steady, Sure

LEMMA GoneAnswer ==
  ASSUME NEW m, NEW h, NEW h2, NEW c, Answer(m, h, h2, c), NEW s, NEW i, NEW r, Quiet(m, r), Gone(s, h, i, r)
  PROVE  Gone(s, h2, i, r)
  BY DEF Answer, Quiet, Brought, Gone, Absent

LEMMA FoundedAnswer ==
  ASSUME NEW m, NEW h, NEW h2, NEW c, Answer(m, h, h2, c), NEW s, NEW ph,
         Founded(m, ph, s, h), Calm(m, ph, s, h)
  PROVE  Founded(m, ph, s, h2) /\ Calm(m, ph, s, h2)
<1> SUFFICES ASSUME NEW i \in 1..Len(s), Wants(m, ph, s[i])
             PROVE  Sure(s, h2, i, s[i].res) /\ Undisturbed(m, s, h2, i, s[i].res)
  BY DEF Founded, Calm
<1> DEFINE r == s[i].res
<1>1. Sure(s, h, i, r) /\ Undisturbed(m, s, h, i, r)
  BY DEF Founded, Calm
<1> HIDE DEF r
<1>2. r \notin c.puts
  BY <1>1 DEF Undisturbed, Closed, Answer
<1>3. Sure(s, h2, i, r)
  BY <1>1, <1>2 DEF Answer, Sure
<1>4. ASSUME NEW b \in Calls(m), r \in b.puts
      PROVE  /\ Closed(s, h2, i, b.door)
             /\ \A a \in Calls(m) : Brought(a, b.door) => Quiet(m, a.door) /\ Closed(s, h2, i, a.door)
  <2>1. ~Brought(c, b.door)
    BY <1>1, <1>4 DEF Undisturbed, Closed, Answer
  <2>2. Closed(s, h2, i, b.door)
    BY <1>1, <1>4, <2>1 DEF Undisturbed, Closed, Answer, Brought
  <2>3. ASSUME NEW a \in Calls(m), Brought(a, b.door) PROVE Quiet(m, a.door) /\ Closed(s, h2, i, a.door)
    BY <1>1, <1>4, <2>3 DEF Undisturbed, Closed, Answer, Quiet, Brought
  <2> QED
    BY <2>2, <2>3
<1> QED
  BY <1>3, <1>4 DEF Undisturbed, r

LEMMA LoadingAnswer ==
  ASSUME NEW m, NEW h, NEW h2, NEW c, Answer(m, h, h2, c), NEW s
  PROVE  /\ Undoable(m, s, h) => Undoable(m, s, h2)
         /\ Keeping(m, s, h) => Keeping(m, s, h2)
         /\ Passing(m, s, h) => Passing(m, s, h2)
         /\ Grounded(m, s, h) => Grounded(m, s, h2)
         /\ Failable(m, s, h) => Failable(m, s, h2)
<1>1. Undoable(m, s, h) => Undoable(m, s, h2)
  BY SureAnswer DEF Undoable
<1>2. Keeping(m, s, h) => Keeping(m, s, h2)
  BY SureAnswer DEF Keeping
<1>3. Passing(m, s, h) => Passing(m, s, h2)
  BY GoneAnswer DEF Passing
<1>4. Grounded(m, s, h) => Grounded(m, s, h2)
  BY SureAnswer DEF Grounded
<1>5. Failable(m, s, h) => Failable(m, s, h2)
  <2>1. \A i, r : Lost(m, s, h, i, r) => Lost(m, s, h2, i, r)
    BY GoneAnswer DEF Lost
  <2>2. \A i, r : Cleaned(m, s, h, i, r) => Cleaned(m, s, h2, i, r)
    BY <2>1 DEF Cleaned
  <2> QED
    BY <2>2 DEF Failable
<1> QED
  BY <1>1, <1>2, <1>3, <1>4, <1>5

LEMMA UnloadingAnswer ==
  ASSUME NEW m, NEW h, NEW h2, NEW c, Answer(m, h, h2, c), NEW s
  PROVE  /\ Ordered(m, s, h) => Ordered(m, s, h2)
         /\ Ending(m, s, h) => Ending(m, s, h2)
  BY EndsAnswer DEF Ordered, Ending

-----------------------------------------------------------------------------
(* The inductive invariant.                                                *)

\* The types: what is left to do is a script of the phase, and only what m
\* obtains is held.
Typing ==
  /\ module \in DOMAIN Modules /\ phase \in {"out", "loading", "live", "failing", "unloading"}
  /\ loads \in 0..MaxLoads
  /\ phase = "loading" => todo \in InitScript
  /\ phase = "failing" => todo \in UndoScript
  /\ phase = "unloading" => todo \in ExitScript
  /\ phase \in {"out", "live"} => todo = <<>>
  /\ held \subseteq Resources /\ \A r \in held : Obtains(module, r)
  /\ Code \in held <=> phase # "out"

\* What was used astray or given back twice is known.
Recorded ==
  /\ \A a \in astray : a[2] \in Resources /\ <<module, a[1], a[2]>> \in KnownAstray
  /\ \A r \in twice : r \in Resources /\ <<module, r>> \in KnownTwice

\* Whatever is held has what it relies on.
Linked == \A d \in Resources, r \in Resources : Relies(module, d, r) /\ d \in held => r \in held

\* What is left of init promises that every step finds what it needs, that a check
\* can fail, and what the live module will hold; what is left of exit, or of a
\* failed init, promises that nothing is left.
Promises ==
  /\ Founded(module, phase, todo, held) /\ Calm(module, phase, todo, held)
  /\ phase = "loading" => /\ Undoable(module, todo, held) /\ Grounded(module, todo, held)
                          /\ Failable(module, todo, held) /\ Unrelied(module, todo) /\ Obtaining(module, todo)
  /\ phase \in {"loading", "live"} => Keeping(module, todo, held) /\ Passing(module, todo, held)
  /\ phase = "failing" => /\ Unrelied(module, todo)
                          /\ \A d \in Resources : Relies(module, d, Code) => d \notin held
  /\ phase = "unloading" => Ordered(module, todo, held)
  /\ phase \in {"failing", "unloading", "out"} =>
       Ending(module, todo, held) /\ (Pinned(module) => "file" \notin held)

IInv == Typing /\ Recorded /\ Linked /\ Promises

(* The steps and the rest of a script. *)
LEMMA InScript ==
  ASSUME NEW Ops, NEW Undos, NEW s \in Script(Ops, Undos)
  PROVE  /\ \A i \in 1..Len(s) : s[i].op \in Ops /\ s[i].res \in Resources \ Outlasts /\ s[i].undo \in Undos
         /\ \E X : s \in Seq(X)
         /\ s # <<>> => Tail(s) \in Script(Ops, Undos) /\ 1 \in 1..Len(s)
<1> DEFINE R == [op : Ops, res : Resources \ Outlasts, undo : Undos]
<1>1. s \in Seq(R)
  BY DEF Script
<1>2. \A x \in R : x.op \in Ops /\ x.res \in Resources \ Outlasts /\ x.undo \in Undos
  OBVIOUS
<1> HIDE DEF R
<1>3. \A i \in 1..Len(s) : s[i] \in R
  BY <1>1
<1>4. s # <<>> => Tail(s) \in Seq(R) /\ 1 \in 1..Len(s)
  BY <1>1
<1> QED
  BY <1>1, <1>2, <1>3, <1>4 DEF Script, R

LEMMA InInitScript ==
  ASSUME NEW s \in InitScript
  PROVE  /\ \A i \in 1..Len(s) : /\ s[i].op \in {"get", "maybe", "check", "use", "put"}
                                /\ s[i].res \in Resources \ Outlasts /\ s[i].undo \in UndoScript
         /\ \E X : s \in Seq(X)
         /\ s # <<>> => Tail(s) \in InitScript /\ 1 \in 1..Len(s)
<1> DEFINE ops == {"get", "maybe", "check", "use", "put"}
           undos == UndoScript
<1>1. s \in Script(ops, undos) /\ InitScript = Script(ops, undos)
  BY DEF InitScript
<1> HIDE DEF ops, undos
<1>2. /\ \A i \in 1..Len(s) : s[i].op \in ops /\ s[i].res \in Resources \ Outlasts /\ s[i].undo \in undos
      /\ \E X : s \in Seq(X)
      /\ s # <<>> => Tail(s) \in Script(ops, undos) /\ 1 \in 1..Len(s)
  BY <1>1, InScript
<1> QED
  BY <1>1, <1>2 DEF ops, undos

LEMMA InUndoScript ==
  ASSUME NEW s \in UndoScript
  PROVE  /\ \A i \in 1..Len(s) : /\ s[i].op \in {"put"}
                                /\ s[i].res \in Resources \ Outlasts /\ s[i].undo \in {<<>>}
         /\ \E X : s \in Seq(X)
         /\ s # <<>> => Tail(s) \in UndoScript /\ 1 \in 1..Len(s)
<1> DEFINE ops == {"put"}
           undos == {<<>>}
<1>1. s \in Script(ops, undos) /\ UndoScript = Script(ops, undos)
  BY DEF UndoScript
<1> HIDE DEF ops, undos
<1>2. /\ \A i \in 1..Len(s) : s[i].op \in ops /\ s[i].res \in Resources \ Outlasts /\ s[i].undo \in undos
      /\ \E X : s \in Seq(X)
      /\ s # <<>> => Tail(s) \in Script(ops, undos) /\ 1 \in 1..Len(s)
  BY <1>1, InScript
<1> QED
  BY <1>1, <1>2 DEF ops, undos

LEMMA InExitScript ==
  ASSUME NEW s \in ExitScript
  PROVE  /\ \A i \in 1..Len(s) : /\ s[i].op \in {"use", "put", "drop", "put_idle"}
                                /\ s[i].res \in Resources \ Outlasts /\ s[i].undo \in {<<>>}
         /\ \E X : s \in Seq(X)
         /\ s # <<>> => Tail(s) \in ExitScript /\ 1 \in 1..Len(s)
<1> DEFINE ops == {"use", "put", "drop", "put_idle"}
           undos == {<<>>}
<1>1. s \in Script(ops, undos) /\ ExitScript = Script(ops, undos)
  BY DEF ExitScript
<1> HIDE DEF ops, undos
<1>2. /\ \A i \in 1..Len(s) : s[i].op \in ops /\ s[i].res \in Resources \ Outlasts /\ s[i].undo \in undos
      /\ \E X : s \in Seq(X)
      /\ s # <<>> => Tail(s) \in Script(ops, undos) /\ 1 \in 1..Len(s)
  BY <1>1, InScript
<1> QED
  BY <1>1, <1>2 DEF ops, undos

(* What exit will have ended when it begins with no more than m keeps. *)
LEMMA Settled ==
  ASSUME NEW m \in DOMAIN Modules, NEW r \in Resources \ Outlasts, NEW h, \A q \in h : q \in Keeps(m)
  PROVE  \/ Left(m, r) \/ Blocked(m, r)
         \/ Ends(m, ExitOf(m), h, Len(ExitOf(m)) + 1, r)
            /\ \A c \in Calls(m) : Brought(c, r) => Quiet(m, c.door)
<1>1. CASE r \in Keeps(m)
  BY <1>1, AllOrderly, EndsLess DEF Orderly, Unloads, Clearing, Ends
<1>2. CASE r \notin Keeps(m)
  <2>1. Quiet(m, r)
    BY <1>2, AllOrderly DEF Orderly, Loads, Passing, Keeps, Obtains, Quiet
  <2> QED
    BY <1>2, <2>1 DEF Quiet, Ends
<1> QED
  BY <1>1, <1>2

(* When nothing is left to do, the end of exit or of a failed init has come. *)
LEMMA Emptied ==
  ASSUME IInv, phase \in {"failing", "unloading", "out"}, todo = <<>>
  PROVE  \A r \in held \ Outlasts : Left(module, r)
<1> SUFFICES ASSUME NEW r \in held \ Outlasts, ~Left(module, r) PROVE FALSE
  OBVIOUS
<1>1. r \in Resources \ Outlasts /\ Ending(module, todo, held) /\ (Pinned(module) => "file" \notin held)
  BY DEF IInv, Typing, Promises
<1>2. CASE Blocked(module, r)
  <2>1. Relies(module, r, "file") /\ "file" \in Resources
    BY <1>2 DEF Blocked, Outlasts, Resources
  <2> QED
    BY <1>1, <1>2, <2>1 DEF IInv, Linked, Blocked
<1>3. CASE Ends(module, todo, held, Len(todo) + 1, r)
  <2>1. Len(todo) + 1 = 1
    OBVIOUS
  <2> QED
    BY <1>3, <2>1, EndsNow
<1> QED
  BY <1>1, <1>2, <1>3 DEF Ending

(* Nothing is held, and nothing to be done. *)
LEMMA Initially == Init => IInv
<1> SUFFICES ASSUME Init PROVE IInv
  OBVIOUS
<1> USE DEF Init
<1>1. Typing
  BY MaxLoadsAssumption DEF Typing
<1>2. Recorded /\ Linked
  BY DEF Recorded, Linked
<1>3. Founded(module, phase, todo, held) /\ Calm(module, phase, todo, held)
  BY DEF Founded, Calm
<1>4. Ending(module, todo, held)
  BY Settled DEF Ending, Ends
<1> QED
  BY <1>1, <1>2, <1>3, <1>4 DEF IInv, Promises

(* init begins, with its code and what earlier loads left. *)
LEMMA InsmodKeeps == IInv /\ Insmod => IInv'
<1> SUFFICES ASSUME IInv, Insmod PROVE IInv'
  OBVIOUS
<1> DEFINE m == module
<1>1. m \in DOMAIN Modules /\ Orderly(m)
  BY AllOrderly DEF IInv, Typing
<1>2. /\ phase' = "loading" /\ todo' = InitOf(m) /\ held' = held \cup {Code} /\ m' = m
      /\ UNCHANGED <<astray, twice>>
  BY DEF Insmod, InitOf
<1>3. Typing'
  <2>1. loads' \in 0..MaxLoads
    BY MaxLoadsAssumption DEF Insmod, IInv, Typing
  <2>2. Code \in Resources
    BY DEF Resources
  <2> QED
    BY <1>1, <1>2, <2>1, <2>2 DEF IInv, Typing, Orderly, Loads, Obtains
<1>4. Recorded'
  BY <1>2 DEF IInv, Recorded
<1>5. Linked'
  BY <1>1, <1>2 DEF IInv, Linked, Orderly, Apart
<1>6. Code \in held'
  BY <1>2
<1>7. \A r \in Resources \ Outlasts : r \in held' => r \in Leftovers(m)
  BY <1>2, Emptied DEF Insmod, IInv, Typing, Outlasts, Leftovers
<1>8. Founded(m, "loading", todo', held')
  BY <1>1, <1>2, <1>6, SureMore DEF Orderly, Loads, Founded
<1>9. Undoable(m, todo', held') /\ Grounded(m, todo', held') /\ Keeping(m, todo', held') /\ Unrelied(m, todo')
      /\ Obtaining(m, todo')
  BY <1>1, <1>2, <1>6, SureMore DEF Obtaining, Obtains, Orderly, Loads, Undoable, Grounded, Keeping
<1>10. Passing(m, todo', held')
  BY <1>1, <1>2, <1>7, GoneLess DEF Orderly, Loads, Apart, Passing
<1>11. Failable(m, todo', held')
  <2>1. \A i, r : r \in Resources /\ Lost(m, todo', Leftovers(m), i, r) => Lost(m, todo', held', i, r)
    BY <1>7, GoneLess DEF Lost
  <2>2. \A i, r : r \in Resources /\ Cleaned(m, todo', Leftovers(m), i, r) => Cleaned(m, todo', held', i, r)
    BY <1>1, <2>1 DEF Cleaned, Orderly, Answered
  <2> QED
    BY <1>1, <1>2, <2>2 DEF Orderly, Loads, Failable
<1>12. Calm(m, "loading", todo', held')
  <2>1. \A c \in Calls(m) : c.door \in Resources
    BY <1>1 DEF Orderly, Answered
  <2>2. ASSUME NEW i, NEW r, Undisturbed(m, todo', Leftovers(m), i, r) PROVE Undisturbed(m, todo', held', i, r)
    BY <1>7, <2>1, <2>2 DEF Undisturbed, Closed
  <2> QED
    BY <1>1, <1>2, <2>2 DEF Orderly, Loads, Calm
<1> QED
  BY <1>2, <1>3, <1>4, <1>5, <1>8, <1>9, <1>10, <1>11, <1>12 DEF IInv, Promises

(* exit begins, with what a live module keeps. *)
LEMMA RmmodKeeps == IInv /\ Rmmod => IInv'
<1> SUFFICES ASSUME IInv, Rmmod PROVE IInv'
  OBVIOUS
<1> DEFINE m == module
           e == ExitOf(module)
<1>1. m \in DOMAIN Modules /\ Orderly(m)
  BY AllOrderly DEF IInv, Typing
<1>2. /\ phase = "live" /\ phase' = "unloading" /\ todo' = e /\ held' = held /\ m' = m
      /\ (Pinned(m) => "file" \notin held)
      /\ UNCHANGED <<loads, astray, twice>>
  BY DEF Rmmod, ExitOf, Pinned
<1>3. todo = <<>> /\ Len(todo) + 1 = 1
  BY <1>2 DEF IInv, Typing
<1> HIDE DEF e
<1>4. Typing'
  BY <1>1, <1>2 DEF IInv, Typing, Orderly, Unloads, e
<1>5. Recorded' /\ Linked'
  BY <1>2 DEF IInv, Recorded, Linked
<1>6. Founded(m, "unloading", e, held) /\ Calm(m, "unloading", e, held)
  <2> SUFFICES ASSUME NEW i \in 1..Len(e), Wants(m, "unloading", e[i])
               PROVE  Steady(m, e[i].res) /\ Sure(e, held, i, e[i].res)
    BY DEF Founded, Calm, Undisturbed, Steady
  <2>1. Owned(m, e[i].res)
    BY DEF Owned, e
  <2>2. e[i].res \in Resources
    <3>1. e \in ExitScript
      BY <1>1 DEF Orderly, Unloads, e
    <3> QED
      BY <3>1, InExitScript
  <2>3. Steady(m, e[i].res) /\ e[i].res \in held
    BY <1>2, <1>3, <2>1, <2>2, SureNow DEF IInv, Promises, Keeping
  <2>4. \A j \in 1..Len(e) : j < i => ~Frees(e[j], e[i].res)
    BY <1>1 DEF Orderly, Unloads, Single, e
  <2> QED
    BY <2>3, <2>4 DEF Sure
<1>7. \A r \in held : r \in Keeps(m)
  BY <1>2, <1>3, GoneNow DEF IInv, Typing, Promises, Passing, Keeps
<1>8. Ordered(m, e, held)
  BY <1>1, <1>7, EndsLess DEF Orderly, Unloads, Ordered, e
<1>9. Ending(m, e, held)
  BY <1>1, <1>7, Settled DEF Ending, e
<1> QED
  BY <1>2, <1>4, <1>5, <1>6, <1>8, <1>9 DEF IInv, Promises

(* init, exit or a failed init is done. *)
LEMMA ReturnKeeps == IInv /\ Return => IInv'
<1> SUFFICES ASSUME IInv, Return PROVE IInv'
  OBVIOUS
<1> DEFINE m == module
<1>1. m \in DOMAIN Modules /\ Orderly(m)
  BY AllOrderly DEF IInv, Typing
<1>2. todo = <<>> /\ todo' = <<>> /\ m' = m /\ UNCHANGED <<loads, astray, twice>>
  BY DEF Return
<1>3. Recorded'
  BY <1>2 DEF IInv, Recorded
<1>4. Founded(m, phase', todo', held') /\ Calm(m, phase', todo', held')
  BY <1>2 DEF Founded, Calm
<1>5. CASE phase = "loading"
  <2>1. phase' = "live" /\ held' = held
    BY <1>5 DEF Return
  <2>2. Typing' /\ Linked'
    BY <1>2, <1>5, <2>1 DEF IInv, Typing, Linked
  <2> QED
    BY <1>2, <1>3, <1>4, <1>5, <2>1, <2>2 DEF IInv, Promises
<1>6. CASE phase \in {"failing", "unloading"}
  <2>1. phase' = "out" /\ held' = held \ {Code}
    BY <1>6 DEF Return
  <2>2. Typing'
    BY <1>2, <2>1 DEF IInv, Typing
  <2>3. \A d \in Resources : Relies(m, d, Code) => d \notin held'
    <3> SUFFICES ASSUME NEW d \in Resources, Relies(m, d, Code), d \in held, phase = "unloading" PROVE FALSE
      BY <1>6, <2>1 DEF IInv, Promises
    <3>1. ~Left(m, d) /\ d \notin Outlasts
      BY <1>1, <1>6 DEF Orderly, Apart, Outlasts, IInv, Promises
    <3> QED
      BY <1>2, <1>6, <3>1, Emptied
  <2>4. Linked'
    BY <1>2, <2>1, <2>3 DEF IInv, Linked
  <2>5. Ending(m, todo', held')
    BY <1>2, <1>6, <2>1, EndsLess DEF IInv, Promises, Ending
  <2>6. Pinned(m) => "file" \notin held'
    BY <1>6, <2>1 DEF IInv, Promises
  <2> QED
    BY <1>2, <1>3, <1>4, <2>1, <2>2, <2>4, <2>5, <2>6 DEF IInv, Promises
<1> QED
  BY <1>5, <1>6 DEF Return

(* A check that fails: what init has obtained goes back. *)
Fails ==
  /\ todo # <<>> /\ todo[1].op = "check" /\ todo[1].res \notin held
  /\ phase' = "failing" /\ todo' = todo[1].undo
  /\ UNCHANGED <<module, held, loads, astray, twice>>

(* Any other step. *)
Goes ==
  /\ todo # <<>> /\ todo' = Tail(todo) /\ Effect(todo, held, held')
  /\ UNCHANGED <<module, phase, loads>>
  /\ \A a \in astray' : a \in astray \/ (a = <<phase, todo[1].res>> /\ todo[1].op = "use" /\ todo[1].res \notin held)
  /\ \A r \in twice' : r \in twice \/ (r = todo[1].res /\ todo[1].op = "put" /\ r \notin held)

(* There is no other step. *)
LEMMA StepCases == ASSUME Steps PROVE Fails \/ Goes
<1> DEFINE s == Head(todo)
           gone == s.res \notin held
           rest == todo' = Tail(todo) /\ phase' = phase
           kept == astray' = astray /\ twice' = twice
<1>1. /\ todo # <<>> /\ module' = module /\ loads' = loads
      /\ \/ s.op \in {"get", "maybe"} /\ held' = held \cup {s.res} /\ rest /\ kept
         \/ s.op = "maybe" /\ held' = held /\ rest /\ kept
         \/ s.op = "check" /\ ~gone /\ held' = held /\ rest /\ kept
         \/ s.op = "check" /\ gone /\ phase' = "failing" /\ todo' = s.undo /\ held' = held /\ kept
         \/ s.op = "use" /\ astray' = astray \cup {<<phase, r>> : r \in {s.res} \ held}
              /\ held' = held /\ twice' = twice /\ rest
         \/ s.op = "put" /\ held' = held \ {s.res} /\ twice' = twice \cup ({s.res} \ held)
              /\ rest /\ astray' = astray
         \/ s.op = "drop" /\ held' = held \ {s.res} /\ rest /\ kept
         \/ s.op = "put_idle" /\ held' = (IF "file" \in held THEN held ELSE held \ {s.res}) /\ rest /\ kept
  BY DEF Steps
<1>0. s = todo[1]
  OBVIOUS
<1> HIDE DEF s
<1>2. CASE s.op \in {"get", "maybe"} /\ held' = held \cup {s.res} /\ rest /\ kept
  BY <1>0, <1>1, <1>2 DEF Goes, Effect, Frees, Takes, Adds, Brings
<1>3. CASE s.op = "maybe" /\ held' = held /\ rest /\ kept
  BY <1>0, <1>1, <1>3 DEF Goes, Effect, Frees, Takes, Adds, Brings
<1>4. CASE s.op = "check" /\ ~gone /\ held' = held /\ rest /\ kept
  BY <1>0, <1>1, <1>4 DEF Goes, Effect, Frees, Takes, Adds, Brings
<1>5. CASE s.op = "check" /\ gone /\ phase' = "failing" /\ todo' = s.undo /\ held' = held /\ kept
  BY <1>0, <1>1, <1>5 DEF Fails
<1>6. CASE s.op = "use" /\ astray' = astray \cup {<<phase, r>> : r \in {s.res} \ held}
           /\ held' = held /\ twice' = twice /\ rest
  BY <1>0, <1>1, <1>6 DEF Goes, Effect, Frees, Takes, Adds, Brings
<1>7. CASE s.op = "put" /\ held' = held \ {s.res} /\ twice' = twice \cup ({s.res} \ held)
           /\ rest /\ astray' = astray
  BY <1>0, <1>1, <1>7 DEF Goes, Effect, Frees, Takes, Adds, Brings
<1>8. CASE s.op = "drop" /\ held' = held \ {s.res} /\ rest /\ kept
  BY <1>0, <1>1, <1>8 DEF Goes, Effect, Frees, Takes, Adds, Brings
<1>9. CASE s.op = "put_idle" /\ held' = (IF "file" \in held THEN held ELSE held \ {s.res}) /\ rest /\ kept
  BY <1>0, <1>1, <1>9 DEF Goes, Effect, Frees, Takes, Adds, Brings
<1> QED
  BY <1>0, <1>1, <1>2, <1>3, <1>4, <1>5, <1>6, <1>7, <1>8, <1>9

(* The steps that are left, whatever the phase. *)
LEMMA Left2Do ==
  ASSUME IInv, todo # <<>>
  PROVE  /\ phase \in {"loading", "failing", "unloading"}
         /\ \E X : todo \in Seq(X)
         /\ 1 \in 1..Len(todo)
         /\ todo[1].res \in Resources \ Outlasts
         /\ phase = "loading" => todo[1].undo \in UndoScript
         /\ phase # "loading" => ~(todo[1].op = "check") /\ \A r : ~Adds(todo[1], r)
         /\ phase = "failing" => todo[1].op = "put"
<1>1. phase \in {"loading", "failing", "unloading"}
  BY DEF IInv, Typing
<1>2. CASE phase = "loading"
  <2>1. todo \in InitScript
    BY <1>2 DEF IInv, Typing
  <2>2. /\ 1 \in 1..Len(todo) /\ \E X : todo \in Seq(X)
        /\ \A i \in 1..Len(todo) : /\ todo[i].op \in {"get", "maybe", "check", "use", "put"}
                                   /\ todo[i].res \in Resources \ Outlasts
                                   /\ todo[i].undo \in UndoScript
    BY <2>1, InInitScript
  <2> QED
    BY <1>2, <2>2
<1>3. CASE phase = "failing"
  <2>1. todo \in UndoScript
    BY <1>3 DEF IInv, Typing
  <2>2. /\ 1 \in 1..Len(todo) /\ \E X : todo \in Seq(X)
        /\ \A i \in 1..Len(todo) : /\ todo[i].op \in {"put"}
                                   /\ todo[i].res \in Resources \ Outlasts
                                   /\ todo[i].undo \in {<<>>}
    BY <2>1, InUndoScript
  <2> QED
    BY <1>3, <2>2 DEF Adds
<1>4. CASE phase = "unloading"
  <2>1. todo \in ExitScript
    BY <1>4 DEF IInv, Typing
  <2>2. /\ 1 \in 1..Len(todo) /\ \E X : todo \in Seq(X)
        /\ \A i \in 1..Len(todo) : /\ todo[i].op \in {"use", "put", "drop", "put_idle"}
                                   /\ todo[i].res \in Resources \ Outlasts
                                   /\ todo[i].undo \in {<<>>}
    BY <2>1, InExitScript
  <2> QED
    BY <1>4, <2>2 DEF Adds
<1> QED
  BY <1>1, <1>2, <1>3, <1>4

(* What the check relied on is not held, so nothing that needs the code is. *)
LEMMA FailsKeeps == IInv /\ Fails => IInv'
<1> SUFFICES ASSUME IInv, Fails PROVE IInv'
  OBVIOUS
<1> DEFINE m == module
           st == todo[1]
           u == todo[1].undo
<1>1. m \in DOMAIN Modules /\ Orderly(m)
  BY AllOrderly DEF IInv, Typing
<1>2. /\ phase = "loading" /\ phase' = "failing" /\ todo' = u /\ held' = held /\ m' = m
      /\ 1 \in 1..Len(todo) /\ st.op = "check" /\ st.res \notin held /\ st.res \in Resources
      /\ u \in UndoScript
      /\ UNCHANGED <<loads, astray, twice>>
  BY Left2Do DEF Fails
<1>3. /\ Undoable(m, todo, held) /\ Failable(m, todo, held)
  BY <1>2 DEF IInv, Promises
<1>4. \A i \in 1..Len(u) : u[i].op = "put" /\ u[i].res \in Resources
  BY <1>2, InUndoScript
<1> HIDE DEF st, u
<1>5. Typing'
  BY <1>2 DEF IInv, Typing
<1>6. Recorded' /\ Linked'
  BY <1>2 DEF IInv, Recorded, Linked
<1>7. \A i \in 1..Len(u) : /\ Steady(m, u[i].res) /\ u[i].res \in held
                           /\ \A j \in 1..Len(u) : j < i => u[j].res # u[i].res
                           /\ \A d \in Resources : ~Relies(m, d, u[i].res)
  BY <1>2, <1>3, SureNow DEF Undoable, st, u
<1>8. Founded(m, "failing", u, held) /\ Calm(m, "failing", u, held)
  BY <1>7 DEF Founded, Sure, Frees, Calm, Undisturbed, Steady
<1>9. Unrelied(m, u)
  BY <1>7 DEF Unrelied, Frees
<1>10. \A r \in Resources : r = st.res \/ Relies(m, r, st.res) => r \notin held
  BY <1>2 DEF IInv, Linked
<1>11. \A d \in Resources : Relies(m, d, Code) => d \notin held
  BY <1>2, <1>3, <1>10 DEF Failable, st
<1>12. Pinned(m) => "file" \notin held
  <2>1. "file" \in Resources
    BY DEF Resources
  <2> QED
    BY <1>2, <1>3, <1>10, <2>1 DEF Failable, st
<1>13. \A r \in Resources : Lost(m, todo, held, 1, r) => r \notin held
  BY <1>10, GoneNow DEF Lost, st
<1>14. Ending(m, u, held)
  <2> SUFFICES ASSUME NEW r \in Resources \ Outlasts, ~Left(m, r), ~Blocked(m, r)
               PROVE  Ends(m, u, held, Len(u) + 1, r)
    BY DEF Ending
  <2>1. CASE ~Obtains(m, r)
    <3>1. r \notin held /\ Quiet(m, r)
      BY <2>1 DEF IInv, Typing, Obtains, Quiet
    <3> QED
      BY <3>1 DEF Ends, Quiet
  <2>2. CASE Quiet(m, r) /\ \E j \in 1..Len(u) : u[j].res = r
    <3>1. PICK j \in 1..Len(u) : u[j].res = r
      BY <2>2
    <3>0. Len(u) \in Nat
      BY <1>2 DEF UndoScript, Script
    <3>2. j < Len(u) + 1 /\ Takes(u[j], r)
      BY <1>4, <3>1, <3>0 DEF Takes
    <3> QED
      BY <2>2, <3>2 DEF Ends, Quiet
  <2>3. CASE Lost(m, todo, held, 1, r)
             /\ \A c \in Calls(m) : Brought(c, r) => Quiet(m, c.door) /\ Lost(m, todo, held, 1, c.door)
    <3>1. \A c \in Calls(m) : c.door \in Resources
      BY <1>1 DEF Orderly, Answered
    <3> QED
      BY <1>13, <2>3, <3>1 DEF Ends
  <2>4. Obtains(m, r) => Cleaned(m, todo, held, 1, r)
    BY <1>2, <1>3 DEF Failable, st
  <2> QED
    BY <2>1, <2>2, <2>3, <2>4 DEF Cleaned, u
<1> QED
  BY <1>2, <1>5, <1>6, <1>8, <1>9, <1>11, <1>12, <1>14 DEF IInv, Promises

(* Each promise holds one step on; what a step gives back, nothing relies on. *)
LEMMA GoesKeeps == IInv /\ Goes => IInv'
<1> SUFFICES ASSUME IInv, Goes PROVE IInv'
  OBVIOUS
<1> DEFINE m == module
           st == todo[1]
<1>1. m \in DOMAIN Modules /\ Orderly(m)
  BY AllOrderly DEF IInv, Typing
<1>2. /\ todo # <<>> /\ todo' = Tail(todo) /\ m' = m /\ UNCHANGED <<phase, loads>>
      /\ phase \in {"loading", "failing", "unloading"} /\ 1 \in 1..Len(todo)
      /\ st.res \in Resources \ Outlasts
  BY Left2Do DEF Goes
<1>3. PICK X : Going(X, todo, held, held')
  BY Left2Do DEF Goes, Going
<1>4. phase # "loading" => \A r : ~Adds(st, r)
  BY Left2Do, <1>2
<1>5. \A r : /\ r \in held /\ ~Frees(st, r) => r \in held'
             /\ r \in held' => r \in held \/ Adds(st, r)
  BY <1>3 DEF Going, Effect
<1>6. Typing'
  <2>1. /\ phase = "loading" => todo' \in InitScript
        /\ phase = "failing" => todo' \in UndoScript
        /\ phase = "unloading" => todo' \in ExitScript
    BY <1>2, InInitScript, InUndoScript, InExitScript DEF IInv, Typing
  <2>2. \A r : Adds(st, r) => r = st.res /\ phase = "loading"
    BY <1>4 DEF Adds
  <2>3. \A r \in held' : r \in Resources /\ Obtains(m, r)
    BY <1>2, <1>5, <2>2 DEF IInv, Typing, Promises, Obtaining
  <2>4. Code \in held'
    BY <1>2, <1>5 DEF IInv, Typing, Frees, Outlasts
  <2> QED
    BY <1>2, <2>1, <2>3, <2>4 DEF IInv, Typing
<1>7. Recorded'
  <2>1. st.op = "use" /\ st.res \notin held => <<m, phase, st.res>> \in KnownAstray
    BY <1>2, SureNow DEF IInv, Promises, Founded, Wants
  <2>2. st.op = "put" /\ st.res \notin held => <<m, st.res>> \in KnownTwice
    BY <1>2, SureNow DEF IInv, Promises, Founded, Wants
  <2>3. \A a \in astray' : a[2] \in Resources /\ <<m, a[1], a[2]>> \in KnownAstray
    <3> SUFFICES ASSUME NEW a \in astray', a \notin astray
                 PROVE  a[2] \in Resources /\ <<m, a[1], a[2]>> \in KnownAstray
      BY DEF IInv, Recorded
    <3>1. a = <<phase, st.res>> /\ st.op = "use" /\ st.res \notin held
      BY DEF Goes
    <3>2. a[1] = phase /\ a[2] = st.res
      BY <3>1
    <3> QED
      BY <1>2, <2>1, <3>1, <3>2
  <2>4. \A r \in twice' : r \in Resources /\ <<m, r>> \in KnownTwice
    BY <1>2, <2>2 DEF IInv, Recorded, Goes
  <2> QED
    BY <1>2, <2>3, <2>4 DEF Recorded
<1>8. Linked'
  <2> SUFFICES ASSUME NEW d \in Resources, NEW r \in Resources, Relies(m, d, r), d \in held'
               PROVE  r \in held'
    BY <1>2 DEF Linked
  <2>1. CASE Adds(st, d)
    <3>1. r \in held
      BY <1>2, <1>4, <2>1, SureNow DEF IInv, Promises, Grounded
    <3>2. ~Frees(st, r)
      BY <2>1 DEF Adds, Frees
    <3> QED
      BY <1>5, <3>1, <3>2
  <2>2. CASE d \in held
    <3>1. r \in held
      BY <2>2 DEF IInv, Linked
    <3>2. ASSUME Frees(st, r) PROVE FALSE
      <4>1. phase = "unloading" /\ (Blocked(m, d) \/ Ends(m, todo, held, 1, d))
        BY <1>2, <3>2 DEF IInv, Promises, Unrelied, Ordered
      <4>2. d \in held /\ Blocked(m, d)
        BY <2>2, <4>1, EndsNow
      <4>3. "file" \in held
        <5>1. "file" \in Resources
          BY DEF Resources
        <5> QED
          BY <4>2, <5>1 DEF Blocked, IInv, Linked
      <4> QED
        BY <4>1, <4>2, <4>3 DEF Blocked, IInv, Promises
    <3> QED
      BY <1>5, <3>1, <3>2
  <2> QED
    BY <1>5, <2>1, <2>2
<1>9. Founded(m, phase, todo', held') /\ Calm(m, phase, todo', held')
  BY <1>2, <1>3, FoundedStep, CalmStep DEF IInv, Promises
<1>10. CASE phase = "loading"
  <2>1. Undoable(m, todo', held') /\ Grounded(m, todo', held') /\ Failable(m, todo', held')
    BY <1>2, <1>3, <1>10, UndoableStep, GroundedStep, FailableStep DEF IInv, Promises
  <2>2. Unrelied(m, todo') /\ Obtaining(m, todo')
    BY <1>2, <1>3, <1>10, UnreliedStep, Shift DEF IInv, Promises, Going, Obtaining
  <2>3. Keeping(m, todo', held') /\ Passing(m, todo', held')
    BY <1>2, <1>3, <1>10, KeepingStep, PassingStep DEF IInv, Promises
  <2> QED
    BY <1>2, <1>6, <1>7, <1>8, <1>9, <1>10, <2>1, <2>2, <2>3 DEF IInv, Promises
<1>11. CASE phase # "loading"
  <2>1. Ending(m, todo', held')
    BY <1>2, <1>3, <1>4, <1>11, EndingStep DEF IInv, Promises
  <2>2. phase = "unloading" => Ordered(m, todo', held')
    BY <1>2, <1>3, <1>4, <1>11, OrderedStep DEF IInv, Promises
  <2>3. phase = "failing" => Unrelied(m, todo')
    BY <1>2, <1>3, UnreliedStep DEF IInv, Promises, Going
  <2>4. \A r : r \in held' => r \in held
    BY <1>4, <1>5, <1>11
  <2> QED
    BY <1>2, <1>6, <1>7, <1>8, <1>9, <1>11, <2>1, <2>2, <2>3, <2>4 DEF IInv, Promises
<1> QED
  BY <1>10, <1>11

(* A callback uses what its door relies on, and disturbs no promise. *)
LEMMA CalledKeeps == ASSUME IInv, NEW c \in Modules[module].calls, Called(c) PROVE IInv'
<1> DEFINE m == module
<1>1. m \in DOMAIN Modules /\ Orderly(m)
  BY AllOrderly DEF IInv, Typing
<1>2. /\ c \in Calls(m) /\ Answered(m, c) /\ c.door \in held /\ c.door \in Resources
      /\ held' = (held \cup c.gets) \ c.puts /\ m' = m
      /\ UNCHANGED <<phase, todo, loads, twice>>
  BY <1>1 DEF Orderly, Answered, Called, Calls
<1>3. Answer(m, held, held', c)
  BY <1>2 DEF Answer
<1>4. \A r \in Resources : Relies(m, c.door, r) => r \in held
  BY <1>2 DEF IInv, Linked
<1>5. Typing'
  <2>1. \A r \in held' : r \in Resources /\ Obtains(m, r)
    BY <1>2 DEF IInv, Typing, Answered, Obtains, Brought
  <2>2. Code \in held' <=> Code \in held
    BY <1>2 DEF Answered
  <2> QED
    BY <1>2, <2>1, <2>2 DEF IInv, Typing
<1>6. Recorded'
  <2>1. \A a \in astray' : a[2] \in Resources /\ <<m, a[1], a[2]>> \in KnownAstray
    <3> SUFFICES ASSUME NEW a \in astray', a \notin astray
                 PROVE  a[2] \in Resources /\ <<m, a[1], a[2]>> \in KnownAstray
      BY DEF IInv, Recorded
    <3>1. PICK r : r \in (c.needs \ held) \cup (c.after \ held') /\ a = <<c.name, r>>
      BY DEF Called
    <3>2. a[1] = c.name /\ a[2] = r
      BY <3>1
    <3>3. r \in Resources
      BY <1>2, <3>1 DEF Answered
    <3>4. ASSUME <<m, c.name, r>> \notin KnownAstray PROVE FALSE
      <4>1. r \in held
        BY <1>2, <1>4, <3>1, <3>3, <3>4 DEF Answered
      <4>2. r \in c.after /\ r \notin c.puts
        BY <1>2, <3>1, <3>4, <4>1 DEF Answered
      <4> QED
        BY <1>2, <3>1, <4>1, <4>2
    <3> QED
      BY <3>2, <3>3, <3>4
  <2> QED
    BY <1>2, <2>1 DEF IInv, Recorded
<1>7. Linked'
  <2> SUFFICES ASSUME NEW d \in Resources, NEW r \in Resources, Relies(m, d, r), d \in held'
               PROVE  r \in held'
    BY <1>2 DEF Linked
  <2>1. r \in c.puts => d \in c.puts
    BY <1>2 DEF Answered
  <2>2. r \notin c.puts
    BY <1>2, <2>1
  <2>3. CASE d \in held
    BY <1>2, <2>2, <2>3 DEF IInv, Linked
  <2>4. CASE Brought(c, d)
    BY <1>2, <1>4, <2>2, <2>4 DEF Answered
  <2> QED
    BY <1>2, <2>3, <2>4 DEF Brought
<1>8. Founded(m, phase, todo, held') /\ Calm(m, phase, todo, held')
  BY <1>3, FoundedAnswer DEF IInv, Promises
<1>9. phase \in {"loading", "live"} => Keeping(m, todo, held') /\ Passing(m, todo, held')
  BY <1>3, LoadingAnswer DEF IInv, Promises
<1>10. phase = "loading" => Undoable(m, todo, held') /\ Grounded(m, todo, held') /\ Failable(m, todo, held')
  BY <1>3, LoadingAnswer DEF IInv, Promises
<1>11. phase = "unloading" => Ordered(m, todo, held')
  BY <1>3, UnloadingAnswer DEF IInv, Promises
<1>12. phase \in {"failing", "unloading", "out"} => Ending(m, todo, held')
  BY <1>3, UnloadingAnswer DEF IInv, Promises
(* Once init has failed nobody comes in that needs the code. *)
<1>13. ~Relies(m, c.door, Code) \/ phase \in {"loading", "live", "unloading"}
  <2>1. phase = "failing" => ~Relies(m, c.door, Code)
    BY <1>2 DEF IInv, Promises
  <2>2. phase = "out" => ~Relies(m, c.door, Code)
    <3>1. Code \in Resources
      BY DEF Resources
    <3> QED
      BY <1>4, <3>1 DEF IInv, Typing
  <2> QED
    BY <2>1, <2>2 DEF IInv, Typing
<1>14. phase = "failing" => \A d \in Resources : Relies(m, d, Code) => d \notin held'
  <2> SUFFICES ASSUME phase = "failing", NEW d \in Resources, Relies(m, d, Code), d \in held' PROVE FALSE
    OBVIOUS
  <2>1. d \notin held
    BY DEF IInv, Promises
  <2>2. Brought(c, d)
    BY <1>2, <2>1 DEF Brought
  <2>3. Code \in Resources
    BY DEF Resources
  <2>4. Relies(m, c.door, Code)
    BY <1>2, <2>2, <2>3 DEF Answered
  <2> QED
    BY <1>13, <2>4
<1>15. phase \in {"failing", "unloading", "out"} /\ Pinned(m) => "file" \notin held'
  <2> SUFFICES ASSUME phase \in {"failing", "unloading", "out"}, Pinned(m), "file" \in held' PROVE FALSE
    OBVIOUS
  <2>1. "file" \notin held
    BY DEF IInv, Promises
  <2>2. "file" \in c.gets
    BY <1>2, <2>1
  <2>3. phase # "unloading"
    BY <2>2 DEF Called, Pinned
  <2> QED
    BY <1>2, <1>13, <2>2, <2>3 DEF Answered
<1> QED
  BY <1>2, <1>5, <1>6, <1>7, <1>8, <1>9, <1>10, <1>11, <1>12, <1>14, <1>15 DEF IInv, Promises

(* Nothing changes. *)
LEMMA StutterKeeps == IInv /\ UNCHANGED vars => IInv'
  BY DEF IInv, Typing, Recorded, Linked, Promises, vars

(* Every step keeps the invariant. *)
LEMMA Inductive == IInv /\ [Next]_vars => IInv'
<1> SUFFICES ASSUME IInv, [Next]_vars PROVE IInv'
  OBVIOUS
<1>1. CASE Insmod
  BY <1>1, InsmodKeeps
<1>2. CASE Rmmod
  BY <1>2, RmmodKeeps
<1>3. CASE Return
  BY <1>3, ReturnKeeps
<1>4. CASE Steps
  BY <1>4, StepCases, FailsKeeps, GoesKeeps
<1>5. ASSUME NEW c \in Modules[module].calls, Called(c) PROVE IInv'
  BY <1>5, CalledKeeps
<1>6. CASE UNCHANGED vars
  BY <1>6, StutterKeeps
<1> QED
  BY <1>1, <1>2, <1>3, <1>4, <1>5, <1>6 DEF Next

(* So it always holds. *)
LEMMA Invariance == Spec => []IInv
  BY Initially, Inductive, PTL DEF Spec

-----------------------------------------------------------------------------
(* The invariant bounds the types. *)
LEMMA Typed == IInv => TypeOK
<1> SUFFICES ASSUME IInv PROVE TypeOK
  OBVIOUS
<1>1. \A i \in 1..Len(todo) : todo[i].res \in Resources
  <2>1. CASE phase = "loading"
    BY <2>1, InInitScript DEF IInv, Typing
  <2>2. CASE phase = "failing"
    BY <2>2, InUndoScript DEF IInv, Typing
  <2>3. CASE phase = "unloading"
    BY <2>3, InExitScript DEF IInv, Typing
  <2>4. CASE phase \in {"out", "live"}
    <3>1. Len(todo) = 0
      BY <2>4 DEF IInv, Typing
    <3> QED
      BY <3>1
  <2> QED
    BY <2>1, <2>2, <2>3, <2>4 DEF IInv, Typing
<1>2. (Code \in held) = (phase # "out")
  BY DEF IInv, Typing
<1> QED
  BY <1>1, <1>2 DEF IInv, Typing, Recorded, TypeOK

(* A module that is out has kept the promise of its exit. *)
LEMMA Cleared == IInv => NothingLeft
<1> SUFFICES ASSUME IInv, phase = "out", NEW r \in held \ {"file"} PROVE <<module, r>> \in KnownLeft
  BY DEF NothingLeft
<1>1. todo = <<>> /\ r \in held \ Outlasts
  BY DEF IInv, Typing, Outlasts
<1> QED
  BY <1>1, Emptied DEF Left

(* The state of the module being loaded has its types throughout. *)
THEOREM TypeCorrect == Spec => []TypeOK
  BY Invariance, Typed, PTL

(* However open(), interrupts, timers and requests fall between the steps of
   init and exit, nothing is used that is not there, but for the known cases. *)
THEOREM FindsWhatItUses == Spec => []UsesWhatIsThere
<1>1. IInv => UsesWhatIsThere
  BY DEF IInv, Recorded, UsesWhatIsThere
<1> QED
  BY <1>1, Invariance, PTL

(* On no path through init, its error returns, exit and another load is anything
   given back twice, but for the known cases. *)
THEOREM GivesBackOnce == Spec => []GivenBackOnce
<1>1. IInv => GivenBackOnce
  BY DEF IInv, Recorded, GivenBackOnce
<1> QED
  BY <1>1, Invariance, PTL

(* A module that is out, after exit or an init that failed, has left nothing but
   the known cases. *)
THEOREM LeavesNothing == Spec => []NothingLeft
  BY Cleared, Invariance, PTL
==============================================================================
