------------------------------ MODULE ModuleLife ------------------------------
(***************************************************************************)
(* The life of a module: insmod runs its init function step by step, rmmod *)
(* its exit function, and between any two steps a file may be opened, an   *)
(* interrupt or a timer come, or a device be used, if what lets it in is   *)
(* there.  What is used while nobody holds it, what is given back twice    *)
(* and what is left behind is recorded.  A behaviour loads one module, at  *)
(* most MaxLoads times.                                                    *)
(***************************************************************************)
EXTENDS ModuleScripts, Integers, SequencesExt

CONSTANT MaxLoads

ASSUME MaxLoadsAssumption == MaxLoads \in Nat \ {0}

(* pinned: rmmod is refused while a file is open *)
Loadable(init, exit, calls) == [init |-> init, exit |-> exit, calls |-> calls, pinned |-> TRUE]
Unpinned(init, exit, calls) == [init |-> init, exit |-> exit, calls |-> calls, pinned |-> FALSE]

buttons == {buttons_open, buttons_close, buttons_irq}

Modules == [
  first_drv   |-> Loadable(first_drv_init, first_drv_exit, {first_drv_open, first_drv_write, Closes({})}),
  second_drv  |-> Loadable(second_drv_init, second_drv_exit, {second_drv_open, second_drv_read, Closes({})}),
  third_drv   |-> Loadable(third_drv_init, third_drv_exit, buttons),
  forth_drv   |-> Loadable(forth_drv_init, forth_drv_exit, buttons),
  asyn        |-> Loadable(fifth_drv_init, fifth_drv_exit, buttons),
  sixth_drv   |-> Loadable(sixth_drv_init, sixth_drv_exit, buttons),
  buttons_all |-> Loadable(buttons_all_init, buttons_all_exit,
                           {buttons_open, buttons_close, buttons_all_irq, buttons_all_timer}),
  input_sub   |-> Unpinned(input_sub_init, input_sub_exit, {input_sub_irq, input_sub_timer}),
  touch       |-> Unpinned(s3c_ts_init, s3c_ts_exit, {pen_down_up_irq, adc_irq, ts_timer}),
  usbmouse    |-> Unpinned(usbmouse_as_key_init, usbmouse_as_key_exit,
                           {usbmouse_as_key_irq, usbmouse_as_key_irq_last}),
  lcd         |-> Loadable(lcd_init, lcd_exit, {lcd_scan, lcd_open, lcd_draw, Closes({})}),
  s3c_nand    |-> Loadable(s3c_nand_init, s3c_nand_exit, {nand_open, nand_access, Closes({})}),
  s3c_nor     |-> Unpinned(s3c_nor_init, s3c_nor_exit, {nor_open, nor_access, nor_close}),
  ramblock    |-> Loadable(ramblock_init, ramblock_exit, {ramblock_open, ramblock_close, ramblock_request}),
  virt_net    |-> Unpinned(virt_net_init, virt_net_exit, {virt_net_send_packet}),
  i2c_bus     |-> Unpinned(i2c_bus_s3c2440_init, i2c_bus_s3c2440_exit, {xfer_irq, xfer_begin, xfer_end}),
  at24cxx_dev |-> Unpinned(at24cxx_dev_init, at24cxx_dev_exit,
                           {at24cxx_open, at24cxx_read, at24cxx_write, at24cxx_close}),
  new_device        |-> Unpinned(new_device_init, new_device_exit, {}),
  new_probed_device |-> Unpinned(new_probed_device_init, new_probed_device_exit, {}),
  adapter_detect    |-> Unpinned(adapter_detect_init, adapter_detect_exit, {}),
  attach      |-> Unpinned(attach_init, attach_exit, {}),
  at24cxx_19  |-> Loadable(at24cxx_init, at24cxx_exit,
                           {at24cxx_19_open, at24cxx_19_read, at24cxx_19_write, Closes({})})]

Resources == {
  Code, "file", "timer", "timer_set", "unarmed", "irqs", "irq", "irq_tc", "irq_adc", "skb", "transfer",
  "chrdev", "class", "device", "input", "input_dev", "usb_driver", "usb_buf", "urb", "urb_active",
  "framebuffer", "fb_info", "video_memory", "lcd_on", "gpb", "gpg", "gpccon", "gpdcon", "gpgcon",
  "regs", "clk", "chip", "mtd", "mtd_registered", "scan_data", "map", "virt",
  "gendisk", "queue", "blkdev", "buffer", "disk", "netdev", "registered",
  "adapter", "adapter_ref", "client", "attached", "i2c_driver"}

VARIABLES
  module,   \* which one
  phase,    \* out, loading, live, failing (init returns an error) or unloading
  todo,     \* the steps of init or exit that are left
  held,     \* what has been obtained and not given back
  loads,    \* times loaded
  astray,   \* history: <<who, what>> used while it was not held
  twice     \* history: what was given back while it was not held

vars == <<module, phase, todo, held, loads, astray, twice>>

TypeOK ==
  /\ module \in DOMAIN Modules /\ phase \in {"out", "loading", "live", "failing", "unloading"}
  /\ phase \in {"out", "live"} => todo = <<>>
  /\ \A i \in 1..Len(todo) : todo[i].res \in Resources
  /\ held \subseteq Resources /\ loads \in 0..MaxLoads
  /\ (Code \in held) = (phase # "out")
  /\ \A a \in astray : a[2] \in Resources
  /\ twice \subseteq Resources

Init ==
  /\ module \in DOMAIN Modules /\ phase = "out" /\ todo = <<>> /\ held = {} /\ loads = 0
  /\ astray = {} /\ twice = {}

-----------------------------------------------------------------------------
Insmod ==
  /\ phase = "out" /\ loads < MaxLoads
  /\ phase' = "loading" /\ todo' = Modules[module].init
  /\ loads' = loads + 1 /\ held' = held \cup {Code}
  /\ UNCHANGED <<module, astray, twice>>

\* fault: the code goes before exit has run
Rmmod_frees_first ==
  /\ phase = "live"
  /\ Modules[module].pinned => "file" \notin held
  /\ phase' = "unloading" /\ todo' = Modules[module].exit
  /\ held' = held \ {Code}
  /\ UNCHANGED <<module, loads, astray, twice>>

\* module_put and try_module_get: the file of a module keeps it
Rmmod ==
  /\ phase = "live"
  /\ Modules[module].pinned => "file" \notin held
  /\ phase' = "unloading" /\ todo' = Modules[module].exit
  /\ UNCHANGED <<module, held, loads, astray, twice>>

\* init or exit returns; after an error, and after exit, the code is freed
Return ==
  /\ todo = <<>> /\ phase \in {"loading", "failing", "unloading"}
  /\ IF phase = "loading" THEN phase' = "live" /\ UNCHANGED held
     ELSE phase' = "out" /\ held' = held \ {Code}
  /\ UNCHANGED <<module, todo, loads, astray, twice>>

Steps ==
  /\ todo # <<>>
  /\ UNCHANGED <<module, loads>>
  /\ LET s == Head(todo)
         rest == todo' = Tail(todo) /\ UNCHANGED phase
         gone == s.res \notin held
         kept == UNCHANGED <<astray, twice>>
     IN \/ s.op \in {"get", "maybe"} /\ held' = held \cup {s.res} /\ rest /\ kept
        \/ s.op = "maybe" /\ UNCHANGED held /\ rest /\ kept
        \/ s.op = "check" /\ ~gone /\ UNCHANGED held /\ rest /\ kept
        \/ s.op = "check" /\ gone /\ phase' = "failing" /\ todo' = s.undo /\ UNCHANGED held /\ kept
        \/ s.op = "use" /\ astray' = astray \cup {<<phase, r>> : r \in {s.res} \ held}
             /\ UNCHANGED <<held, twice>> /\ rest
        \/ s.op = "put" /\ held' = held \ {s.res} /\ twice' = twice \cup ({s.res} \ held)
             /\ rest /\ UNCHANGED astray
        \/ s.op = "drop" /\ held' = held \ {s.res} /\ rest /\ kept
        \/ s.op = "put_idle" /\ held' = (IF "file" \in held THEN held ELSE held \ {s.res}) /\ rest /\ kept

\* a callback comes; a file of a module that keeps it is not opened once rmmod began
Called(c) ==
  /\ c.door \in held
  /\ c.gets \cap {"file", "transfer"} \cap held = {}
  /\ "file" \in c.gets /\ Modules[module].pinned => phase # "unloading"
  /\ held' = (held \cup c.gets) \ c.puts
  /\ astray' = astray \cup {<<c.name, r>> : r \in (c.needs \ held) \cup (c.after \ held')}
  /\ UNCHANGED <<module, phase, todo, loads, twice>>

Next == Insmod \/ Rmmod \/ Return \/ Steps \/ \E c \in Modules[module].calls : Called(c)

Spec == Init /\ [][Next]_vars

-----------------------------------------------------------------------------
\* What the modules are known to use when it is not there.  open() of the first
\* two may come before their ioremap (84-97, 78-83); the ADC interrupt of touch,
\* requested at 236, may start the timer (166) before it is set up (245); the timer
\* of buttons_all and of touch outlives exit (243, 256); a chip that was not identified is
\* registered (s3c_nand 172-182); an open nor device, an open client of an
\* adapter and of a removed i2c device outlive what they use; the length of a
\* packet is read after it was freed (virt_net 108).
KnownAstray == {
  <<"first_drv", "open", "gpb">>, <<"first_drv", "write", "gpb">>,
  <<"second_drv", "open", "gpg">>, <<"second_drv", "read", "gpg">>,
  <<"buttons_all", "timer", Code>>,
  <<"touch", "adc_irq", "timer_set">>,
  <<"touch", "timer", "regs">>, <<"touch", "timer", "input_dev">>, <<"touch", "timer", Code>>,
  <<"s3c_nand", "loading", "scan_data">>, <<"s3c_nand", "access", "scan_data">>,
  <<"s3c_nor", "access", "virt">>, <<"s3c_nor", "access", "map">>,
  <<"i2c_bus", "xfer_end", "regs">>, <<"i2c_bus", "xfer_end", Code>>,
  <<"at24cxx_dev", "read", "client">>, <<"at24cxx_dev", "write", "client">>,
  <<"virt_net", "send", "skb">>}

\* The three input drivers free the input_dev that they have unregistered; touch adds
\* a timer that its ADC interrupt may have started (247).
KnownTwice == ({"input_sub", "touch", "usbmouse"} \X {"input_dev"}) \cup {<<"touch", "unarmed">>}

\* Clocks are never given back, nor what nand_scan and the chip probe allocated,
\* nor the client that detect() made; an lcd whose framebuffer is refused stays on.
KnownLeft ==
  ({"touch", "s3c_nand", "i2c_bus"} \X {"clk"})
  \cup {<<"s3c_nand", "scan_data">>, <<"s3c_nor", "mtd">>, <<"s3c_nor", "mtd_registered">>,
        <<"at24cxx_19", "client">>, <<"buttons_all", "timer">>, <<"touch", "timer">>, <<"i2c_bus", "transfer">>}
  \cup ({"lcd"} \X {"fb_info", "gpccon", "gpdcon", "gpgcon", "regs", "video_memory", "lcd_on"})

-----------------------------------------------------------------------------
\* Nothing is used that is not there: however open(), interrupts, timers and
\* requests fall between the steps of init and exit, they find what they use,
\* but for the known cases.
UsesWhatIsThere == \A a \in astray : <<module, a[1], a[2]>> \in KnownAstray

\* Nothing is given back twice, on no path through init, its error returns, exit
\* and a second load, but for the known cases.
GivenBackOnce == \A r \in twice : <<module, r>> \in KnownTwice

\* A module that is out holds nothing, whether its init failed or its exit ran,
\* but for the known cases and a file that does not keep it.
NothingLeft == phase = "out" => \A r \in held \ {"file"} : <<module, r>> \in KnownLeft
=============================================================================
