---------------------------- MODULE ModuleScripts ----------------------------
(***************************************************************************)
(* What each module obtains when it is loaded and gives back when it is    *)
(* unloaded, in the order of its init and exit functions, and what its     *)
(* callbacks need.  The settings an init function makes on the way are     *)
(* left out.                                                               *)
(*                                                                         *)
(* An allocation or registration whose result the code does not look at is *)
(* taken to succeed (Get).  One that it looks at, the detection of a chip  *)
(* and the submission of an urb may fail (Maybe); Check is where the code  *)
(* looks, and undo what it gives back before it returns the error.         *)
(***************************************************************************)
EXTENDS Sequences

Get(r)         == [op |-> "get",   res |-> r, undo |-> <<>>]
Maybe(r)       == [op |-> "maybe", res |-> r, undo |-> <<>>]
Check(r, undo) == [op |-> "check", res |-> r, undo |-> undo]
Use(r)         == [op |-> "use",   res |-> r, undo |-> <<>>]
Put(r)         == [op |-> "put",   res |-> r, undo |-> <<>>]
PutIdle(r)     == [op |-> "put_idle", res |-> r, undo |-> <<>>]   \* fails while a file is open
Drop(r)        == [op |-> "drop",  res |-> r, undo |-> <<>>]      \* if there is one

(* A callback comes while its door is held.  It uses what it needs, and    *)
(* what it needs after it has given up what it puts.                       *)
Callback(name, door, needs, gets, puts, after) ==
  [name |-> name, door |-> door, needs |-> needs, gets |-> gets, puts |-> puts, after |-> after]

Code == "text"   \* the module's own code, gone once it is unloaded

On(name, door, needs)   == Callback(name, door, needs \cup {Code}, {}, {}, {})
Opens(door, needs, gets) == Callback("open", door, needs \cup {Code}, gets \cup {"file"}, {}, {})
Closes(puts)            == Callback("close", "file", {Code}, {}, puts \cup {"file"}, {})

(* A timer is there from init_timer() until the memory of its module goes; *)
(* add_timer() finds that nobody has started it since.  An interrupt       *)
(* starts it with mod_timer().                                             *)
set_timer == <<Get("timer_set"), Get("unarmed"), Put("unarmed"), Get("timer")>>

Arms(name, door, needs) ==
  Callback(name, door, needs \cup {"timer_set", Code}, {"timer"}, {"unarmed"}, {})
Expires(needs)          == Callback("timer", "timer", needs \cup {Code}, {}, {"timer"}, {})

-----------------------------------------------------------------------------
(* led/first_drv.c and 2th-inquiry/second_drv.c *)

first_drv_open  == Opens("chrdev", {"gpb"}, {})
first_drv_write == On("write", "file", {"gpb"})
first_drv_init  == <<Get("chrdev"), Get("class"), Get("device"), Get("gpb")>>
first_drv_exit  == <<Put("chrdev"), Put("device"), Put("class"), Put("gpb")>>

second_drv_open == Opens("chrdev", {"gpg"}, {})
second_drv_read == On("read", "file", {"gpg"})
second_drv_init == <<Get("chrdev"), Get("class"), Get("device"), Get("gpg")>>
second_drv_exit == <<Put("chrdev"), Put("device"), Put("class"), Put("gpg")>>

-----------------------------------------------------------------------------
(* The button drivers: the lines are requested by open() and freed by      *)
(* close().                                                                *)

buttons_open  == Opens("chrdev", {}, {"irqs"})
buttons_close == Closes({"irqs"})
buttons_irq   == On("irq", "irqs", {})

third_drv_init == <<Get("chrdev"), Get("class"), Get("device"), Get("gpg")>>
third_drv_exit == <<Put("chrdev"), Put("device"), Put("class"), Put("gpg")>>

forth_drv_init == <<Get("chrdev"), Get("class"), Get("device")>>
forth_drv_exit == <<Put("chrdev"), Put("device"), Put("class")>>

fifth_drv_init == <<Get("chrdev"), Get("class"), Get("device")>>
fifth_drv_exit == <<Put("chrdev"), Put("device"), Put("class")>>

sixth_drv_init == <<Get("chrdev"), Get("class"), Get("device")>>
sixth_drv_exit == <<Put("chrdev"), Put("device"), Put("class")>>

\* 7th-chr_dev_drv_all: the interrupt arms the timer, which exit does not delete
buttons_all_irq   == Arms("irq", "irqs", {})
buttons_all_timer == Expires({})
buttons_all_init  == set_timer \o <<Get("chrdev"), Get("class"), Get("device")>>
buttons_all_exit  == <<Put("chrdev"), Put("device"), Put("class"), Drop("timer_set")>>

-----------------------------------------------------------------------------
(* Input devices.  input_unregister_device drops the reference to the      *)
(* input_dev that input_free_device drops.                                 *)

input_unregister == <<Put("input"), Put("input_dev")>>
input_free       == Put("input_dev")

\* 8th-input_sub_sys
input_sub_irq   == Arms("irq", "irqs", {})
input_sub_timer == Expires({"input_dev"})
input_sub_init  == <<Maybe("input_dev"), Check("input_dev", <<>>), Get("input")>>
                     \o set_timer \o <<Get("irqs")>>
input_sub_exit  == <<Put("irqs"), Drop("timer")>> \o input_unregister \o <<input_free, Drop("timer_set")>>

\* 11th-ts; the ADC interrupt starts the timer, and is requested before it is set up
pen_down_up_irq == On("pen_irq", "irq_tc", {"regs", "input_dev"})
adc_irq         == Arms("adc_irq", "irq_adc", {"regs", "input_dev"})
ts_timer        == Expires({"regs", "input_dev"})
s3c_ts_init     == <<Get("input_dev"), Get("input"), Get("clk"), Get("regs"), Use("regs"),
                     Get("irq_tc"), Get("irq_adc"), Use("regs")>> \o set_timer \o <<Use("regs")>>
s3c_ts_exit     == <<Drop("timer"), Put("irq_tc"), Put("irq_adc"), Put("regs")>>
                   \o input_unregister \o <<input_free, Drop("timer_set")>>

\* 12th-usb; a mouse is plugged in: probe() runs when the driver registers and
\* disconnect() when it is deregistered.  The urb may be refused, in probe() and in
\* the handler (_last); killing one that is not submitted does nothing.
usbmouse_as_key_irq      == On("irq", "urb_active", {"input_dev", "usb_buf", "urb"})
usbmouse_as_key_irq_last == [usbmouse_as_key_irq EXCEPT !.puts = {"urb_active"}]
usbmouse_as_key_probe == <<Get("input_dev"), Get("input"), Get("usb_buf"), Get("urb"), Maybe("urb_active")>>
usbmouse_as_key_disconnect ==
  <<Drop("urb_active"), Put("urb"), Put("usb_buf")>> \o input_unregister \o <<input_free>>
usbmouse_as_key_init == <<Get("usb_driver")>> \o usbmouse_as_key_probe
usbmouse_as_key_exit == usbmouse_as_key_disconnect \o <<Put("usb_driver")>>

-----------------------------------------------------------------------------
(* 10th-lcd: the controller reads video memory as long as it is on *)

lcd_scan  == Callback("scan", "lcd_on", {"video_memory"}, {}, {}, {})
lcd_open  == Opens("framebuffer", {"fb_info"}, {})
lcd_draw  == On("draw", "file", {"fb_info", "video_memory"})
lcd_init  == <<Maybe("fb_info"), Check("fb_info", <<>>),
               Get("gpccon"), Get("gpdcon"), Get("gpgcon"), Get("regs"), Use("regs"),
               Get("video_memory"), Use("regs"), Get("lcd_on"),
               Maybe("framebuffer"), Check("framebuffer", <<>>)>>
\* fault: video memory is freed while the controller still reads it
lcd_exit_memory_first ==
  <<Put("framebuffer"), Put("video_memory"), Use("regs"), Put("lcd_on"),
    Put("regs"), Put("gpgcon"), Put("gpccon"), Put("gpdcon"), Put("fb_info")>>

lcd_exit == <<Put("framebuffer"), Use("regs"), Put("lcd_on"), Put("video_memory"),
              Put("regs"), Put("gpgcon"), Put("gpccon"), Put("gpdcon"), Put("fb_info")>>

-----------------------------------------------------------------------------
(* Storage *)

\* 14th-nand: the chip may not be identified (170), and is registered all the
\* same (182); scan_data is what nand_scan_tail allocates
nand_open     == Opens("mtd_registered", {"chip", "mtd"}, {})
nand_access   == On("access", "file", {"chip", "mtd", "regs", "scan_data"})
s3c_nand_init == <<Get("chip"), Get("regs"), Get("clk"), Use("regs"), Get("mtd"),
                   Maybe("scan_data"), Use("scan_data"), Get("mtd_registered")>>
\* fault: exit also frees the mtd that nand_release has taken out
s3c_nand_exit_twice == <<Put("mtd_registered"), Put("mtd"), Put("regs"), Put("chip"), Put("mtd")>>

s3c_nand_exit == <<Put("mtd_registered"), Put("mtd"), Put("regs"), Put("chip")>>

\* 15th-nor: two probes, the second if the first finds nothing; nobody sets the
\* owner of the mtd, so an open file does not keep the module
nor_open     == Callback("open", "mtd_registered", {"mtd"}, {"file"}, {}, {})
nor_access   == Callback("access", "file", {"mtd", "virt", "map"}, {}, {}, {})
nor_close    == Callback("close", "file", {"mtd"}, {}, {"file"}, {})
\* fault: a failed probe leaves the mapping
s3c_nor_init_leaks == <<Get("map"), Get("virt"), Maybe("mtd"), Maybe("mtd"),
                        Check("mtd", <<Put("map")>>), Get("mtd_registered")>>

s3c_nor_init == <<Get("map"), Get("virt"), Maybe("mtd"), Maybe("mtd"),
                  Check("mtd", <<Put("virt"), Put("map")>>), Get("mtd_registered")>>
s3c_nor_exit == <<PutIdle("mtd_registered"), Put("virt"), Put("map")>>

\* 13th-ramblock
ramblock_request == On("request", "disk", {"buffer", "queue"})
ramblock_open    == Opens("disk", {"gendisk", "queue"}, {})
ramblock_close   == Closes({})
ramblock_init    == <<Get("gendisk"), Get("queue"), Get("blkdev"), Get("buffer"), Get("disk")>>
ramblock_exit    == <<Put("blkdev"), Put("disk"), Put("gendisk"), Put("queue"), Put("buffer")>>

-----------------------------------------------------------------------------
(* 16th-virt_net: the buffer handed in is freed (101), then its length is  *)
(* added to the statistics (108).                                          *)

emulator_rx_packet   == {"netdev"}   \* the reply is a copy of the packet, and handed on
virt_net_send_packet == Callback("send", "registered", emulator_rx_packet \cup {Code}, {"skb"}, {"skb"}, {"skb", "netdev"})
virt_net_init == <<Maybe("netdev"), Check("netdev", <<>>), Get("registered")>>
virt_net_exit == <<Put("registered"), Put("netdev")>>

-----------------------------------------------------------------------------
(* I2C.  A client's transfer sleeps in the bus module, which its open file *)
(* does not keep.                                                          *)

xfer_irq   == On("irq", "irq", {"regs"})
xfer_begin == Callback("xfer", "adapter", {"regs", "irq", Code}, {"transfer"}, {}, {})
xfer_end   == Callback("xfer_end", "transfer", {"regs", Code}, {}, {"transfer"}, {})
i2c_bus_s3c2440_init == <<Get("regs"), Get("clk"), Use("regs"), Get("irq"), Get("adapter")>>
i2c_bus_s3c2440_exit == <<Put("adapter"), Put("irq"), Put("regs")>>

\* 21th_i2c_drv/4th: at24cxx_drv.c stays loaded, at24cxx_dev.c makes the client,
\* for which the core calls probe(), and takes it away after remove(); the file
\* keeps the module of the driver, not the one of the device
at24cxx_read  == Callback("read", "file", {"client"}, {}, {}, {})
at24cxx_write == Callback("write", "file", {"client"}, {}, {}, {})
at24cxx_open  == Callback("open", "chrdev", {}, {"file"}, {}, {})
at24cxx_close == Callback("close", "file", {}, {}, {"file"}, {})
at24cxx_probe    == <<Get("chrdev"), Get("class"), Get("device")>>
at24cxx_remove   == <<Put("device"), Put("class"), Put("chrdev")>>
at24cxx_dev_init == <<Get("adapter_ref"), Get("client")>> \o at24cxx_probe \o <<Put("adapter_ref")>>
at24cxx_dev_exit == at24cxx_remove \o <<Put("client")>>

\* 21th_i2c_drv/1th and 2th: the driver does nothing in probe(), and the second
\* looks whether a chip answered
new_device_init        == <<Get("adapter_ref"), Get("client"), Put("adapter_ref")>>
new_device_exit        == <<Put("client")>>
new_probed_device_init == <<Get("adapter_ref"), Maybe("client"), Put("adapter_ref"), Check("client", <<>>)>>
new_probed_device_exit == <<Put("client")>>

\* 21th_i2c_drv/3th and 19th_i2c_drv/1th: the core makes the client, or nothing
\* is made, when the driver registers
adapter_detect_init == <<Get("i2c_driver"), Maybe("client")>>
adapter_detect_exit == <<Drop("client"), Put("i2c_driver")>>
attach_init         == <<Get("i2c_driver")>>
attach_exit         == <<Put("i2c_driver")>>

\* 19th_i2c_drv/5th; detach frees the client's data, which was never set (146)
at24cxx_19_open  == Opens("chrdev", {}, {})
at24cxx_19_read  == On("read", "file", {"client"})
at24cxx_19_write == On("write", "file", {"client"})
at24cxx_detect   == <<Get("client"), Get("attached"), Get("chrdev"), Get("class"), Get("device")>>
at24cxx_detach   == <<Put("device"), Put("class"), Put("chrdev"), Put("attached")>>
at24cxx_init     == <<Get("i2c_driver")>> \o at24cxx_detect
at24cxx_exit     == at24cxx_detach \o <<Put("i2c_driver")>>
=============================================================================
