------------------------------ MODULE InputCore ------------------------------
(***************************************************************************)
(* What the kernel's input layer does with the key events of a driver, as  *)
(* far as the drivers here depend on it: an input device is the set of its *)
(* keys that are down, and the key that repeats while it is held (EV_REP). *)
(***************************************************************************)

NoKey == "KEY_RESERVED"

\* a device that has just been registered, or whose keys have been let go
NewDev == [key |-> {}, rep |-> NoKey]

\* an event that says what the device shows already is dropped; a press repeats
\* from now on, a release ends any repetition
input_event(dev, code, down) ==
  CASE (code \in dev.key) = down -> dev
    [] down /\ code \notin dev.key -> [key |-> dev.key \cup {code}, rep |-> code]
    [] OTHER -> [key |-> dev.key \ {code}, rep |-> NoKey]

InputDevs(codes) == [key : SUBSET codes, rep : codes \cup {NoKey}]
=============================================================================
