------------------------------ MODULE Keyboard ------------------------------
(***************************************************************************)
(* The keyboard, vtty_keyboard_interrupt() of driver/character/vtty.c: one *)
(* interrupt per scan code, prefixes and the codes of the pause key span   *)
(* several; modifiers, locks, and the switch to another terminal, whose    *)
(* modifiers and locks vtty_setfocus() saves and restores.                 *)
(***************************************************************************)
EXTENDS Integers, Sequences, FiniteSets

CONSTANTS KeyTtys,     \* terminals that alt and a function key lead to
          KeyMenu      \* the keys a behaviour presses.  A bound

\* Prefixes are no keys.
ASSUME KeyAssumption == \A menu \in KeyMenu : menu \cap {"E0", "E1", "none"} = {}

VARIABLES keymenu,
          held,        \* the keys that are down
          wire,        \* scan codes under way
          igncnt, E0_received,
          lr,          \* l_ctrl, r_ctrl, l_shift, r_shift, l_alt, r_alt: those that are set
          mods,        \* ctrl, shift, alt: those that are set
          lock,        \* capslock, numlock, scrolllock: those that are set
          savedkeys,   \* per terminal: its mods and lock while it has no focus
          keytty,      \* the terminal with the focus
          sent,        \* history: what the last key sent
          due,         \* history: what it should send, by the keys that are down
          switched     \* history: no modifier has changed since the focus did

yVars == <<keymenu, held, wire, igncnt, E0_received, lr, mods, lock, savedkeys, keytty, sent, due, switched>>

Modifiers == [l_ctrl |-> "ctrl", r_ctrl |-> "ctrl", l_shift |-> "shift", r_shift |-> "shift", l_alt |-> "alt", r_alt |-> "alt"]
LockKeys  == {"capslock", "numlock", "scrolllock"}
NoKey     == [key |-> "none", table |-> "none"]

KeyInit == /\ keymenu \in KeyMenu
           /\ held = {} /\ wire = <<>> /\ igncnt = 0 /\ E0_received = FALSE
           /\ lr = {} /\ mods = {} /\ lock = {}
           /\ savedkeys = [v \in KeyTtys |-> [mods |-> {}, lock |-> {}]]
           /\ keytty = 0
           /\ sent = NoKey /\ due = NoKey /\ switched = FALSE

(***************************************************************************)
(* The keyboard: a code is a key that goes down or up, or a prefix.  The   *)
(* keys right and above have the codes of others after a prefix; with num  *)
(* lock on, the arrows come with a shift that is not pressed.              *)
(***************************************************************************)
Down(k) == [key |-> k, up |-> FALSE]
Up(k)   == [key |-> k, up |-> TRUE]
E0      == Down("E0")
E1      == Down("E1")
Twin(k) == CASE k = "r_ctrl" -> "l_ctrl" [] k = "r_alt" -> "l_alt" [] k = "arrow" -> "pad"
Extended == {"r_ctrl", "r_alt", "arrow"}

Pressed(k)  == CASE k = "pause" -> <<E1, Down("l_ctrl"), Down("numlock"), E1, Up("l_ctrl"), Up("numlock")>>
                 [] k \in Extended -> (IF k = "arrow" /\ "numlock" \in lock THEN <<E0, Down("l_shift")>> ELSE <<>>)
                                      \o <<E0, Down(Twin(k))>>
                 [] OTHER -> <<Down(k)>>
Released(k) == CASE k = "pause" -> <<>>
                 [] k \in Extended -> <<E0, Up(Twin(k))>>
                                      \o (IF k = "arrow" /\ "numlock" \in lock THEN <<E0, Up("l_shift")>> ELSE <<>>)
                 [] OTHER -> <<Up(k)>>

(***************************************************************************)
(* The driver.                                                             *)
(***************************************************************************)
Dep(k) == IF k = "pad" THEN "NUMLOCK" ELSE "CAPSLOCK"      \* keys_dep[]
FunctionKeys == [f1 |-> 0, f2 |-> 1]

\* Which of keys[], shift_keys[], ctrl_keys[], alt_keys[] a key is looked up in.
ShiftIf(on)  == IF on THEN "shift_keys" ELSE "keys"
Table(k, m) ==
    LET num == ShiftIf("numlock" \in lock)   caps == "capslock" \in lock
    IN  CASE "ctrl" \in m  -> (IF Dep(k) = "CAPSLOCK" THEN "ctrl_keys" ELSE num)
          [] "ctrl" \notin m /\ "shift" \in m -> ShiftIf(IF Dep(k) = "CAPSLOCK" THEN ~caps ELSE "numlock" \notin lock)
          [] m = {"alt"}   -> (IF Dep(k) = "CAPSLOCK" THEN "alt_keys" ELSE num)
          [] m = {}        -> (IF Dep(k) = "CAPSLOCK" THEN ShiftIf(caps) ELSE num)
Sends(k, m) == IF m = {"alt"} /\ k \in DOMAIN FunctionKeys THEN [key |-> k, table |-> "focus"]
               ELSE [key |-> k, table |-> Table(k, m)]

\* What the code stands for after a prefix.
Meant(c) == IF E0_received THEN (CASE c.key = "l_ctrl" -> "r_ctrl" [] c.key = "l_alt" -> "r_alt"
                                   [] c.key = "pad" -> "arrow" [] OTHER -> "none")
            ELSE c.key

Holding(set)  == {Modifiers[k] : k \in set \cap DOMAIN Modifiers}

\* Mutant: only the key that changes counts, not its twin.
Modify_OneOfTwo(k, up) == /\ lr' = IF up THEN lr \ {k} ELSE lr \cup {k}
                          /\ mods' = IF up THEN mods \ {Modifiers[k]} ELSE mods \cup {Modifiers[k]}
                          /\ switched' = FALSE

Modify(k, up) == /\ lr' = IF up THEN lr \ {k} ELSE lr \cup {k}
                 /\ mods' = Holding(lr')
                 /\ switched' = FALSE

vtty_setfocus(v) ==
    /\ savedkeys' = [savedkeys EXCEPT ![keytty] = [mods |-> mods, lock |-> lock]]
    /\ keytty' = v /\ mods' = savedkeys[v].mods /\ lock' = savedkeys[v].lock
    /\ switched' = TRUE
Stay == UNCHANGED <<mods, lock, savedkeys, keytty, switched>>

Key(k) == LET s == Sends(k, mods)
              to == FunctionKeys[k]
          IN  /\ sent' = s
              /\ IF s.table = "focus" /\ to # keytty THEN vtty_setfocus(to) ELSE Stay
              /\ UNCHANGED lr

\* The code of the pause key is known by its first part, the other five are ignored.
Decode(c) ==
    CASE c = E1 -> /\ igncnt' = 5 /\ Key("pause") /\ UNCHANGED E0_received
      [] c # E1 ->
           LET k == Meant(c)
           IN  /\ E0_received' = (c = E0) /\ UNCHANGED igncnt
               /\ CASE k \in DOMAIN Modifiers -> Modify(k, c.up) /\ UNCHANGED <<lock, savedkeys, keytty, sent>>
                    [] k \in LockKeys /\ ~c.up -> /\ lock' = (lock \ {k}) \cup ({k} \ lock)
                                                  /\ UNCHANGED <<lr, mods, savedkeys, keytty, sent, switched>>
                    [] k \notin DOMAIN Modifiers \cup LockKeys \cup {"E0", "none"} /\ ~c.up -> Key(k)
                    [] OTHER -> Stay /\ UNCHANGED <<lr, sent>>

ScanCode ==
    /\ wire # <<>>
    /\ wire' = Tail(wire)
    /\ IF igncnt = 0 THEN Decode(Head(wire))
       ELSE igncnt' = igncnt - 1 /\ Stay /\ UNCHANGED <<E0_received, lr, sent>>
    /\ UNCHANGED <<keymenu, held, due>>

Press(k) ==
    /\ wire = <<>> /\ k \in keymenu \ held
    /\ wire' = Pressed(k)
    /\ held' = IF k = "pause" THEN held ELSE held \cup {k}
    /\ due' = IF k \in DOMAIN Modifiers \cup LockKeys THEN due ELSE Sends(k, IF switched THEN mods ELSE Holding(held))
    /\ UNCHANGED <<keymenu, igncnt, E0_received, lr, mods, lock, savedkeys, keytty, sent, switched>>

Release(k) ==
    /\ wire = <<>> /\ k \in held
    /\ wire' = Released(k) /\ held' = held \ {k}
    /\ UNCHANGED <<keymenu, igncnt, E0_received, lr, mods, lock, savedkeys, keytty, sent, due, switched>>

KeyNext == ScanCode \/ \E k \in keymenu : Press(k) \/ Release(k)

KeySpec == KeyInit /\ [][KeyNext]_yVars

(***************************************************************************)
(* Properties.                                                             *)
(***************************************************************************)
\* When its codes have come, each key has sent what the keys held with it and the locks call for, from the right
\* table and once, and each modifier is set as long as one of its two keys is down; what vtty_setfocus()
\* restored is forgotten with the first modifier that changes (vtty_keyboard_interrupt()).
KeysExact ==
    wire = <<>> => /\ sent = due
                   /\ igncnt = 0 /\ ~E0_received
                   /\ lr = held \cap DOMAIN Modifiers
                   /\ ~switched => mods = Holding(held)
=============================================================================
