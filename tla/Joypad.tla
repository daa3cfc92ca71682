------------------------------- MODULE Joypad -------------------------------
(***************************************************************************)
(* The joypad (cc/backend/memory/joypad, main.cc): two matrices of four    *)
(* keys, changed by the thread of the user interface and read by the game  *)
(* through 0xff00.  A matrix is the set of its bits that are set: a key    *)
(* pressed clears its bit.                                                 *)
(***************************************************************************)
EXTENDS Integers, FiniteSetsExt

CONSTANT UsedKeys   \* the keys the user presses and releases

Button == [a |-> 1, b |-> 2, select |-> 4, start |-> 8]
Direction == [right |-> 1, left |-> 2, up |-> 4, down |-> 8]
Keys == DOMAIN Button \cup DOMAIN Direction

ASSUME KeysAssumption == UsedKeys \subseteq Keys

VARIABLES
  is_button_keys_selected_, is_direction_keys_selected_,
  button_keys_, direction_keys_,
  pressing,   \* what the user-interface thread has in hand
  held        \* history: the keys the user holds

selection == <<is_button_keys_selected_, is_direction_keys_selected_>>
matrices == <<button_keys_, direction_keys_>>
jvars == <<selection, matrices, pressing, held>>

Idle == [step |-> "idle"]
Nibble == {1, 2, 4, 8}

JoypadInit ==
  /\ is_button_keys_selected_ = FALSE /\ is_direction_keys_selected_ = FALSE
  /\ button_keys_ = Nibble /\ direction_keys_ = Nibble
  /\ pressing = Idle
  /\ held = {}

(* The value of a set of bits: bits are distinct powers of two.             *)
Value(bits) == SumSet(bits)

(* Mutant: with one matrix selected the keys of both are shown.             *)
Shown_Both == button_keys_ \cap direction_keys_

(* The bits of the keys that Read returns.  Two selected matrices are       *)
(* joined, so a key is shown only if both have it pressed; with neither     *)
(* selected every key looks pressed.                                        *)
Shown ==
  CASE is_button_keys_selected_ /\ is_direction_keys_selected_ -> button_keys_ \cup direction_keys_
    [] is_button_keys_selected_ /\ ~is_direction_keys_selected_ -> button_keys_
    [] ~is_button_keys_selected_ /\ is_direction_keys_selected_ -> direction_keys_
    [] OTHER -> {}

ReadJoypad ==
  (IF is_button_keys_selected_ THEN 0 ELSE 32)
    + (IF is_direction_keys_selected_ THEN 0 ELSE 16) + Value(Shown)

WriteJoypad(value) ==
  /\ is_button_keys_selected_' = ((value \div 32) % 2 = 0)
  /\ is_direction_keys_selected_' = ((value \div 16) % 2 = 0)
  /\ UNCHANGED <<matrices, pressing, held>>

-----------------------------------------------------------------------------
(* The user presses a key, perhaps one that is down already (the terminal   *)
(* never releases a key, and keyboards repeat), or releases one (the Java   *)
(* front end).                                                              *)
ChangeKey ==
  /\ pressing = Idle
  /\ \E key \in UsedKeys, is_pushed \in BOOLEAN :
       /\ is_pushed \/ key \in held
       /\ held' = IF is_pushed THEN held \cup {key} ELSE held \ {key}
       /\ pressing' = [step |-> "matrix", key |-> key, is_pushed |-> is_pushed]
  /\ UNCHANGED <<selection, matrices>>

Updated(matrix, bit, is_set) == IF is_set THEN matrix \ {bit} ELSE matrix \cup {bit}

(* set_up, set_a and so on: the bit first, then the request.                *)
SetKey ==
  /\ pressing.step = "matrix"
  /\ LET key == pressing.key IN
     IF key \in DOMAIN Button
     THEN /\ button_keys_' = Updated(button_keys_, Button[key], pressing.is_pushed)
          /\ UNCHANGED direction_keys_
     ELSE /\ direction_keys_' = Updated(direction_keys_, Direction[key], pressing.is_pushed)
          /\ UNCHANGED button_keys_
  /\ pressing' = [step |-> "load"]
  /\ UNCHANGED <<selection, held>>

(* InterruptFlag::set_joypad loads the flag and stores it with its bit set: *)
(* flag is what it holds, and is replaced by stored.                        *)
LoadRequest(flag) ==
  /\ pressing.step = "load"
  /\ pressing' = [step |-> "store", flag |-> flag]
  /\ UNCHANGED <<selection, matrices, held>>

StoreRequest ==
  /\ pressing.step = "store"
  /\ pressing' = Idle
  /\ UNCHANGED <<selection, matrices, held>>

(* When the thread has changed the matrix, and so before the joypad         *)
(* interrupt of the change can be requested, a game that selects one matrix *)
(* reads exactly its keys that are held, pressed as cleared bits.           *)
KeysShown ==
  pressing.step # "matrix" =>
    /\ is_button_keys_selected_ /\ ~is_direction_keys_selected_ =>
         ReadJoypad = 16 + 15 - Value({Button[key] : key \in held \cap DOMAIN Button})
    /\ ~is_button_keys_selected_ /\ is_direction_keys_selected_ =>
         ReadJoypad = 32 + 15 - Value({Direction[key] : key \in held \cap DOMAIN Direction})
=============================================================================
