-------------------------------- MODULE Mirror --------------------------------
(***************************************************************************)
(* What the component promises: Home Assistant holds a mirror of the       *)
(* device's registers.                                                     *)
(*                                                                         *)
(* Of every register the device holds a value and Home Assistant shows one *)
(* or none.  A value travels to Home Assistant by a frame of that register *)
(* and of no other; it travels to the device by a command, or because the  *)
(* hub re-sends what is shown, which it does only in the window after a    *)
(* boot.  Frames on their way may be damaged.                              *)
(*                                                                         *)
(* `acts` counts what users do, at Home Assistant or at the device, and    *)
(* `origins` keeps the values that entered the system for each register.   *)
(***************************************************************************)
EXTENDS Integers

CONSTANTS
  Register,
  Value,     \* of every register, what it may hold
  Together   \* the sets of registers that one command may be about

VARIABLES
  shown,     \* of every register, optional: what Home Assistant shows
  held,      \* of every register, what the device holds
  flight,    \* the frames on their way: pairs of a register and a value
  open,      \* the hub may re-send
  acts,      \* history: how often a user has done something
  origins    \* history: of every register, the values that came from outside

vars == <<shown, held, flight, open, acts, origins>>

Frame == UNION {{r} \X Value[r] : r \in Register}
Optional(S) == {<<>>} \cup {<<x>> : x \in S}

\* Of every register in S the value shown from now on reaches the device or, by
\* a loss or because it is left out, does not; other registers stay.
TakeOver(S) ==
  /\ DOMAIN held' = Register
  /\ \A r \in Register :
       held'[r] = held[r] \/ (r \in S /\ shown'[r] = <<held'[r]>>)

Init ==
  /\ shown = [r \in Register |-> <<>>]
  /\ DOMAIN held = Register /\ DOMAIN origins = Register
  /\ \A r \in Register : held[r] \in origins[r] /\ origins[r] \subseteq Value[r]
  /\ flight = {}
  /\ open = FALSE
  /\ acts = 0

\* Home Assistant asks for values of registers of one entity.
Command ==
  /\ acts' = acts + 1
  /\ UNCHANGED <<flight, open>>
  /\ DOMAIN shown' = Register
  /\ \E S \in Together :
       /\ \A r \in Register \ S : shown'[r] = shown[r]
       /\ \A r \in S : \E v \in Value[r] : shown'[r] = <<v>>
       /\ origins' = [r \in Register |-> IF r \in S THEN origins[r] \cup {shown'[r][1]}
                                         ELSE origins[r]]
       /\ TakeOver(S)

\* The device changes a register of its own.
Panel(r) ==
  /\ acts' = acts + 1
  /\ \E v \in Value[r] :
       /\ held' = [held EXCEPT ![r] = v]
       /\ origins' = [origins EXCEPT ![r] = @ \cup {v}]
  /\ UNCHANGED <<shown, flight, open>>

Announce(r) ==
  /\ flight' = flight \cup {<<r, held[r]>>}
  /\ UNCHANGED <<shown, held, open, acts, origins>>

\* A frame arrives, perhaps not the last of its kind; what it says may be
\* meaningless to Home Assistant.  Nothing is transmitted in return.
Hear(f) ==
  /\ flight' \in {flight, flight \ {f}}
  /\ shown' \in {shown, [shown EXCEPT ![f[1]] = <<f[2]>>]}
  /\ UNCHANGED <<held, open, acts, origins>>

\* A frame is taken for another one or for none.
Garble(r) ==
  /\ UNCHANGED <<shown, held, open, acts>>
  /\ \E v \in Value[r] :
       /\ flight' \subseteq flight \cup {<<r, v>>}
       /\ origins' = [origins EXCEPT ![r] = @ \cup {v}]

\* Entities are set up with values of before, the hub with its window.
Boot ==
  /\ open' = TRUE
  /\ DOMAIN shown' = Register
  /\ \A r \in Register : shown'[r] = shown[r] \/ shown'[r] \in Optional(origins[r])
  /\ TakeOver(Register)
  /\ UNCHANGED <<flight, acts, origins>>

\* The hub transmits what is shown, to whatever effect.
Resend ==
  /\ open
  /\ UNCHANGED shown
  /\ TakeOver(Register)
  /\ open' \in BOOLEAN
  /\ UNCHANGED <<flight, acts, origins>>

Restart ==
  /\ shown' = [r \in Register |-> <<>>]
  /\ flight' = {}
  /\ open' = FALSE
  /\ UNCHANGED <<held, acts, origins>>

Next ==
  \/ Command
  \/ \E r \in Register : Panel(r) \/ Announce(r) \/ Garble(r)
  \/ \E f \in flight : Hear(f)
  \/ Boot
  \/ Resend
  \/ Restart

Spec == Init /\ [][Next]_vars

-----------------------------------------------------------------------------
\* Whatever is shown, held or on its way of a register came from outside for that
\* very register: no value is made up, and none strays to another register.
NothingStrays ==
  /\ \A r \in Register : held[r] \in origins[r]
  /\ \A r \in Register : shown[r] \in Optional(origins[r])
  /\ \A f \in flight : f[2] \in origins[f[1]]
=============================================================================
