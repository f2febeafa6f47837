----------------------------- MODULE Mirror_proofs -----------------------------
(***************************************************************************)
(* Nothing is made up and nothing strays in a mirror, for every set of     *)
(* registers and values.                                                   *)
(***************************************************************************)
EXTENDS Mirror, TLAPS

\* Every register has a value at the device, an optional one at Home Assistant
\* and origins; a frame names a register.
Shape ==
  /\ DOMAIN shown = Register /\ DOMAIN held = Register /\ DOMAIN origins = Register
  /\ \A f \in flight : f[1] \in Register

IInv == Shape /\ NothingStrays

\* A register that takes over what is shown of it holds a value from outside, if
\* what is shown is one; used for every transmission of the hub.
LEMMA TakeOverSourced ==
  ASSUME NEW S, TakeOver(S), NothingStrays,
         \A r \in Register : shown'[r] \in Optional(origins'[r]),
         \A r \in Register : origins[r] \subseteq origins'[r]
  PROVE  DOMAIN held' = Register /\ \A r \in Register : held'[r] \in origins'[r]
<1>1. DOMAIN held' = Register
  BY DEF TakeOver
<1>2. ASSUME NEW r \in Register PROVE held'[r] \in origins'[r]
  <2>1. CASE held'[r] = held[r]
    BY <2>1 DEF NothingStrays
  <2>2. CASE shown'[r] = <<held'[r]>>
    <3>1. <<held'[r]>> \in {<<>>} \cup {<<x>> : x \in origins'[r]}
      BY <2>2 DEF Optional
    <3>2. PICK x \in origins'[r] : <<held'[r]>> = <<x>>
      BY <3>1
    <3> QED BY <3>2
  <2> QED BY <2>1, <2>2 DEF TakeOver
<1> QED BY <1>1, <1>2

\* The steps of users and of the device.
LEMMA CommandStep == IInv /\ Command => IInv'
<1> SUFFICES ASSUME IInv, Command PROVE IInv'
  OBVIOUS
<1>1. PICK S \in Together :
        /\ \A r \in Register \ S : shown'[r] = shown[r]
        /\ \A r \in S : \E v \in Value[r] : shown'[r] = <<v>>
        /\ origins' = [r \in Register |-> IF r \in S THEN origins[r] \cup {shown'[r][1]}
                                          ELSE origins[r]]
        /\ TakeOver(S)
  BY DEF Command
<1>2. \A r \in Register : origins[r] \subseteq origins'[r]
  BY <1>1
<1>3. \A r \in Register : shown'[r] \in Optional(origins'[r])
  <2> TAKE r \in Register
  <2>1. CASE r \in S
    <3>1. PICK v \in Value[r] : shown'[r] = <<v>>
      BY <1>1, <2>1
    <3>2. v \in origins'[r]
      BY <1>1, <2>1, <3>1
    <3> QED BY <3>1, <3>2 DEF Optional
  <2>2. CASE r \notin S
    BY <1>1, <1>2, <2>2 DEF IInv, NothingStrays, Optional
  <2> QED BY <2>1, <2>2
<1>4. DOMAIN held' = Register /\ \A r \in Register : held'[r] \in origins'[r]
  BY <1>1, <1>2, <1>3, TakeOverSourced DEF IInv
<1>5. Shape'
  BY <1>1, <1>4 DEF Command, IInv, Shape
<1>6. \A f \in flight' : f[2] \in origins'[f[1]]
  BY <1>2 DEF Command, IInv, Shape, NothingStrays
<1> QED BY <1>3, <1>4, <1>5, <1>6 DEF IInv, NothingStrays

LEMMA PanelStep == ASSUME NEW r \in Register, IInv, Panel(r) PROVE IInv'
<1>1. PICK v \in Value[r] : /\ held' = [held EXCEPT ![r] = v]
                            /\ origins' = [origins EXCEPT ![r] = @ \cup {v}]
  BY DEF Panel
<1>2. \A q \in Register : origins[q] \subseteq origins'[q]
  BY <1>1 DEF IInv, Shape
<1>3. \A q \in Register : held'[q] \in origins'[q]
  BY <1>1 DEF IInv, Shape, NothingStrays
<1>4. \A q \in Register : shown'[q] \in Optional(origins'[q])
  BY <1>2 DEF Panel, IInv, NothingStrays, Optional
<1>5. \A f \in flight' : f[2] \in origins'[f[1]]
  BY <1>2 DEF Panel, IInv, Shape, NothingStrays
<1>6. Shape'
  BY <1>1 DEF Panel, IInv, Shape
<1> QED BY <1>3, <1>4, <1>5, <1>6 DEF IInv, NothingStrays

\* The steps of frames.
LEMMA AnnounceStep == ASSUME NEW r \in Register, IInv, Announce(r) PROVE IInv'
<1>1. \A f \in flight' : f[1] \in Register /\ f[2] \in origins[f[1]]
  BY DEF Announce, IInv, Shape, NothingStrays
<1> QED BY <1>1 DEF Announce, IInv, Shape, NothingStrays

LEMMA HearStep == ASSUME NEW f \in flight, IInv, Hear(f) PROVE IInv'
<1>1. f[1] \in Register /\ f[2] \in origins[f[1]]
  BY DEF IInv, Shape, NothingStrays
<1>2. flight' \subseteq flight
  BY DEF Hear
<1>3. DOMAIN shown' = Register /\ \A r \in Register : shown'[r] \in Optional(origins[r])
  BY <1>1 DEF Hear, IInv, Shape, NothingStrays, Optional
<1> QED BY <1>2, <1>3 DEF Hear, IInv, Shape, NothingStrays

LEMMA GarbleStep == ASSUME NEW r \in Register, IInv, Garble(r) PROVE IInv'
<1>1. PICK v \in Value[r] : /\ flight' \subseteq flight \cup {<<r, v>>}
                            /\ origins' = [origins EXCEPT ![r] = @ \cup {v}]
  BY DEF Garble
<1>2. \A q \in Register : origins[q] \subseteq origins'[q]
  BY <1>1 DEF IInv, Shape
<1>3. \A f \in flight' : f[1] \in Register /\ f[2] \in origins'[f[1]]
  BY <1>1, <1>2 DEF IInv, Shape, NothingStrays
<1>4. \A q \in Register : held'[q] \in origins'[q] /\ shown'[q] \in Optional(origins'[q])
  BY <1>2 DEF Garble, IInv, NothingStrays, Optional
<1> QED BY <1>1, <1>3, <1>4 DEF Garble, IInv, Shape, NothingStrays

\* The steps of the hub on its own account.
LEMMA BootStep == IInv /\ Boot => IInv'
<1> SUFFICES ASSUME IInv, Boot PROVE IInv'
  OBVIOUS
<1>1. \A r \in Register : shown'[r] \in Optional(origins'[r])
  BY DEF Boot, IInv, NothingStrays
<1>2. DOMAIN held' = Register /\ \A r \in Register : held'[r] \in origins'[r]
  BY <1>1, TakeOverSourced DEF Boot, IInv
<1> QED BY <1>1, <1>2 DEF Boot, IInv, Shape, NothingStrays

LEMMA ResendStep == IInv /\ Resend => IInv'
<1> SUFFICES ASSUME IInv, Resend PROVE IInv'
  OBVIOUS
<1>1. \A r \in Register : shown'[r] \in Optional(origins'[r])
  BY DEF Resend, IInv, NothingStrays
<1>2. DOMAIN held' = Register /\ \A r \in Register : held'[r] \in origins'[r]
  BY <1>1, TakeOverSourced DEF Resend, IInv
<1> QED BY <1>1, <1>2 DEF Resend, IInv, Shape, NothingStrays

LEMMA RestartStep == IInv /\ Restart => IInv'
BY DEF Restart, IInv, Shape, NothingStrays, Optional

\* At first nothing is shown and nothing is on its way.
LEMMA Initially == Init => IInv
BY DEF Init, IInv, Shape, NothingStrays, Optional

\* Every step maintains the invariant.
LEMMA Inductive == IInv /\ [Next]_vars => IInv'
<1> SUFFICES ASSUME IInv, [Next]_vars PROVE IInv'
  OBVIOUS
<1>1. CASE Command
  BY <1>1, CommandStep
<1>2. ASSUME NEW r \in Register, Panel(r) \/ Announce(r) \/ Garble(r) PROVE IInv'
  BY <1>2, PanelStep, AnnounceStep, GarbleStep
<1>3. ASSUME NEW f \in flight, Hear(f) PROVE IInv'
  BY <1>3, HearStep
<1>4. CASE Boot
  BY <1>4, BootStep
<1>5. CASE Resend
  BY <1>5, ResendStep
<1>6. CASE Restart
  BY <1>6, RestartStep
<1>7. CASE UNCHANGED vars
  BY <1>7 DEF vars, IInv, Shape, NothingStrays
<1> QED BY <1>1, <1>2, <1>3, <1>4, <1>5, <1>6, <1>7 DEF Next

\* What came from outside stays, and is of the register.
LEMMA OriginsGrow ==
  ASSUME IInv, [Next]_vars, NEW r \in Register
  PROVE  origins[r] \subseteq origins'[r] /\ origins'[r] \subseteq origins[r] \cup Value[r]
<1>1. CASE Command
  <2>1. PICK S \in Together :
          /\ \A q \in S : \E v \in Value[q] : shown'[q] = <<v>>
          /\ origins' = [q \in Register |-> IF q \in S THEN origins[q] \cup {shown'[q][1]}
                                            ELSE origins[q]]
    BY <1>1 DEF Command
  <2>2. r \in S => shown'[r][1] \in Value[r]
    BY <2>1
  <2> QED BY <2>1, <2>2
<1>2. ASSUME NEW q \in Register, Panel(q) \/ Announce(q) \/ Garble(q)
      PROVE  origins[r] \subseteq origins'[r] /\ origins'[r] \subseteq origins[r] \cup Value[r]
  <2>1. \/ \E v \in Value[q] : origins' = [origins EXCEPT ![q] = @ \cup {v}]
        \/ UNCHANGED origins
    BY <1>2 DEF Panel, Announce, Garble
  <2> QED BY <2>1 DEF IInv, Shape
<1>3. CASE (\E f \in flight : Hear(f)) \/ Boot \/ Resend \/ Restart \/ UNCHANGED vars
  BY <1>3 DEF Hear, Boot, Resend, Restart, vars
<1> QED BY <1>1, <1>2, <1>3 DEF Next

-----------------------------------------------------------------------------
\* In every mirror, whatever is shown, held or on its way of a register came from
\* outside for that very register.
THEOREM NothingEverStrays == Spec => []NothingStrays
<1>1. IInv => NothingStrays
  BY DEF IInv
<1> QED BY <1>1, Initially, Inductive, PTL DEF Spec
=============================================================================
