-------------------------- MODULE SettingSync_proofs --------------------------
(***************************************************************************)
(* Proofs about SettingSync, for every set of configured numbers and       *)
(* selects, every table of options and every bound on what the             *)
(* environment does.                                                       *)
(***************************************************************************)
EXTENDS SettingSync, SequenceTheorems, TLAPS

(***************************************************************************)
(* Values and messages.                                                    *)
(***************************************************************************)

LEMMA Kinds ==
  /\ Numbers \subseteq Setting /\ Selects \subseteq Setting
  /\ Setting = Numbers \cup Selects
  /\ Numbers \cap Selects = {}
  /\ Numbers \subseteq Entities!TemperatureSetting
  /\ Selects \subseteq Entities!ByteSetting
  /\ Entities!Persistent \subseteq Setting
  /\ Entities!Persistent = Numbers \cup Restored
  /\ Restored \subseteq Selects
BY SettingAssumption
DEF Entities!ConfigurationOK, Setting, Entities!Setting, Entities!Persistent,
    Entities!TemperatureSetting, Entities!ByteSetting

\* The options of a select are numbered, and bytes stand for them.
LEMMA Options ==
  ASSUME NEW e \in Selects
  PROVE  /\ Entities!Indices(e) \subseteq Int
         /\ \A i \in Entities!Indices(e) : option_bytes_[e][i] \in Int
         /\ \A i, j \in Entities!Indices(e) :
              option_bytes_[e][i] = option_bytes_[e][j] => i = j
<1>1. /\ option_bytes_[e] \in Seq(0 .. 255)
      /\ \A i, j \in 1 .. Len(option_bytes_[e]) :
           option_bytes_[e][i] = option_bytes_[e][j] => i = j
  BY SettingAssumption DEF Entities!ConfigurationOK
<1>2. /\ Len(option_bytes_[e]) \in Nat
      /\ \A i \in 1 .. Len(option_bytes_[e]) : option_bytes_[e][i] \in 0 .. 255
  BY <1>1, LenProperties, ElementOfSeq
<1>3. 0 .. 255 \subseteq Int
  OBVIOUS
<1>4. Entities!Indices(e) = 1 .. Len(option_bytes_[e])
  BY DEF Entities!Indices
<1>5. Entities!Indices(e) \subseteq Int
  BY <1>2, <1>4
<1>6. \A i \in Entities!Indices(e) : option_bytes_[e][i] \in Int
  BY <1>2, <1>3, <1>4, Zenon
<1>7. \A i, j \in Entities!Indices(e) :
        option_bytes_[e][i] = option_bytes_[e][j] => i = j
  BY <1>1, <1>4, Zenon
<1> QED
  BY <1>5, <1>6, <1>7, Zenon

LEMMA Tenths ==
  ASSUME NEW v \in Int
  PROVE  /\ Entities!ToTenths(v) \in Int
         /\ Entities!FromTenths(v) \in Int
<1>1. Fine \in Nat \ {0}
  BY SettingAssumption DEF Entities!ConfigurationOK
<1> QED
  BY <1>1 DEF Entities!ToTenths, Entities!FromTenths

\* A number that was received is sent back as it came.
LEMMA TenthsBack ==
  ASSUME NEW w \in Int
  PROVE  Entities!ToTenths(Entities!FromTenths(w)) = w
<1>1. Fine \in Nat /\ Fine > 0
  BY SettingAssumption DEF Entities!ConfigurationOK
<1> DEFINE v == w * Fine
<1>2. v \in Int /\ - v = (- w) * Fine
  BY <1>1
<1>3. w >= 0 <=> v >= 0
  BY <1>1
<1>4. \A k \in Int : (k * Fine) \div Fine = k
  BY <1>1
<1>5. v \div Fine = w /\ (- v) \div Fine = - w
  BY <1>2, <1>4
<1> QED
  BY <1>2, <1>3, <1>5 DEF Entities!ToTenths, Entities!FromTenths

\* An entity transmits its state, and nothing when it has none.
LEMMA Transmitted ==
  ASSUME NEW e \in Setting, NEW s, Entities!Shows(e, s)
  PROVE  /\ DOMAIN Entities!Message(e, s) = IF s = <<>> THEN {} ELSE {e}
         /\ Wire(e, s) = {Entities!Message(e, s)[m] :
                            m \in DOMAIN Entities!Message(e, s)}
         /\ Wire(e, s) \subseteq Int
         /\ s = <<>> <=> Wire(e, s) = {}
         /\ s = <<>> <=> Entities!Message(e, s) = Entities!Nothing
<1>1. CASE s = <<>>
  <2>1. Entities!Message(e, s) = Entities!Nothing
    BY <1>1 DEF Entities!Message, Entities!NumberMessage, Entities!SelectMessage
  <2>2. Wire(e, s) = {}
    BY <1>1 DEF Wire, Entities!Wire
  <2> QED
    BY <1>1, <2>1, <2>2 DEF Entities!Nothing
<1>2. CASE s # <<>> /\ e \in Numbers
  <2>1. s = <<s[1]>> /\ s[1] \in Int
    BY <1>2 DEF Entities!Shows, Entities!IsOptional
  <2>2. Entities!Message(e, s) = [x \in {e} |-> Entities!ToTenths(s[1])]
    BY <1>2, Kinds
    DEF Entities!Message, Entities!NumberMessage,
        Entities!send_temperature_setting, Entities!When
  <2>3. Wire(e, s) = {Entities!ToTenths(s[1])}
    BY <1>2, <2>1 DEF Wire, Entities!Wire
  <2> QED
    BY <1>2, <2>1, <2>2, <2>3, Tenths DEF Entities!Nothing
<1>3. CASE s # <<>> /\ e \in Selects
  <2>1. s = <<s[1]>> /\ s[1] \in Entities!Indices(e) /\ e \notin Numbers
    BY <1>3, Kinds DEF Entities!Shows, Entities!IsOptional
  <2> DEFINE b == option_bytes_[e][s[1]]
  <2>2. Entities!Message(e, s) = [x \in {e} |-> b]
    BY <1>3, <2>1, Kinds
    DEF Entities!Message, Entities!SelectMessage,
        Entities!send_byte_setting, Entities!When
  <2>3. Wire(e, s) = {b}
    BY <2>1 DEF Wire, Entities!Wire
  <2>4. b \in Int
    BY <1>3, <2>1, Options, Zenon
  <2> HIDE DEF b
  <2> QED
    BY <1>3, <2>2, <2>3, <2>4 DEF Entities!Nothing
<1> QED
  BY <1>1, <1>2, <1>3, Kinds

\* A round transmits the states of all entities.
LEMMA Rounds ==
  ASSUME DOMAIN state = Setting, \A e \in Setting : Entities!Shows(e, state[e])
  PROVE  /\ DOMAIN Entities!Messages(state) \subseteq Setting
         /\ \A e \in Setting :
              Wire(e, state[e]) = IF e \in DOMAIN Entities!Messages(state)
                                  THEN {Entities!Messages(state)[e]} ELSE {}
<1> DEFINE sending == {e \in DOMAIN state :
                         Entities!Message(e, state[e]) # Entities!Nothing}
           carried == UNION {DOMAIN Entities!Message(e, state[e]) : e \in sending}
           owner(m) == CHOOSE f \in sending :
                         m \in DOMAIN Entities!Message(f, state[f])
<1>1. \A e \in sending : DOMAIN Entities!Message(e, state[e]) = {e}
  BY Transmitted
<1>2. carried = sending
  BY <1>1
<1>3. \A m \in sending : owner(m) = m
  BY <1>1
<1>4. Entities!Messages(state)
        = [m \in carried |-> Entities!Message(owner(m), state[owner(m)])[m]]
  BY DEF Entities!Messages
<1>5. /\ DOMAIN Entities!Messages(state) = sending
      /\ \A m \in sending : Entities!Messages(state)[m]
                              = Entities!Message(m, state[m])[m]
  BY <1>2, <1>3, <1>4
<1>6. ASSUME NEW e \in sending
      PROVE  Wire(e, state[e]) = {Entities!Messages(state)[e]}
  <2>1. e \in Setting /\ Entities!Shows(e, state[e])
    OBVIOUS
  <2>2. DOMAIN Entities!Message(e, state[e]) = {e}
    BY <1>1
  <2>3. Entities!Messages(state)[e] = Entities!Message(e, state[e])[e]
    BY <1>5
  <2>4. Wire(e, state[e]) = {Entities!Message(e, state[e])[m] :
                               m \in DOMAIN Entities!Message(e, state[e])}
    BY <2>1, Transmitted, Zenon
  <2>5. Wire(e, state[e]) = {Entities!Message(e, state[e])[e]}
    BY <2>2, <2>4, Zenon
  <2> QED
    BY <2>3, <2>5, Zenon
<1>7. \A e \in Setting \ sending : Wire(e, state[e]) = {}
  BY Transmitted
<1> QED
  BY <1>5, <1>6, <1>7, Zenon

(***************************************************************************)
(* The entities' types.                                                    *)
(***************************************************************************)

CallRecord == [kind : {"setup", "control"}, entity : Setting, value : Seq(Int)]

\* A value that is shown is optional, and an integer when there is one.
LEMMA ShownValues ==
  ASSUME NEW e \in Setting, NEW v, Entities!Shows(e, v)
  PROVE  v \in Seq(Int) /\ Entities!IsOptional(v, Int)
<1>1. v = <<>> \/ (v = <<v[1]>> /\ v[1] \in Int)
  <2>1. v = <<>> \/ (v = <<v[1]>> /\
                    v[1] \in IF e \in Numbers THEN Int ELSE Entities!Indices(e))
    BY Zenon DEF Entities!Shows, Entities!IsOptional
  <2> QED
    BY <2>1, Kinds, Options
<1>2. v \in Seq(Int)
  <2>1. \A x \in Int : <<x>> \in Seq(Int)
    OBVIOUS
  <2>2. << >> \in Seq(Int)
    OBVIOUS
  <2> QED
    BY <1>1, <2>1, <2>2, Zenon
<1> QED
  BY <1>1, <1>2, Zenon DEF Entities!IsOptional

\* The calls in progress, after one more of them and after the end of one.
LEMMA OneMoreCall ==
  ASSUME calls \in Seq(CallRecord),
         \A i \in DOMAIN calls : Entities!Shows(calls[i].entity, calls[i].value),
         NEW kind \in {"setup", "control"}, NEW e \in Setting, NEW v,
         Entities!Shows(e, v)
  PROVE  LET new == Append(calls, Entities!Call(kind, e, v))
         IN  /\ new \in Seq(CallRecord)
             /\ \A i \in DOMAIN new : Entities!Shows(new[i].entity, new[i].value)
             /\ Len(new) = Len(calls) + 1 /\ DOMAIN new = 1 .. Len(calls) + 1
             /\ DOMAIN calls = 1 .. Len(calls) /\ Len(calls) \in Nat
             /\ \A i \in DOMAIN calls : new[i] = calls[i]
             /\ new[Len(calls) + 1] = Entities!Call(kind, e, v)
<1> DEFINE call == Entities!Call(kind, e, v)
           new == Append(calls, call)
<1>1. /\ call \in CallRecord
      /\ Entities!Shows(call.entity, call.value)
  BY ShownValues DEF Entities!Call, CallRecord
<1> HIDE DEF call
<1>2. /\ new \in Seq(CallRecord) /\ Len(new) = Len(calls) + 1
      /\ DOMAIN new = 1 .. Len(calls) + 1
      /\ DOMAIN calls = 1 .. Len(calls) /\ Len(calls) \in Nat
  BY <1>1
<1>3. /\ \A i \in DOMAIN calls : new[i] = calls[i]
      /\ new[Len(calls) + 1] = call
  BY <1>1
<1>4. \A i \in DOMAIN new : i \in DOMAIN calls \/ i = Len(calls) + 1
  BY <1>2
<1>5. \A i \in DOMAIN new : Entities!Shows(new[i].entity, new[i].value)
  BY <1>1, <1>3, <1>4
<1> QED
  BY <1>2, <1>3, <1>5 DEF call

LEMMA OneCallLess ==
  ASSUME calls \in Seq(CallRecord), calls # <<>>,
         \A i \in DOMAIN calls : Entities!Shows(calls[i].entity, calls[i].value)
  PROVE  LET left == SubSeq(calls, 1, Len(calls) - 1)
         IN  /\ left \in Seq(CallRecord)
             /\ \A i \in DOMAIN left : Entities!Shows(left[i].entity, left[i].value)
             /\ DOMAIN calls = 1 .. Len(calls) /\ Len(calls) \in Nat \ {0}
             /\ DOMAIN left = 1 .. Len(calls) - 1
             /\ \A i \in DOMAIN left : left[i] = calls[i]
<1> DEFINE left == SubSeq(calls, 1, Len(calls) - 1)
<1>1. DOMAIN calls = 1 .. Len(calls) /\ Len(calls) \in Nat \ {0}
  BY EmptySeq
<1>2. /\ left \in Seq(CallRecord) /\ DOMAIN left = 1 .. Len(calls) - 1
      /\ \A i \in DOMAIN left : left[i] = calls[i]
  BY <1>1, SubSeqProperties
<1>3. DOMAIN left \subseteq DOMAIN calls
  BY <1>1, <1>2
<1>4. \A i \in DOMAIN left : Entities!Shows(left[i].entity, left[i].value)
  BY <1>2, <1>3
<1> QED
  BY <1>1, <1>2, <1>4

LEMMA CallsTyped ==
  ASSUME Entities!TypeOK
  PROVE  /\ calls \in Seq(CallRecord)
         /\ \A i \in DOMAIN calls : calls[i].entity \in Setting
<1>1. calls \in Seq(CallRecord)
  BY DEF Entities!TypeOK, CallRecord, Setting
<1>2. \A i \in DOMAIN calls : calls[i] \in CallRecord
  BY <1>1
<1>3. \A c \in CallRecord : c.entity \in Setting
  BY DEF CallRecord
<1> QED
  BY <1>1, <1>2, <1>3

LEMMA LastCall ==
  ASSUME Entities!TypeOK, calls # <<>>
  PROVE  /\ calls[Len(calls)] \in CallRecord
         /\ calls[Len(calls)].entity \in Setting
         /\ Entities!Shows(calls[Len(calls)].entity, calls[Len(calls)].value)
<1>1. calls \in Seq(CallRecord)
  BY DEF Entities!TypeOK, CallRecord, Setting
<1>2. Len(calls) \in DOMAIN calls /\ calls[Len(calls)] \in CallRecord
  BY <1>1, EmptySeq
<1> QED
  BY <1>2 DEF Entities!TypeOK, CallRecord

LEMMA OneStateChanged ==
  ASSUME DOMAIN state = Setting, \A x \in Setting : Entities!Shows(x, state[x]),
         NEW e \in Setting, NEW v, Entities!Shows(e, v),
         state' = [state EXCEPT ![e] = v]
  PROVE  /\ DOMAIN state' = Setting
         /\ \A x \in Setting : Entities!Shows(x, state'[x])
         /\ state'[e] = v
         /\ \A x \in Setting \ {e} : state'[x] = state[x]
<1>1. /\ DOMAIN state' = Setting
      /\ state'[e] = v
      /\ \A x \in Setting \ {e} : state'[x] = state[x]
  OBVIOUS
<1>2. ASSUME NEW x \in Setting PROVE Entities!Shows(x, state'[x])
  BY <1>1, <1>2
<1> QED
  BY <1>1, <1>2

LEMMA ShowsOne ==
  ASSUME NEW e, NEW x, e \in Numbers => x \in Int,
         e \notin Numbers => x \in Entities!Indices(e)
  PROVE  Entities!Shows(e, <<x>>)
<1>1. <<x>>[1] = x
  OBVIOUS
<1> QED
  BY <1>1, Zenon DEF Entities!Shows, Entities!IsOptional

\* What setup() shows: the value in flash if it is one of the entity's, or else
\* the configured one.
LEMMA SetupShows ==
  ASSUME Entities!TypeOK, NEW e \in Entities!Persistent
  PROVE  LET v == IF e \in Numbers THEN Entities!NumberSetup(e)
                  ELSE Entities!SelectSetup(e)
         IN  /\ Entities!Shows(e, v)
             /\ flash[e] # <<>> /\ Entities!Shows(e, flash[e]) => v = flash[e]
             /\ Wire(e, v) \subseteq Configured(e) \cup Wire(e, flash[e])
<1> DEFINE v == IF e \in Numbers THEN Entities!NumberSetup(e)
                ELSE Entities!SelectSetup(e)
<1>0. flash[e] = <<>> \/ (flash[e] = <<flash[e][1]>> /\ flash[e][1] \in Int)
  BY DEF Entities!TypeOK, Entities!IsOptional
<1>1. CASE e \in Numbers
  <2>1. v = IF flash[e] = <<>> THEN <<initial_value_[e]>> ELSE flash[e]
    BY <1>1 DEF Entities!NumberSetup
  <2>2. initial_value_[e] \in Int
    BY <1>1, SettingAssumption DEF Entities!ConfigurationOK
  <2>3. Entities!Shows(e, v)
    <3>1. Entities!Shows(e, <<initial_value_[e]>>)
      BY <1>1, <2>2, ShowsOne
    <3>2. Entities!Shows(e, flash[e])
      BY <1>0, <1>1, Zenon DEF Entities!Shows, Entities!IsOptional
    <3> QED
      BY <2>1, <3>1, <3>2, Zenon
  <2>4. CASE flash[e] = <<>>
    <3>1. Wire(e, v) = {Entities!ToTenths(initial_value_[e])}
      BY <1>1, <2>1, <2>4 DEF Wire, Entities!Wire
    <3>2. Configured(e) = {Entities!ToTenths(initial_value_[e])}
      BY <1>1, Kinds DEF Configured
    <3> QED
      BY <2>3, <2>4, <3>1, <3>2, Zenon
  <2>5. CASE flash[e] # <<>>
    BY <2>1, <2>3, <2>5
  <2> QED
    BY <2>4, <2>5
<1>2. CASE e \in Restored /\ e \in Selects /\ e \notin Numbers
  <2>1. initial_index_[e] \in Entities!Indices(e)
    BY <1>2, SettingAssumption DEF Entities!ConfigurationOK, Entities!Indices
  <2>2. v = IF flash[e] = <<>> \/ flash[e][1] \notin Entities!Indices(e)
            THEN <<initial_index_[e]>> ELSE flash[e]
    BY <1>2 DEF Entities!SelectSetup
  <2>3. Entities!Shows(e, v)
    <3>1. Entities!Shows(e, <<initial_index_[e]>>)
      BY <1>2, <2>1, ShowsOne
    <3>2. flash[e] # <<>> /\ flash[e][1] \in Entities!Indices(e)
            => Entities!Shows(e, flash[e])
      BY <1>0, <1>2, Zenon DEF Entities!Shows, Entities!IsOptional
    <3> QED
      BY <2>2, <3>1, <3>2, Zenon
  <2>4. CASE flash[e] = <<>> \/ flash[e][1] \notin Entities!Indices(e)
    <3>1. v = <<initial_index_[e]>>
      BY <2>2, <2>4
    <3>2. Wire(e, v) = {option_bytes_[e][initial_index_[e]]}
      BY <1>2, <2>1, <3>1 DEF Wire, Entities!Wire
    <3>3. Configured(e) = {option_bytes_[e][initial_index_[e]]}
      BY <1>2 DEF Configured
    <3>4. ~ (flash[e] # <<>> /\ Entities!Shows(e, flash[e]))
      BY <1>2, <2>4 DEF Entities!Shows, Entities!IsOptional
    <3> QED
      BY <2>3, <3>2, <3>3, <3>4, Zenon
  <2>5. CASE ~ (flash[e] = <<>> \/ flash[e][1] \notin Entities!Indices(e))
    BY <2>2, <2>3, <2>5
  <2> QED
    BY <2>4, <2>5
<1> QED
  BY <1>1, <1>2, Kinds

\* What a received value makes an entity show stands for that very value.
LEMMA ReflectShows ==
  ASSUME NEW e \in Setting, NEW w \in Int,
         e \in Numbers \/ Entities!IsMapped(e, w)
  PROVE  LET v == <<IF e \in Numbers THEN Entities!FromTenths(w)
                    ELSE Entities!IndexOf(e, w)>>
         IN  Entities!Shows(e, v) /\ Wire(e, v) = {w}
<1>1. CASE e \in Numbers
  <2> DEFINE x == Entities!FromTenths(w)
  <2>1. x \in Int /\ Entities!ToTenths(x) = w
    BY Tenths, TenthsBack
  <2> HIDE DEF x
  <2>2. Wire(e, <<x>>) = {w}
    BY <1>1, <2>1 DEF Wire, Entities!Wire
  <2>3. Entities!Shows(e, <<x>>)
    BY <1>1, <2>1 DEF Entities!Shows, Entities!IsOptional
  <2> QED
    BY <1>1, <2>2, <2>3 DEF x
<1>2. CASE e \in Selects /\ e \notin Numbers
  <2> DEFINE x == Entities!IndexOf(e, w)
  <2>1. x \in Entities!Indices(e) /\ option_bytes_[e][x] = w
    BY <1>2 DEF Entities!IsMapped, Entities!IndexOf
  <2> HIDE DEF x
  <2>2. Wire(e, <<x>>) = {w}
    BY <1>2, <2>1 DEF Wire, Entities!Wire
  <2>3. Entities!Shows(e, <<x>>)
    BY <1>2, <2>1 DEF Entities!Shows, Entities!IsOptional
  <2> QED
    BY <1>2, <2>2, <2>3 DEF x
<1> QED
  BY <1>1, <1>2, Kinds

LEMMA CallableShown ==
  ASSUME NEW e \in Setting, NEW value \in Entities!Callable(e)
  PROVE  Entities!Shows(e, <<value>>)
BY SettingAssumption, Kinds
DEF Entities!ConfigurationOK, Entities!Callable, Entities!Shows,
    Entities!IsOptional

(***************************************************************************)
(* Every handler keeps the entities' type.                                 *)
(***************************************************************************)

LEMMA InitType == Entities!Init => Entities!TypeOK
<1> SUFFICES ASSUME Entities!Init PROVE Entities!TypeOK
  OBVIOUS
<1>1. \A e \in Setting : Entities!Shows(e, <<>>)
  BY Zenon DEF Entities!Shows, Entities!IsOptional
<1>2. /\ unset = Setting /\ calls = <<>> /\ DOMAIN state = Setting
      /\ \A e \in Setting : state[e] = <<>>
      /\ DOMAIN queued = Entities!Persistent
      /\ \A e \in Entities!Persistent : queued[e] = <<>>
      /\ DOMAIN flash = Entities!Persistent
      /\ \A e \in Entities!Persistent : flash[e] \in Entities!Saveable(e)
      /\ DOMAIN sent = {}
  BY DEF Entities!Init, Setting, Entities!Nothing
<1>3. ASSUME NEW e \in Entities!Persistent
      PROVE  Entities!IsOptional(flash[e], Int)
  <2>1. Entities!Saveable(e) \subseteq {<<>>} \cup {<<x>> : x \in Int}
    <3>1. CASE e \in Numbers
      BY <3>1, SettingAssumption
      DEF Entities!Saveable, Entities!Optional, Entities!ConfigurationOK
    <3>2. CASE e \notin Numbers
      <4>1. e \in Selects
        BY <3>2, Kinds
      <4>2. Len(option_bytes_[e]) \in Nat
        BY <4>1, SettingAssumption, LenProperties DEF Entities!ConfigurationOK
      <4>3. 1 .. Len(option_bytes_[e]) + 1 \subseteq Int
        BY <4>2
      <4> QED
        BY <3>2, <4>3 DEF Entities!Saveable, Entities!Optional
    <3> QED
      BY <3>1, <3>2
  <2>2. \A x \in Int : Entities!IsOptional(<<x>>, Int)
    BY DEF Entities!IsOptional
  <2>3. Entities!IsOptional(<<>>, Int)
    BY DEF Entities!IsOptional
  <2> QED
    BY <1>2, <2>1, <2>2, <2>3, Zenon
<1>4. calls \in Seq(CallRecord) /\ DOMAIN calls = {}
  BY <1>2
<1> QED
  BY <1>1, <1>2, <1>3, <1>4, Kinds DEF Entities!TypeOK, CallRecord, Setting

LEMMA SetupType ==
  ASSUME Entities!TypeOK, NEW e \in Setting, Entities!Setup(e)
  PROVE  Entities!TypeOK'
<1>1. /\ unset' \subseteq Setting /\ sent' = Entities!Nothing
      /\ UNCHANGED <<queued, flash>>
  BY DEF Entities!TypeOK, Entities!Setup, Setting
<1>2. CASE e \in Entities!Persistent
  <2> DEFINE v == IF e \in Numbers THEN Entities!NumberSetup(e)
                  ELSE Entities!SelectSetup(e)
  <2>1. Entities!Shows(e, v)
    BY <1>2, SetupShows
  <2>2. state' = [state EXCEPT ![e] = v] /\ calls' = <<Entities!Call("setup", e, state'[e])>>
        /\ calls = <<>>
    BY <1>2 DEF Entities!Setup
  <2> HIDE DEF v
  <2>3. /\ DOMAIN state' = Setting
        /\ \A x \in Setting : Entities!Shows(x, state'[x])
    BY <2>1, <2>2, OneStateChanged DEF Entities!TypeOK, Setting
  <2>4. /\ calls' \in Seq(CallRecord)
        /\ \A i \in DOMAIN calls' : Entities!Shows(calls'[i].entity, calls'[i].value)
    <3>1. /\ Entities!Call("setup", e, state'[e]) \in CallRecord
          /\ Entities!Call("setup", e, state'[e]).entity = e
          /\ Entities!Call("setup", e, state'[e]).value = state'[e]
      BY <2>3, ShownValues DEF Entities!Call, CallRecord
    <3> QED
      BY <2>2, <2>3, <3>1
  <2> QED
    BY <1>1, <2>3, <2>4 DEF Entities!TypeOK, CallRecord, Setting, Entities!Nothing
<1>3. CASE e \notin Entities!Persistent
  BY <1>1, <1>3 DEF Entities!TypeOK, Entities!Setup, Entities!Nothing
<1> QED
  BY <1>2, <1>3

LEMMA SyncToDeviceType ==
  ASSUME Entities!TypeOK, Entities!SyncToDevice
  PROVE  Entities!TypeOK'
<1>1. DOMAIN sent' \subseteq Setting
  BY Rounds DEF Entities!TypeOK, Entities!SyncToDevice, Setting
<1> QED
  BY <1>1 DEF Entities!TypeOK, Entities!SyncToDevice, Setting

LEMMA ControlType ==
  ASSUME Entities!TypeOK, NEW e \in Setting, NEW value \in Entities!Callable(e),
         Entities!Control(e, value)
  PROVE  Entities!TypeOK'
<1>1. Entities!Shows(e, <<value>>)
  BY CallableShown
<1>2. /\ DOMAIN state' = Setting
      /\ \A x \in Setting : Entities!Shows(x, state'[x])
  BY <1>1, OneStateChanged DEF Entities!TypeOK, Entities!Control, Setting
<1>3. /\ calls' \in Seq(CallRecord)
      /\ \A i \in DOMAIN calls' : Entities!Shows(calls'[i].entity, calls'[i].value)
  BY <1>1, OneMoreCall DEF Entities!TypeOK, Entities!Control, Setting, CallRecord
<1>4. DOMAIN sent' \subseteq Setting
  <2>1. sent' = Entities!Message(e, <<value>>)
    BY DEF Entities!Control
  <2>2. DOMAIN Entities!Message(e, <<value>>) \subseteq {e}
    BY <1>1, Transmitted
  <2> QED
    BY <2>1, <2>2
<1> QED
  BY <1>2, <1>3, <1>4 DEF Entities!TypeOK, Entities!Control, CallRecord, Setting

LEMMA ReturnType ==
  ASSUME Entities!TypeOK, Entities!Return
  PROVE  Entities!TypeOK'
<1> DEFINE call == calls[Len(calls)]
<1>1. /\ calls' \in Seq(CallRecord)
      /\ \A i \in DOMAIN calls' : Entities!Shows(calls'[i].entity, calls'[i].value)
  BY OneCallLess DEF Entities!TypeOK, Entities!Return, Setting, CallRecord
<1>2. call.entity \in Setting /\ Entities!Shows(call.entity, call.value)
  BY LastCall DEF Entities!Return
<1>3. UNCHANGED <<unset, state, flash>>
  BY DEF Entities!Return
<1>4. /\ DOMAIN queued' = Entities!Persistent
      /\ \A x \in Entities!Persistent : Entities!Shows(x, queued'[x])
  <2>1. queued' = queued \/ queued' = [queued EXCEPT ![call.entity] = call.value]
    BY DEF Entities!Return
  <2> HIDE DEF call
  <2> QED
    BY <1>2, <2>1 DEF Entities!TypeOK
<1>5. DOMAIN sent' \subseteq Setting
  <2>1. sent' = Entities!Message(call.entity, state[call.entity])
        \/ sent' = Entities!Nothing
    BY DEF Entities!Return
  <2>2. Entities!Shows(call.entity, state[call.entity])
    BY <1>2 DEF Entities!TypeOK, Setting
  <2> DEFINE e == call.entity
  <2>3. DOMAIN Entities!Message(e, state[e]) \subseteq {e}
    BY <1>2, <2>2, Transmitted
  <2>4. DOMAIN Entities!Nothing = {}
    BY DEF Entities!Nothing
  <2> QED
    BY <1>2, <2>1, <2>3, <2>4, Zenon
<1> QED
  BY <1>1, <1>3, <1>4, <1>5 DEF Entities!TypeOK, CallRecord, Setting

LEMMA ReflectType ==
  ASSUME Entities!TypeOK, NEW e \in Setting, NEW w \in Int, Entities!Reflect(e, w)
  PROVE  Entities!TypeOK'
<1> DEFINE v == <<IF e \in Numbers THEN Entities!FromTenths(w)
                  ELSE Entities!IndexOf(e, w)>>
<1>1. /\ sent' = Entities!Nothing
      /\ UNCHANGED <<unset, calls, queued, flash>>
      /\ \/ UNCHANGED state
         \/ /\ e \in Numbers \/ Entities!IsMapped(e, w)
            /\ state' = [state EXCEPT ![e] = v]
  BY Kinds DEF Entities!Reflect
<1>2. e \in Numbers \/ Entities!IsMapped(e, w) => Entities!Shows(e, v)
  BY ReflectShows
<1> HIDE DEF v
<1>3. /\ DOMAIN state' = Setting
      /\ \A x \in Setting : Entities!Shows(x, state'[x])
  BY <1>1, <1>2, OneStateChanged DEF Entities!TypeOK, Setting
<1> QED
  BY <1>1, <1>3 DEF Entities!TypeOK, Setting, Entities!Nothing

LEMMA FlushType ==
  ASSUME Entities!TypeOK, Entities!Flush
  PROVE  Entities!TypeOK'
<1>1. /\ sent' = Entities!Nothing
      /\ UNCHANGED <<unset, calls, state>>
      /\ DOMAIN flash' = Entities!Persistent /\ DOMAIN queued' = Entities!Persistent
      /\ \A e \in Entities!Persistent :
           queued'[e] = <<>> /\ (flash'[e] = flash[e] \/ flash'[e] = queued[e])
  BY DEF Entities!Flush
<1>2. ASSUME NEW e \in Entities!Persistent
      PROVE  /\ Entities!Shows(e, queued'[e])
             /\ Entities!IsOptional(flash'[e], Int)
  <2>1. Entities!Shows(e, <<>>)
    BY Zenon DEF Entities!Shows, Entities!IsOptional
  <2>2. Entities!IsOptional(queued[e], Int) /\ Entities!IsOptional(flash[e], Int)
    BY ShownValues, Kinds DEF Entities!TypeOK
  <2> QED
    BY <1>1, <2>1, <2>2, Zenon
<1> QED
  BY <1>1, <1>2 DEF Entities!TypeOK, Entities!Nothing

LEMMA RebootType ==
  ASSUME Entities!TypeOK, Entities!Reboot
  PROVE  Entities!TypeOK'
<1>1. \A e \in Setting : Entities!Shows(e, <<>>)
  BY Zenon DEF Entities!Shows, Entities!IsOptional
<1>2. calls' \in Seq(CallRecord) /\ DOMAIN calls' = {}
  BY DEF Entities!Reboot
<1> QED
  BY <1>1, <1>2, Kinds
  DEF Entities!TypeOK, Entities!Reboot, CallRecord, Setting, Entities!Nothing

(***************************************************************************)
(* Transmissions.                                                          *)
(***************************************************************************)

\* A handler transmits nothing but what its entities then show.
SendsState ==
  \A m \in DOMAIN sent' :
    m \in Setting /\ Wire(m, state'[m]) = {sent'[m]} /\ sent'[m] \in Int

LEMMA RoundSendsState ==
  ASSUME Entities!TypeOK, Entities!SyncToDevice
  PROVE  /\ SendsState
         /\ \A e \in Setting \ DOMAIN sent' : Wire(e, state[e]) = {}
<1>1. /\ DOMAIN sent' \subseteq Setting
      /\ \A e \in Setting :
           Wire(e, state[e]) = IF e \in DOMAIN sent' THEN {sent'[e]} ELSE {}
  BY Rounds DEF Entities!TypeOK, Entities!SyncToDevice, Setting
<1>2. \A e \in Setting : Wire(e, state[e]) \subseteq Int
  BY Transmitted DEF Entities!TypeOK, Setting
<1>3. state' = state
  BY DEF Entities!SyncToDevice
<1> QED
  BY <1>1, <1>2, <1>3 DEF SendsState

\* One entity transmits its state, or none does.
LEMMA OneSendsState ==
  ASSUME NEW e \in Setting, Entities!Shows(e, state'[e]),
         sent' = Entities!Message(e, state'[e]) \/ sent' = Entities!Nothing
  PROVE  SendsState
<1>1. DOMAIN Entities!Nothing = {}
  BY DEF Entities!Nothing
<1> DEFINE s == state'[e]
           message == Entities!Message(e, s)
<1>2. /\ DOMAIN message \subseteq {e}
      /\ Wire(e, s) = {message[m] : m \in DOMAIN message}
      /\ Wire(e, s) \subseteq Int
  BY Transmitted
<1>3. \A m \in DOMAIN message : m = e /\ Wire(e, s) = {message[m]}
  BY <1>2
<1>4. \A m \in DOMAIN message :
        m \in Setting /\ Wire(m, state'[m]) = {message[m]} /\ message[m] \in Int
  BY <1>2, <1>3
<1>5. sent' = message \/ sent' = Entities!Nothing
  OBVIOUS
<1> HIDE DEF message
<1> QED
  BY <1>1, <1>4, <1>5, Zenon DEF SendsState

LEMMA ControlSendsState ==
  ASSUME Entities!TypeOK, NEW e \in Setting, NEW value \in Entities!Callable(e),
         Entities!Control(e, value)
  PROVE  SendsState /\ DOMAIN sent' \subseteq {e} /\ state'[e] = <<value>>
<1>1. Entities!Shows(e, <<value>>)
  BY CallableShown
<1>2. state'[e] = <<value>> /\ sent' = Entities!Message(e, <<value>>)
  BY DEF Entities!TypeOK, Entities!Control, Setting
<1> QED
  BY <1>1, <1>2, OneSendsState, Transmitted

LEMMA ReturnSendsState ==
  ASSUME Entities!TypeOK, Entities!Return
  PROVE  SendsState
<1> DEFINE e == calls[Len(calls)].entity
<1>1. e \in Setting
  BY LastCall DEF Entities!Return
<1>2. state' = state /\ Entities!Shows(e, state[e])
  BY <1>1 DEF Entities!TypeOK, Entities!Return, Setting
<1>3. sent' = Entities!Message(e, state[e]) \/ sent' = Entities!Nothing
  BY DEF Entities!Return
<1> HIDE DEF e
<1> QED
  BY <1>1, <1>2, <1>3, OneSendsState

\* What a transmission does to the device.
LEMMA Delivered ==
  ASSUME NEW lost, NEW events, Transmit(lost, events),
         device \in [Setting -> Int], SendsState
  PROVE  /\ device' \in [Setting -> Int]
         /\ \A e \in Setting :
              device'[e] = device[e] \/ Wire(e, state'[e]) = {device'[e]}
         /\ \A e \in Setting \ DOMAIN sent' : device'[e] = device[e]
         /\ lost = {} => \A e \in DOMAIN sent' : device'[e] = sent'[e]
<1>1. device' = [e \in Setting |-> IF e \in DOMAIN sent' \ lost THEN sent'[e]
                                   ELSE device[e]]
  BY DEF Transmit
<1>2. \A e \in Setting :
        (e \in DOMAIN sent' /\ device'[e] = sent'[e]) \/ device'[e] = device[e]
  BY <1>1
<1>3. device' \in [Setting -> Int]
  BY <1>1 DEF SendsState
<1>4. \A e \in Setting :
        device'[e] = device[e] \/ Wire(e, state'[e]) = {device'[e]}
  BY <1>2, Zenon DEF SendsState
<1>5. \A e \in Setting \ DOMAIN sent' : device'[e] = device[e]
  BY <1>1
<1>6. lost = {} => \A e \in DOMAIN sent' : device'[e] = sent'[e]
  BY <1>1 DEF SendsState
<1> QED
  BY <1>3, <1>4, <1>5, <1>6

SpentOK == /\ DOMAIN spent = DOMAIN Bound
           /\ \A x \in DOMAIN Bound : spent[x] \in 0 .. Bound[x]

LEMMA Counted ==
  ASSUME SpentOK, NEW events \in SUBSET DOMAIN Bound, Spend(events)
  PROVE  /\ SpentOK'
         /\ spent.loss \in Int /\ spent'.loss \in Int /\ spent'.loss <= MaxLosses
         /\ spent'.loss = IF "loss" \in events THEN spent.loss + 1 ELSE spent.loss
<1>1. /\ DOMAIN Bound = {"command", "automation", "panel", "loss", "reboot"}
      /\ \A x \in DOMAIN Bound : Bound[x] \in Nat
      /\ Bound["loss"] = MaxLosses
  BY BoundsAssumption DEF Bound
<1>2. /\ spent' = [x \in DOMAIN Bound |-> IF x \in events THEN spent[x] + 1
                                          ELSE spent[x]]
      /\ \A x \in events : spent[x] < Bound[x]
  BY DEF Spend, SpentOK
<1>3. \A x \in DOMAIN Bound :
        /\ spent[x] \in 0 .. Bound[x] /\ spent'[x] \in 0 .. Bound[x]
        /\ spent'[x] = IF x \in events THEN spent[x] + 1 ELSE spent[x]
  BY <1>1, <1>2 DEF SpentOK
<1>4. /\ spent["loss"] \in Int /\ spent'["loss"] \in Int
      /\ spent'["loss"] <= MaxLosses
      /\ spent'["loss"] = IF "loss" \in events THEN spent["loss"] + 1
                                               ELSE spent["loss"]
  BY <1>1, <1>3
<1>5. DOMAIN spent' = DOMAIN Bound
  BY <1>2
<1> QED
  BY <1>3, <1>4, <1>5 DEF SpentOK, Bound

\* The events that a transmission costs.
LEMMA Losses ==
  ASSUME SpentOK, NEW lost, NEW events \in SUBSET {"command", "automation"},
         Transmit(lost, events)
  PROVE  /\ SpentOK'
         /\ spent.loss \in Int /\ spent'.loss \in Int /\ spent'.loss <= MaxLosses
         /\ spent'.loss = IF lost = {} THEN spent.loss ELSE spent.loss + 1
<1> DEFINE all == events \cup (IF lost = {} THEN {} ELSE {"loss"})
<1>1. Spend(all)
  BY DEF Transmit
<1>2. all \in SUBSET DOMAIN Bound
  BY DEF Bound
<1>3. "loss" \in all <=> lost # {}
  OBVIOUS
<1> HIDE DEF all
<1> QED
  BY <1>1, <1>2, <1>3, Counted

(***************************************************************************)
(* The type invariant.                                                     *)
(***************************************************************************)

\* The part of TypeOK that concerns what is in flight and remembered.
RememberedOK ==
  /\ rx \in Seq(Setting \X Int) /\ Len(rx) <= MaxRx
  /\ quiet \subseteq Setting
  /\ DOMAIN sources = Setting
  /\ \A e \in Setting : sources[e] \subseteq Int
  /\ DOMAIN asked = Setting /\ DOMAIN kept = Setting
  /\ \A e \in Setting : Entities!Shows(e, asked[e]) /\ Entities!Shows(e, kept[e])
  /\ overlapped \subseteq Setting

LEMMA TypeParts ==
  TypeOK <=> /\ Entities!TypeOK
             /\ sync_count_ \in 0 .. SYNC_REPEAT_COUNT
             /\ armed \in BOOLEAN
             /\ device \in [Setting -> Int]
             /\ SpentOK
             /\ RememberedOK
BY Zenon DEF TypeOK, SpentOK, RememberedOK

\* Every message on its way has a setting and a value.
LEMMA Oldest ==
  ASSUME RememberedOK, rx # <<>>
  PROVE  /\ Head(rx)[1] \in Setting /\ Head(rx)[2] \in Int
         /\ Head(rx) = rx[1] /\ 1 \in DOMAIN rx
         /\ Tail(rx) \in Seq(Setting \X Int) /\ Len(Tail(rx)) <= MaxRx
         /\ \A i \in DOMAIN Tail(rx) : i + 1 \in DOMAIN rx /\ Tail(rx)[i] = rx[i + 1]
<1>1. rx \in Seq(Setting \X Int) /\ Len(rx) <= MaxRx /\ MaxRx \in Nat
  BY BoundsAssumption DEF RememberedOK
<1>2. /\ Len(rx) \in Nat \ {0} /\ Head(rx) = rx[1] /\ 1 \in DOMAIN rx
      /\ DOMAIN rx = 1 .. Len(rx)
      /\ Tail(rx) \in Seq(Setting \X Int) /\ Len(Tail(rx)) = Len(rx) - 1
      /\ DOMAIN Tail(rx) = 1 .. Len(rx) - 1
      /\ \A i \in 1 .. Len(rx) - 1 : Tail(rx)[i] = rx[i + 1]
  BY <1>1, EmptySeq, HeadTailProperties
<1>3. rx[1] \in Setting \X Int
  BY <1>1, <1>2
<1> QED
  BY <1>1, <1>2, <1>3

LEMMA TypeInit == Init => TypeOK
<1> SUFFICES ASSUME Init PROVE TypeOK
  OBVIOUS
<1>1. Entities!TypeOK
  BY InitType DEF Init
<1>2. /\ sync_count_ = 0 /\ armed = FALSE /\ rx = <<>> /\ quiet = Setting
      /\ DOMAIN sources = Setting
      /\ asked = [e \in Setting |-> <<>>] /\ kept = asked /\ overlapped = {}
      /\ spent = [e \in DOMAIN Bound |-> 0]
  BY DEF Init
<1>3. device \in [Setting -> Int]
  BY RegistersAssumption DEF Init
<1>4. SpentOK
  BY <1>2, BoundsAssumption DEF SpentOK, Bound
<1>5. \A e \in Setting : Entities!Shows(e, <<>>)
  BY Zenon DEF Entities!Shows, Entities!IsOptional
<1>6. ASSUME NEW e \in Setting PROVE sources[e] \subseteq Int
  <2>1. sources[e] = {device[e]} \cup Configured(e)
          \cup IF e \in Entities!Persistent THEN Wire(e, flash[e]) ELSE {}
    BY DEF Init
  <2>2. Configured(e) \subseteq Int
    <3>1. CASE e \in Numbers
      <4>1. Entities!ToTenths(initial_value_[e]) \in Int
        BY <3>1, Tenths, SettingAssumption DEF Entities!ConfigurationOK
      <4> QED
        BY <3>1, <4>1, Kinds DEF Configured
    <3>2. CASE e \in Restored
      <4>1. initial_index_[e] \in Entities!Indices(e)
        BY <3>2, SettingAssumption DEF Entities!ConfigurationOK, Entities!Indices
      <4>2. option_bytes_[e][initial_index_[e]] \in Int
        BY <3>2, <4>1, Kinds, Options, Zenon
      <4>3. Configured(e) = {option_bytes_[e][initial_index_[e]]}
        BY <3>2, Kinds DEF Configured
      <4> QED
        BY <4>2, <4>3, Zenon
    <3>3. CASE e \notin Numbers /\ e \notin Restored
      BY <3>3 DEF Configured
    <3> QED
      BY <3>1, <3>2, <3>3
  <2>3. e \in Entities!Persistent => Wire(e, flash[e]) \subseteq Int
    <3> SUFFICES ASSUME e \in Entities!Persistent
                 PROVE  Wire(e, flash[e]) \subseteq Int
      OBVIOUS
    <3>1. flash[e] = <<>> \/ (flash[e] = <<flash[e][1]>> /\ flash[e][1] \in Int)
      BY <1>1 DEF Entities!TypeOK, Entities!IsOptional
    <3>2. CASE e \in Numbers
      <4>1. \A x \in Int : Wire(e, <<x>>) = {Entities!ToTenths(x)}
        BY <3>2 DEF Wire, Entities!Wire
      <4>2. Wire(e, <<>>) = {}
        BY <3>2 DEF Wire, Entities!Wire
      <4> QED
        BY <3>1, <4>1, <4>2, Tenths
    <3>3. CASE e \in Selects /\ e \notin Numbers
      BY <3>3, Options DEF Wire, Entities!Wire
    <3> QED
      BY <3>2, <3>3, Kinds
  <2>4. device[e] \in Int
    BY <1>3
  <2> QED
    BY <2>1, <2>2, <2>3, <2>4
<1>7. rx \in Seq(Setting \X Int) /\ Len(rx) <= MaxRx
  BY <1>2, BoundsAssumption
<1>8. sync_count_ \in 0 .. SYNC_REPEAT_COUNT
  BY <1>2, WindowAssumption
<1>9. RememberedOK
  BY <1>2, <1>5, <1>6, <1>7 DEF RememberedOK
<1> QED
  BY <1>1, <1>2, <1>3, <1>4, <1>8, <1>9, TypeParts

LEMMA TypeStep ==
  ASSUME TypeOK, Repairing, Next
  PROVE  TypeOK'
<1>0. /\ Entities!TypeOK /\ SpentOK /\ RememberedOK /\ device \in [Setting -> Int]
      /\ sync_count_ \in 0 .. SYNC_REPEAT_COUNT /\ armed \in BOOLEAN
      /\ SYNC_REPEAT_COUNT \in Nat
  BY TypeParts, WindowAssumption
<1>p. (TypeOK <=> /\ Entities!TypeOK
                  /\ sync_count_ \in 0 .. SYNC_REPEAT_COUNT
                  /\ armed \in BOOLEAN
                  /\ device \in [Setting -> Int]
                  /\ SpentOK
                  /\ RememberedOK)'
  BY TypeParts, PTL
<1>1. CASE Return
  <2>1. Entities!TypeOK' /\ SendsState
    BY <1>0, <1>1, ReturnType, ReturnSendsState DEF Return
  <2>2. PICK lost \in SUBSET DOMAIN sent' : Transmit(lost, {})
    BY <1>1 DEF Return
  <2>3. device' \in [Setting -> Int] /\ SpentOK'
    BY <1>0, <2>1, <2>2, Delivered, Losses
  <2> QED
    BY <1>0, <1>1, <1>p, <2>1, <2>3 DEF Return, RememberedOK
<1>2. CASE SyncIteration
  <2>1. Entities!TypeOK' /\ SendsState
    BY <1>0, <1>2, SyncToDeviceType, RoundSendsState DEF SyncIteration
  <2>2. PICK lost \in SUBSET DOMAIN sent' : Transmit(lost, {})
    BY <1>2 DEF SyncIteration
  <2>3. device' \in [Setting -> Int] /\ SpentOK'
    BY <1>0, <2>1, <2>2, Delivered, Losses
  <2>4. sync_count_' \in 0 .. SYNC_REPEAT_COUNT /\ armed' \in BOOLEAN
    BY <1>0, <1>2 DEF SyncIteration, Repairing
  <2> QED
    BY <1>0, <1>2, <1>p, <2>1, <2>3, <2>4 DEF SyncIteration, RememberedOK
<1>3. ASSUME NEW e \in Setting, Boot(e) PROVE TypeOK'
  <2>1. Entities!TypeOK'
    BY <1>0, <1>3, SetupType DEF Boot
  <2> QED
    BY <1>0, <1>3, <1>p, <2>1 DEF Boot, RememberedOK, SpentOK
<1>4. ASSUME NEW e \in Setting, NEW value \in Entities!Callable(e), Command(e, value)
      PROVE  TypeOK'
  <2>1. Entities!TypeOK' /\ SendsState
    BY <1>0, <1>4, ControlType, ControlSendsState DEF Command
  <2>2. PICK lost \in SUBSET DOMAIN sent' :
          Transmit(lost, {IF calls = <<>> THEN "command" ELSE "automation"})
    BY <1>4 DEF Command
  <2>3. device' \in [Setting -> Int] /\ SpentOK'
    BY <1>0, <2>1, <2>2, Delivered, Losses
  <2>4. Entities!Shows(e, <<value>>) /\ Wire(e, <<value>>) \subseteq Int
    BY CallableShown, Transmitted
  <2>5. RememberedOK'
    BY <1>0, <1>4, <2>4 DEF Command, RememberedOK
  <2> QED
    BY <1>0, <1>4, <1>p, <2>1, <2>3, <2>5 DEF Command
<1>5. ASSUME NEW e \in Setting, Broadcast(e) PROVE TypeOK'
  <2>1. rx' \in Seq(Setting \X Int) /\ Len(rx') <= MaxRx
    <3>1. /\ <<e, device[e]>> \in Setting \X Int /\ rx \in Seq(Setting \X Int)
          /\ rx' = Append(rx, <<e, device[e]>>) /\ Len(rx) < MaxRx
          /\ MaxRx \in Nat
      BY <1>0, <1>5, BoundsAssumption DEF Broadcast, RememberedOK
    <3> QED
      BY <3>1, AppendProperties
  <2> QED
    BY <1>0, <1>5, <1>p, <2>1
    DEF Broadcast, entityVars, RememberedOK, SpentOK, Entities!TypeOK
<1>6. ASSUME NEW e \in Setting, Panel(e) PROVE TypeOK'
  <2>1. PICK x \in Registers[e] \ {device[e]} :
          /\ device' = [device EXCEPT ![e] = x]
          /\ sources' = [sources EXCEPT ![e] = @ \cup {x}]
    BY <1>6 DEF Panel
  <2>2. x \in Int
    BY <2>1, RegistersAssumption
  <2>3. device' \in [Setting -> Int]
    BY <1>0, <2>1, <2>2
  <2>4. SpentOK'
    <3>1. {"panel"} \in SUBSET DOMAIN Bound
      BY DEF Bound
    <3> QED
      BY <1>0, <1>6, <3>1, Counted DEF Panel
  <2>5. RememberedOK'
    BY <1>0, <1>6, <2>1, <2>2 DEF Panel, RememberedOK
  <2> QED
    BY <1>0, <1>6, <1>p, <2>3, <2>4, <2>5 DEF Panel, entityVars, Entities!TypeOK
<1>7. CASE Receive
  <2>1. /\ Head(rx)[1] \in Setting /\ Head(rx)[2] \in Int
        /\ rx' \in Seq(Setting \X Int) /\ Len(rx') <= MaxRx
    BY <1>0, <1>7, Oldest DEF Receive
  <2>2. Entities!TypeOK'
    BY <1>0, <1>7, <2>1, ReflectType DEF Receive
  <2> QED
    BY <1>0, <1>7, <1>p, <2>1, <2>2 DEF Receive, RememberedOK, SpentOK
<1>8. CASE Flush
  <2>1. Entities!TypeOK'
    BY <1>0, <1>8, FlushType DEF Flush
  <2> QED
    BY <1>0, <1>8, <1>p, <2>1 DEF Flush, RememberedOK, SpentOK
<1>9. CASE Reboot
  <2>1. Entities!TypeOK'
    BY <1>0, <1>9, RebootType DEF Reboot
  <2>2. SpentOK'
    <3>1. {"reboot"} \in SUBSET DOMAIN Bound
      BY DEF Bound
    <3> QED
      BY <1>0, <1>9, <3>1, Counted DEF Reboot
  <2>3. RememberedOK'
    BY <1>0, <1>9, BoundsAssumption DEF Reboot, RememberedOK
  <2>4. sync_count_' \in 0 .. SYNC_REPEAT_COUNT /\ armed' \in BOOLEAN
    <3>1. sync_count_' = 0 /\ armed' = FALSE
      BY <1>9 DEF Reboot
    <3>2. 0 \in 0 .. SYNC_REPEAT_COUNT
      BY WindowAssumption
    <3> QED
      BY <3>1, <3>2
  <2> QED
    BY <1>0, <1>9, <1>p, <2>1, <2>2, <2>3, <2>4 DEF Reboot
<1> QED
  BY <1>1, <1>2, <1>3, <1>4, <1>5, <1>6, <1>7, <1>8, <1>9 DEF Next

(***************************************************************************)
(* Nothing is invented.                                                    *)
(***************************************************************************)

LEMMA SourcedInit == Init => Sourced
<1> SUFFICES ASSUME Init PROVE Sourced
  OBVIOUS
<1>1. \A e \in Setting : Wire(e, <<>>) = {}
  BY Transmitted, Zenon DEF Entities!Shows, Entities!IsOptional
<1>2. /\ calls = <<>> /\ rx = <<>>
      /\ \A e \in Setting : state[e] = <<>>
      /\ \A e \in Entities!Persistent : queued[e] = <<>>
  BY DEF Init, Entities!Init, Setting
<1>3. \A e \in Setting :
        sources[e] = {device[e]} \cup Configured(e)
          \cup IF e \in Entities!Persistent THEN Wire(e, flash[e]) ELSE {}
  BY DEF Init
<1> QED
  BY <1>1, <1>2, <1>3, Kinds DEF Sourced

LEMMA SourcedStep ==
  ASSUME TypeOK, TypeOK', Sourced, Next
  PROVE  Sourced'
<1>0. /\ Entities!TypeOK /\ RememberedOK /\ device \in [Setting -> Int]
      /\ \A e \in Setting : Entities!Shows(e, state[e])
      /\ DOMAIN state = Setting
  BY TypeParts DEF Entities!TypeOK, Setting
<1>e. \A e \in Setting : Wire(e, <<>>) = {}
  BY Transmitted, Zenon DEF Entities!Shows, Entities!IsOptional
<1>s. /\ \A e \in Setting :
           /\ device[e] \in sources[e]
           /\ Configured(e) \subseteq sources[e]
           /\ Wire(e, state[e]) \subseteq sources[e]
      /\ \A e \in Entities!Persistent :
           Wire(e, queued[e]) \subseteq sources[e] /\ Wire(e, flash[e]) \subseteq sources[e]
      /\ \A i \in DOMAIN calls :
           Wire(calls[i].entity, calls[i].value) \subseteq sources[calls[i].entity]
      /\ \A i \in DOMAIN rx : rx[i][2] \in sources[rx[i][1]]
  BY Zenon DEF Sourced
<1>d. ASSUME \A e \in Setting : /\ Configured(e) \subseteq sources'[e]
                                /\ Wire(e, state'[e]) \subseteq sources'[e]
                                /\ device'[e] \in sources'[e],
             \A e \in Entities!Persistent : /\ Wire(e, queued'[e]) \subseteq sources'[e]
                                            /\ Wire(e, flash'[e]) \subseteq sources'[e],
             \A i \in DOMAIN calls' :
               Wire(calls'[i].entity, calls'[i].value) \subseteq sources'[calls'[i].entity],
             \A i \in DOMAIN rx' : rx'[i][2] \in sources'[rx'[i][1]]
      PROVE  Sourced'
  BY <1>d DEF Sourced
<1>1. CASE Return
  <2>1. SendsState
    BY <1>0, <1>1, ReturnSendsState DEF Return
  <2>2. PICK lost \in SUBSET DOMAIN sent' : Transmit(lost, {})
    BY <1>1 DEF Return
  <2>3. UNCHANGED <<state, flash, rx, sources>>
    BY <1>1 DEF Return, Entities!Return
  <2>4. \A e \in Setting : device'[e] \in sources'[e]
    BY <1>0, <1>s, <2>1, <2>2, <2>3, Delivered
  <2>5. \A i \in DOMAIN calls' : i \in DOMAIN calls /\ calls'[i] = calls[i]
    BY <1>0, <1>1, OneCallLess
    DEF Return, Entities!Return, Entities!TypeOK, CallRecord, Setting
  <2>6. \A e \in Entities!Persistent : Wire(e, queued'[e]) \subseteq sources'[e]
    <3> DEFINE call == calls[Len(calls)]
    <3>1. /\ call.entity \in Setting
          /\ Wire(call.entity, call.value) \subseteq sources[call.entity]
      <4>1. Len(calls) \in DOMAIN calls
        BY <1>0, <1>1, EmptySeq DEF Return, Entities!Return, Entities!TypeOK
      <4> QED
        BY <1>0, <1>1, <1>s, <4>1, LastCall DEF Return, Entities!Return
    <3>2. queued' = queued \/ queued' = [queued EXCEPT ![call.entity] = call.value]
      BY <1>1 DEF Return, Entities!Return
    <3>3. DOMAIN queued = Entities!Persistent
      BY <1>0 DEF Entities!TypeOK
    <3> HIDE DEF call
    <3>4. ASSUME NEW e \in Entities!Persistent
          PROVE  queued'[e] = queued[e] \/ (e = call.entity /\ queued'[e] = call.value)
      BY <3>2, <3>3
    <3> QED
      BY <1>s, <2>3, <3>1, <3>4
  <2> QED
    BY <1>d, <1>s, <2>3, <2>4, <2>5, <2>6
<1>2. CASE SyncIteration
  <2>1. SendsState
    BY <1>0, <1>2, RoundSendsState DEF SyncIteration
  <2>2. PICK lost \in SUBSET DOMAIN sent' : Transmit(lost, {})
    BY <1>2 DEF SyncIteration
  <2>3. UNCHANGED <<state, flash, rx, sources, queued, calls>>
    BY <1>2 DEF SyncIteration, Entities!SyncToDevice
  <2>4. \A e \in Setting : device'[e] \in sources'[e]
    BY <1>0, <1>s, <2>1, <2>2, <2>3, Delivered
  <2> QED
    BY <1>d, <1>s, <2>3, <2>4
<1>3. ASSUME NEW e \in Setting, Boot(e) PROVE Sourced'
  <2>1. UNCHANGED <<device, sources, rx, queued, flash>>
    BY <1>3 DEF Boot, Entities!Setup
  <2>2. CASE e \in Entities!Persistent
    <3> DEFINE v == IF e \in Numbers THEN Entities!NumberSetup(e)
                    ELSE Entities!SelectSetup(e)
    <3>1. Entities!Shows(e, v) /\ Wire(e, v) \subseteq sources[e]
      BY <1>0, <1>s, <2>2, SetupShows
    <3>2. state' = [state EXCEPT ![e] = v]
          /\ calls' = <<Entities!Call("setup", e, state'[e])>>
      BY <1>3, <2>2 DEF Boot, Entities!Setup
    <3> HIDE DEF v
    <3>3. state'[e] = v /\ \A x \in Setting \ {e} : state'[x] = state[x]
      BY <1>0, <3>2
    <3>4. \A i \in DOMAIN calls' : calls'[i].entity = e /\ calls'[i].value = v
      BY <3>2, <3>3 DEF Entities!Call
    <3> QED
      BY <1>d, <1>s, <2>1, <3>1, <3>3, <3>4
  <2>3. CASE e \notin Entities!Persistent
    <3>1. UNCHANGED <<calls, state>>
      BY <1>3, <2>3 DEF Boot, Entities!Setup
    <3> QED
      BY <1>d, <1>s, <2>1, <3>1
  <2> QED
    BY <2>2, <2>3
<1>4. ASSUME NEW e \in Setting, NEW value \in Entities!Callable(e), Command(e, value)
      PROVE  Sourced'
  <2>1. Entities!Shows(e, <<value>>) /\ SendsState
    BY <1>0, <1>4, CallableShown, ControlSendsState DEF Command
  <2>2. PICK lost \in SUBSET DOMAIN sent' :
          Transmit(lost, {IF calls = <<>> THEN "command" ELSE "automation"})
    BY <1>4 DEF Command
  <2>3. UNCHANGED <<rx, queued, flash>>
    BY <1>4 DEF Command, Entities!Control
  <2>4. /\ sources'[e] = sources[e] \cup Wire(e, <<value>>)
        /\ \A x \in Setting : sources[x] \subseteq sources'[x]
    BY <1>0, <1>4 DEF Command, RememberedOK
  <2>5. /\ state'[e] = <<value>>
        /\ \A x \in Setting \ {e} : state'[x] = state[x]
    BY <1>0, <1>4 DEF Command, Entities!Control
  <2>6. \A x \in Setting : Wire(x, state'[x]) \subseteq sources'[x]
    BY <1>s, <2>4, <2>5
  <2>7. \A x \in Setting : device'[x] \in sources'[x]
    <3>1. \A x \in Setting :
            device'[x] = device[x] \/ Wire(x, state'[x]) = {device'[x]}
      BY <1>0, <2>1, <2>2, Delivered
    <3> QED
      BY <1>s, <2>4, <2>6, <3>1
  <2>8. \A i \in DOMAIN calls' : \/ i \in DOMAIN calls /\ calls'[i] = calls[i]
                                 \/ calls'[i].entity = e /\ calls'[i].value = <<value>>
    <3>1. calls' = Append(calls, Entities!Call("control", e, <<value>>))
      BY <1>4 DEF Command, Entities!Control
    <3>2. calls \in Seq(CallRecord)
          /\ \A i \in DOMAIN calls : Entities!Shows(calls[i].entity, calls[i].value)
      BY <1>0 DEF Entities!TypeOK, CallRecord, Setting
    <3>3. /\ DOMAIN calls' = 1 .. Len(calls) + 1 /\ Len(calls) \in Nat
          /\ DOMAIN calls = 1 .. Len(calls)
          /\ \A i \in DOMAIN calls : calls'[i] = calls[i]
          /\ calls'[Len(calls) + 1] = Entities!Call("control", e, <<value>>)
      BY <2>1, <3>1, <3>2, OneMoreCall
    <3>4. /\ Entities!Call("control", e, <<value>>).entity = e
          /\ Entities!Call("control", e, <<value>>).value = <<value>>
      BY DEF Entities!Call
    <3> QED
      BY <3>3, <3>4
  <2>9. \A i \in DOMAIN calls : calls[i].entity \in Setting
    BY <1>0, CallsTyped
  <2>10. \A i \in DOMAIN calls' :
           Wire(calls'[i].entity, calls'[i].value) \subseteq sources'[calls'[i].entity]
    BY <1>s, <2>4, <2>8, <2>9
  <2>11. \A i \in DOMAIN rx' : rx'[i][2] \in sources'[rx'[i][1]]
    <3>1. \A i \in DOMAIN rx : rx[i][1] \in Setting
      BY <1>0 DEF RememberedOK
    <3> QED
      BY <1>s, <2>3, <2>4, <3>1
  <2> QED
    BY <1>d, <1>s, <2>3, <2>4, <2>6, <2>7, <2>10, <2>11, Kinds
<1>5. ASSUME NEW e \in Setting, Broadcast(e) PROVE Sourced'
  <2>1. UNCHANGED <<calls, state, queued, flash, device, sources>>
        /\ rx' = Append(rx, <<e, device[e]>>)
    BY <1>5 DEF Broadcast, entityVars
  <2>2. rx \in Seq(Setting \X Int)
    BY <1>0 DEF RememberedOK
  <2>3. \A i \in DOMAIN rx' : \/ i \in DOMAIN rx /\ rx'[i] = rx[i]
                              \/ rx'[i] = <<e, device[e]>>
    <3>1. <<e, device[e]>> \in Setting \X Int
      BY <1>0
    <3> QED
      BY <2>1, <2>2, <3>1, AppendProperties
  <2>4. \A i \in DOMAIN rx' : rx'[i][2] \in sources'[rx'[i][1]]
    BY <1>s, <2>1, <2>3
  <2> QED
    BY <1>d, <1>s, <2>1, <2>4
<1>6. ASSUME NEW e \in Setting, Panel(e) PROVE Sourced'
  <2>1. PICK x \in Registers[e] \ {device[e]} :
          /\ device' = [device EXCEPT ![e] = x]
          /\ sources' = [sources EXCEPT ![e] = @ \cup {x}]
    BY <1>6 DEF Panel
  <2>2. UNCHANGED <<calls, state, queued, flash, rx>>
    BY <1>6 DEF Panel, entityVars
  <2>3. \A y \in Setting : sources[y] \subseteq sources'[y] /\ device'[y] \in sources'[y]
    BY <1>0, <1>s, <2>1 DEF RememberedOK
  <2>4. /\ \A i \in DOMAIN rx : rx[i][1] \in Setting
        /\ \A i \in DOMAIN calls : calls[i].entity \in Setting
    BY <1>0, CallsTyped DEF RememberedOK
  <2> QED
    BY <1>d, <1>s, <2>2, <2>3, <2>4, Kinds
<1>7. CASE Receive
  <2> DEFINE e == Head(rx)[1]
             w == Head(rx)[2]
             v == <<IF e \in Numbers THEN Entities!FromTenths(w)
                    ELSE Entities!IndexOf(e, w)>>
  <2>1. /\ e \in Setting /\ w \in Int /\ w \in sources[e]
        /\ rx' = Tail(rx) /\ UNCHANGED <<device, sources>>
        /\ \A i \in DOMAIN Tail(rx) : i + 1 \in DOMAIN rx /\ Tail(rx)[i] = rx[i + 1]
    BY <1>0, <1>7, <1>s, Oldest DEF Receive
  <2>2. Entities!Reflect(e, w)
    BY <1>7 DEF Receive
  <2> HIDE DEF e, w
  <2>3. /\ UNCHANGED <<unset, calls, queued, flash>>
        /\ \/ UNCHANGED state
           \/ /\ e \in Numbers \/ Entities!IsMapped(e, w)
              /\ state' = [state EXCEPT ![e] = v]
    BY <2>1, <2>2, Kinds DEF Entities!Reflect
  <2>4. e \in Numbers \/ Entities!IsMapped(e, w) => Wire(e, v) = {w}
    BY <2>1, ReflectShows
  <2> HIDE DEF v
  <2>5. \A x \in Setting : Wire(x, state'[x]) \subseteq sources'[x]
    BY <1>0, <1>s, <2>1, <2>3, <2>4
  <2>6. \A i \in DOMAIN rx' : rx'[i][2] \in sources'[rx'[i][1]]
    BY <1>s, <2>1
  <2> QED
    BY <1>d, <1>s, <2>1, <2>3, <2>5, <2>6
<1>8. CASE Flush
  <2>1. /\ UNCHANGED <<calls, state, device, rx, sources>>
        /\ \A e \in Entities!Persistent :
             queued'[e] = <<>> /\ (flash'[e] = flash[e] \/ flash'[e] = queued[e])
    BY <1>8 DEF Flush, Entities!Flush
  <2> QED
    BY <1>d, <1>e, <1>s, <2>1, Kinds
<1>9. CASE Reboot
  <2>1. /\ UNCHANGED <<flash, device, sources>>
        /\ DOMAIN calls' = {} /\ DOMAIN rx' = {}
        /\ \A e \in Setting : state'[e] = <<>>
        /\ \A e \in Entities!Persistent : queued'[e] = <<>>
    BY <1>9 DEF Reboot, Entities!Reboot, Setting
  <2> QED
    BY <1>d, <1>e, <1>s, <2>1, Kinds
<1> QED
  BY <1>1, <1>2, <1>3, <1>4, <1>5, <1>6, <1>7, <1>8, <1>9 DEF Next

(***************************************************************************)
(* The window repairs.                                                     *)
(***************************************************************************)

LEMMA RepairingInit == Init => Repairing
<1> SUFFICES ASSUME Init PROVE Repairing
  OBVIOUS
<1>1. unset = Setting /\ sync_count_ = 0 /\ armed = FALSE /\ quiet = Setting
  BY DEF Init, Entities!Init, Setting
<1> QED
  BY <1>1 DEF Repairing

\* A transmission does not take an untouched entity away from the device, unless
\* it costs a loss.
LEMMA StillRepaired ==
  ASSUME TypeOK, SendsState, NEW lost,
         NEW events \in SUBSET {"command", "automation"}, Transmit(lost, events),
         NEW e \in Setting, state'[e] = state[e],
         Wire(e, state[e]) \subseteq {device[e]}
  PROVE  Wire(e, state'[e]) \subseteq {device'[e]}
<1>1. device'[e] = device[e] \/ Wire(e, state'[e]) = {device'[e]}
  BY TypeParts, Delivered
<1> QED
  BY <1>1

LEMMA RepairingStep ==
  ASSUME TypeOK, Repairing, Next
  PROVE  Repairing'
<1>0. /\ Entities!TypeOK /\ RememberedOK /\ SpentOK /\ device \in [Setting -> Int]
      /\ DOMAIN state = Setting
      /\ sync_count_ \in Int /\ spent.loss \in Nat
      /\ SYNC_REPEAT_COUNT \in Nat /\ SYNC_REPEAT_COUNT > 0
  <2>1. spent.loss \in Nat
    BY BoundsAssumption, TypeParts DEF SpentOK, Bound
  <2> QED
    BY <2>1, TypeParts, WindowAssumption DEF Entities!TypeOK, Setting
<1>r. /\ unset # {} => sync_count_ = 0
      /\ armed => sync_count_ < SYNC_REPEAT_COUNT
      /\ unset # Setting => armed \/ sync_count_ = SYNC_REPEAT_COUNT
      /\ \A e \in quiet \ unset :
           Wire(e, state[e]) \subseteq {device[e]} \/ spent.loss >= sync_count_
  BY DEF Repairing
<1>q. quiet \subseteq Setting
  BY <1>0 DEF RememberedOK
<1>1. CASE Return
  <2>1. SendsState
    BY <1>0, <1>1, ReturnSendsState DEF Return
  <2>2. PICK lost \in SUBSET DOMAIN sent' : Transmit(lost, {})
    BY <1>1 DEF Return
  <2>3. UNCHANGED <<unset, state, sync_count_, armed, quiet>>
    BY <1>1 DEF Return, Entities!Return
  <2>4. spent'.loss \in Int /\ spent'.loss >= spent.loss
    BY <1>0, <2>2, Losses
  <2>5. ASSUME NEW e \in quiet' \ unset'
        PROVE  Wire(e, state'[e]) \subseteq {device'[e]} \/ spent'.loss >= sync_count_'
    <3>1. CASE Wire(e, state[e]) \subseteq {device[e]}
      BY <1>q, <2>1, <2>2, <2>3, <3>1, StillRepaired
    <3>2. CASE spent.loss >= sync_count_
      BY <1>0, <2>3, <2>4, <3>2
    <3> QED
      BY <1>r, <2>3, <3>1, <3>2
  <2> QED
    BY <1>r, <2>3, <2>5 DEF Repairing
<1>2. CASE SyncIteration
  <2>1. SendsState /\ \A e \in Setting \ DOMAIN sent' : Wire(e, state[e]) = {}
    BY <1>0, <1>2, RoundSendsState DEF SyncIteration
  <2>2. PICK lost \in SUBSET DOMAIN sent' : Transmit(lost, {})
    BY <1>2 DEF SyncIteration
  <2>3. /\ UNCHANGED <<unset, state, quiet>> /\ unset = {} /\ armed
        /\ sync_count_' = sync_count_ + 1
        /\ armed' = (sync_count_' < SYNC_REPEAT_COUNT)
    BY <1>2 DEF SyncIteration, Entities!SyncToDevice, Entities!ready
  <2>4. spent'.loss \in Int
        /\ spent'.loss = IF lost = {} THEN spent.loss ELSE spent.loss + 1
    BY <1>0, <2>2, Losses
  <2>5. ASSUME NEW e \in quiet' \ unset'
        PROVE  Wire(e, state'[e]) \subseteq {device'[e]} \/ spent'.loss >= sync_count_'
    <3>0. e \in Setting /\ e \in quiet \ unset
      BY <1>q, <2>3
    <3>1. CASE lost = {}
      <4>1. e \in DOMAIN sent' =>
              device'[e] = sent'[e] /\ Wire(e, state'[e]) = {sent'[e]}
        BY <1>0, <2>1, <2>2, <3>1, Delivered DEF SendsState
      <4>2. e \notin DOMAIN sent' => Wire(e, state'[e]) = {}
        BY <2>1, <2>3, <3>0
      <4> QED
        BY <4>1, <4>2
    <3>2. CASE lost # {} /\ Wire(e, state[e]) \subseteq {device[e]}
      BY <2>1, <2>2, <2>3, <3>0, <3>2, StillRepaired
    <3>3. CASE lost # {} /\ spent.loss >= sync_count_
      BY <1>0, <2>3, <2>4, <3>3
    <3> QED
      BY <1>r, <3>0, <3>1, <3>2, <3>3
  <2>6. armed' \/ sync_count_' = SYNC_REPEAT_COUNT
    <3>1. sync_count_' < SYNC_REPEAT_COUNT \/ sync_count_' = SYNC_REPEAT_COUNT
      BY <1>0, <1>r, <2>3
    <3> QED
      BY <2>3, <3>1, Zenon
  <2> QED
    BY <2>3, <2>5, <2>6 DEF Repairing
<1>3. ASSUME NEW e \in Setting, Boot(e) PROVE Repairing'
  <2>1. sync_count_' = 0 /\ armed' = TRUE /\ spent' = spent
    BY <1>3, <1>r DEF Boot, Entities!Setup
  <2> QED
    BY <1>0, <2>1 DEF Repairing
<1>4. ASSUME NEW e \in Setting, NEW value \in Entities!Callable(e), Command(e, value)
      PROVE  Repairing'
  <2>1. SendsState /\ DOMAIN sent' \subseteq {e}
    BY <1>0, <1>4, ControlSendsState DEF Command
  <2>2. PICK lost \in SUBSET DOMAIN sent' :
          Transmit(lost, {IF calls = <<>> THEN "command" ELSE "automation"})
    BY <1>4 DEF Command
  <2>3. /\ UNCHANGED <<unset, sync_count_, armed>> /\ quiet' = quiet \ {e}
        /\ \A x \in Setting \ {e} : state'[x] = state[x]
    BY <1>0, <1>4 DEF Command, Entities!Control
  <2>4. spent'.loss \in Int /\ spent'.loss >= spent.loss
    BY <1>0, <2>2, Losses
  <2>5. \A x \in Setting \ {e} : device'[x] = device[x]
    BY <1>0, <2>1, <2>2, Delivered
  <2>6. \A x \in quiet' \ unset' :
          Wire(x, state'[x]) \subseteq {device'[x]} \/ spent'.loss >= sync_count_'
    BY <1>0, <1>q, <1>r, <2>3, <2>4, <2>5
  <2> QED
    BY <1>r, <2>3, <2>6 DEF Repairing
<1>5. ASSUME NEW e \in Setting, Broadcast(e) PROVE Repairing'
  BY <1>r, <1>5 DEF Broadcast, entityVars, Repairing
<1>6. ASSUME NEW e \in Setting, Panel(e) PROVE Repairing'
  <2>1. PICK x \in Registers[e] \ {device[e]} : device' = [device EXCEPT ![e] = x]
    BY <1>6 DEF Panel
  <2>2. /\ UNCHANGED <<unset, state, sync_count_, armed>> /\ quiet' = quiet \ {e}
    BY <1>6 DEF Panel, entityVars
  <2>3. \A y \in Setting \ {e} : device'[y] = device[y]
    BY <1>0, <2>1
  <2>4. spent'.loss = spent.loss
    <3>1. {"panel"} \in SUBSET DOMAIN Bound /\ "loss" \notin {"panel"}
      BY DEF Bound
    <3>2. Spend({"panel"})
      BY <1>6 DEF Panel
    <3> QED
      BY <1>0, <3>1, <3>2, Counted
  <2> QED
    BY <1>q, <1>r, <2>2, <2>3, <2>4 DEF Repairing
<1>7. CASE Receive
  <2> DEFINE e == Head(rx)[1]
  <2>1. UNCHANGED <<unset, sync_count_, armed, device, spent>> /\ quiet' = quiet \ {e}
    BY <1>7 DEF Receive, Entities!Reflect
  <2>2. state' = state \/ \E v : state' = [state EXCEPT ![e] = v]
    BY <1>7 DEF Receive, Entities!Reflect
  <2> HIDE DEF e
  <2>3. \A x \in Setting \ {e} : state'[x] = state[x]
    BY <1>0, <2>2
  <2> QED
    BY <1>q, <1>r, <2>1, <2>3 DEF Repairing
<1>8. CASE Flush
  BY <1>r, <1>8 DEF Flush, Entities!Flush, Repairing
<1>9. CASE Reboot
  <2>1. unset' = Setting /\ sync_count_' = 0 /\ armed' = FALSE /\ quiet' = quiet
    BY <1>9 DEF Reboot, Entities!Reboot, Setting
  <2> QED
    BY <1>q, <2>1 DEF Repairing
<1> QED
  BY <1>1, <1>2, <1>3, <1>4, <1>5, <1>6, <1>7, <1>8, <1>9 DEF Next

(***************************************************************************)
(* What was asked for is remembered.                                       *)
(***************************************************************************)

\* Remembered, of one entity.
RememberedOf(e) ==
  /\ kept[e] # <<>> => flash[e] = kept[e]
  /\ e \in unset => queued[e] = <<>> /\ asked[e] = kept[e]
  /\ (e \in unset \/ Commands(e) = {}) /\ asked[e] # <<>> =>
       asked[e] = Stored(e)
  /\ e \notin unset /\ Commands(e) # {} =>
       \E i \in DOMAIN calls : Commands(e) = {i} /\ asked[e] = calls[i].value
  /\ e \in quiet \ unset /\ asked[e] # <<>> => state[e] = asked[e]

LEMMA RememberedOfAll ==
  Remembered <=> \A e \in Entities!Persistent \ overlapped : RememberedOf(e)
BY DEF Remembered, RememberedOf

\* Nothing that concerns an entity's memory changes.
LEMMA Unaffected ==
  ASSUME NEW e \in Entities!Persistent, RememberedOf(e),
         kept'[e] = kept[e], flash'[e] = flash[e], queued'[e] = queued[e],
         asked'[e] = asked[e], e \in unset <=> e \in unset',
         Commands(e)' = Commands(e),
         \A i \in Commands(e) : calls'[i].value = calls[i].value,
         e \in quiet' => e \in quiet /\ state'[e] = state[e]
  PROVE  RememberedOf(e)'
<1>1. Stored(e)' = Stored(e)
  BY DEF Stored
<1>2. Commands(e)' \subseteq DOMAIN calls'
  BY DEF Commands
<1> QED
  BY <1>1, <1>2 DEF RememberedOf

LEMMA RememberedInit == Init => Remembered
<1> SUFFICES ASSUME Init, NEW e \in Entities!Persistent PROVE RememberedOf(e)
  BY RememberedOfAll
<1>1. /\ unset = Setting /\ queued[e] = <<>> /\ asked[e] = <<>> /\ kept[e] = <<>>
      /\ e \in Setting
  BY Kinds DEF Init, Entities!Init, Setting
<1> QED
  BY <1>1 DEF RememberedOf

LEMMA RememberedStep ==
  ASSUME TypeOK, Remembered, Next
  PROVE  Remembered'
<1>0. /\ Entities!TypeOK /\ RememberedOK
      /\ DOMAIN state = Setting /\ DOMAIN queued = Entities!Persistent
      /\ \A x \in Setting : Entities!Shows(x, asked[x])
  BY TypeParts DEF Entities!TypeOK, Setting, RememberedOK
<1>c. calls \in Seq(CallRecord)
      /\ \A i \in DOMAIN calls : Entities!Shows(calls[i].entity, calls[i].value)
  BY <1>0, CallsTyped DEF Entities!TypeOK
<1>p. (Remembered <=> \A e \in Entities!Persistent \ overlapped : RememberedOf(e))'
  BY RememberedOfAll, PTL
<1>r. \A e \in Entities!Persistent \ overlapped : RememberedOf(e)
  BY RememberedOfAll
<1>o. overlapped \subseteq overlapped'
  <2>1. ASSUME NEW f \in Setting, NEW value \in Entities!Callable(f), Command(f, value)
        PROVE  overlapped \subseteq overlapped'
    BY <2>1 DEF Command
  <2> QED
    BY <2>1 DEF Next, Return, SyncIteration, Boot, Broadcast, Panel, Receive, Flush, Reboot
<1>k. \A e \in Entities!Persistent : e \in Setting
  BY Kinds
<1> SUFFICES ASSUME NEW e \in Entities!Persistent, e \notin overlapped'
             PROVE  RememberedOf(e)'
  BY <1>p
<1>e. e \in Setting /\ RememberedOf(e)
  BY <1>k, <1>o, <1>r
<1>1. CASE Return
  <2> DEFINE last == calls[Len(calls)]
             n == Len(calls)
  <2>1. /\ calls # <<>> /\ UNCHANGED <<unset, state, flash, asked, kept, quiet>>
        /\ queued' = IF last.kind = "control" /\ last.entity \in Entities!Persistent \ unset
                     THEN [queued EXCEPT ![last.entity] = last.value]
                     ELSE queued
    BY <1>1 DEF Return, Entities!Return
  <2>2. /\ DOMAIN calls = 1 .. n /\ n \in Nat \ {0}
        /\ DOMAIN calls' = 1 .. n - 1
        /\ \A i \in DOMAIN calls' : calls'[i] = calls[i]
    BY <1>1, <1>c, OneCallLess DEF Return, Entities!Return
  <2> HIDE DEF last, n
  <2>3. Commands(e)' = Commands(e) \ {n}
    BY <2>2 DEF Commands
  <2>4. CASE n \notin Commands(e)
    <3>1. queued'[e] = queued[e]
      BY <1>0, <2>1, <2>2, <2>4 DEF Commands, last, n
    <3>2. Commands(e)' = Commands(e)
      BY <2>3, <2>4
    <3>3. \A i \in Commands(e) : calls'[i].value = calls[i].value
      BY <2>2, <3>2 DEF Commands
    <3> QED
      BY <1>e, <2>1, <3>1, <3>2, <3>3, Unaffected
  <2>5. CASE n \in Commands(e) /\ e \in unset
    <3>1. queued'[e] = queued[e]
      BY <1>0, <2>1, <2>2, <2>5 DEF Commands, last, n
    <3>2. Stored(e)' = Stored(e)
      BY <2>1, <3>1 DEF Stored
    <3> QED
      BY <1>e, <2>1, <2>5, <3>1, <3>2 DEF RememberedOf
  <2>6. CASE n \in Commands(e) /\ e \notin unset
    <3>1. last = calls[n] /\ last.kind = "control" /\ last.entity = e
      BY <2>6 DEF Commands, last, n
    <3>2. queued'[e] = last.value
      BY <1>0, <2>1, <2>6, <3>1
    <3>3. Commands(e) = {n} /\ asked[e] = last.value
      BY <1>e, <2>6, <3>1 DEF RememberedOf
    <3>4. Commands(e)' = {}
      BY <2>3, <3>3
    <3>5. asked[e] # <<>> => asked'[e] = Stored(e)'
      BY <2>1, <3>2, <3>3 DEF Stored
    <3> QED
      BY <1>e, <2>1, <2>6, <3>4, <3>5 DEF RememberedOf
  <2> QED
    BY <2>4, <2>5, <2>6
<1>2. CASE SyncIteration
  <2>1. UNCHANGED <<unset, calls, state, queued, flash, quiet, asked, kept>>
    BY <1>2 DEF SyncIteration, Entities!SyncToDevice
  <2>2. Commands(e)' = Commands(e)
    BY <2>1 DEF Commands
  <2> QED
    BY <1>e, <2>1, <2>2, Unaffected
<1>3. ASSUME NEW f \in Setting, Boot(f) PROVE RememberedOf(e)'
  <2>1. /\ calls = <<>> /\ f \in unset /\ unset' = unset \ {f} /\ quiet' = quiet \cup {f}
        /\ UNCHANGED <<queued, flash, asked, kept>>
    BY <1>3 DEF Boot, Entities!Setup
  <2>2. Commands(e) = {}
    BY <2>1 DEF Commands
  <2>3. Commands(e)' = {}
    <3>1. \A i \in DOMAIN calls' : calls'[i].kind = "setup"
      <4>1. calls' = <<>> \/ calls' = <<Entities!Call("setup", f, state'[f])>>
        BY <1>3, <2>1 DEF Boot, Entities!Setup
      <4>2. Entities!Call("setup", f, state'[f]).kind = "setup"
        BY DEF Entities!Call
      <4> QED
        BY <4>1, <4>2
    <3> QED
      BY <3>1 DEF Commands
  <2>4. Stored(e)' = Stored(e)
    BY <2>1 DEF Stored
  <2>5. CASE e # f
    <3>1. state'[e] = state[e]
      <4>1. state' = state \/ \E v : state' = [state EXCEPT ![f] = v]
        BY <1>3 DEF Boot, Entities!Setup
      <4> QED
        BY <1>0, <1>e, <2>5, <4>1
    <3> QED
      BY <1>e, <2>1, <2>2, <2>3, <2>4, <2>5, <3>1 DEF RememberedOf
  <2>6. CASE e = f
    <3> DEFINE v == IF e \in Numbers THEN Entities!NumberSetup(e)
                    ELSE Entities!SelectSetup(e)
    <3>1. state'[e] = v
      BY <1>0, <1>3, <1>e, <2>6 DEF Boot, Entities!Setup
    <3>2. flash[e] # <<>> /\ Entities!Shows(e, flash[e]) => v = flash[e]
      BY <1>0, SetupShows
    <3> HIDE DEF v
    <3>3. queued[e] = <<>> /\ asked[e] = kept[e]
          /\ (kept[e] # <<>> => flash[e] = kept[e])
      BY <1>e, <2>1, <2>6 DEF RememberedOf
    <3>4. asked[e] # <<>> => state'[e] = asked[e]
      BY <1>0, <1>e, <3>1, <3>2, <3>3
    <3> QED
      BY <1>e, <2>1, <2>2, <2>3, <2>4, <2>6, <3>4 DEF RememberedOf
  <2> QED
    BY <2>5, <2>6
<1>4. ASSUME NEW f \in Setting, NEW value \in Entities!Callable(f), Command(f, value)
      PROVE  RememberedOf(e)'
  <2> DEFINE call == Entities!Call("control", f, <<value>>)
             n == Len(calls)
  <2>1. /\ UNCHANGED <<unset, queued, flash, kept>> /\ quiet' = quiet \ {f}
        /\ state' = [state EXCEPT ![f] = <<value>>]
        /\ asked' = IF f \in unset THEN asked ELSE [asked EXCEPT ![f] = <<value>>]
        /\ f \in unset \/ Commands(f) = {} \/ f \in overlapped'
        /\ calls' = Append(calls, call)
    BY <1>4 DEF Command, Entities!Control
  <2>2. call.kind = "control" /\ call.entity = f /\ call.value = <<value>>
    BY DEF Entities!Call
  <2>3. /\ DOMAIN calls = 1 .. n /\ n \in Nat
        /\ DOMAIN calls' = 1 .. n + 1
        /\ \A i \in DOMAIN calls : calls'[i] = calls[i]
        /\ calls'[n + 1] = call
    <3>1. Entities!Shows(f, <<value>>)
      BY CallableShown
    <3> QED
      BY <1>c, <2>1, <3>1, OneMoreCall
  <2> HIDE DEF call, n
  <2>5. CASE e # f
    <3>1. state'[e] = state[e] /\ asked'[e] = asked[e]
      BY <1>0, <1>e, <2>1, <2>5 DEF RememberedOK
    <3>2. Commands(e)' = Commands(e)
      BY <2>2, <2>3, <2>5 DEF Commands
    <3>3. \A i \in Commands(e) : calls'[i].value = calls[i].value
      BY <2>3 DEF Commands
    <3> QED
      BY <1>e, <2>1, <3>1, <3>2, <3>3, Unaffected
  <2>6. CASE e = f
    <3>1. Commands(e)' = Commands(e) \cup {n + 1} /\ Commands(e) \subseteq 1 .. n
      BY <2>2, <2>3, <2>6 DEF Commands
    <3>2. Stored(e)' = Stored(e)
      BY <2>1 DEF Stored
    <3>3. CASE e \in unset
      <4>1. asked' = asked
        BY <2>1, <2>6, <3>3
      <4> QED
        BY <1>e, <2>1, <2>6, <3>2, <3>3, <4>1 DEF RememberedOf
    <3>4. CASE e \notin unset
      <4>1. asked'[e] = <<value>>
        BY <1>0, <1>e, <2>1, <2>6, <3>4 DEF RememberedOK
      <4>2. Commands(e) = {}
        BY <2>1, <2>6, <3>4
      <4>3. Commands(e)' = {n + 1} /\ calls'[n + 1].value = <<value>> /\ n + 1 \in DOMAIN calls'
        BY <2>2, <2>3, <3>1, <4>2
      <4>4. \E k \in DOMAIN calls' :
              Commands(e)' = {k} /\ asked'[e] = calls'[k].value
        BY <4>1, <4>3
      <4> QED
        BY <1>e, <2>1, <2>6, <3>2, <3>4, <4>3, <4>4 DEF RememberedOf
    <3> QED
      BY <3>3, <3>4
  <2> QED
    BY <2>5, <2>6
<1>5. ASSUME NEW f \in Setting, Broadcast(f) PROVE RememberedOf(e)'
  <2>1. UNCHANGED <<unset, calls, state, queued, flash, quiet, asked, kept>>
    BY <1>5 DEF Broadcast, entityVars
  <2>2. Commands(e)' = Commands(e)
    BY <2>1 DEF Commands
  <2> QED
    BY <1>e, <2>1, <2>2, Unaffected
<1>6. ASSUME NEW f \in Setting, Panel(f) PROVE RememberedOf(e)'
  <2>1. /\ UNCHANGED <<unset, calls, state, queued, flash, asked, kept>>
        /\ quiet' = quiet \ {f}
    BY <1>6 DEF Panel, entityVars
  <2>2. Commands(e)' = Commands(e)
    BY <2>1 DEF Commands
  <2> QED
    BY <1>e, <2>1, <2>2, Unaffected
<1>7. CASE Receive
  <2> DEFINE f == Head(rx)[1]
  <2>1. UNCHANGED <<unset, calls, queued, flash, asked, kept>> /\ quiet' = quiet \ {f}
    BY <1>7 DEF Receive, Entities!Reflect
  <2>2. state' = state \/ \E v : state' = [state EXCEPT ![f] = v]
    BY <1>7 DEF Receive, Entities!Reflect
  <2> HIDE DEF f
  <2>3. e # f => state'[e] = state[e]
    BY <1>0, <1>e, <2>2
  <2>4. Commands(e)' = Commands(e)
    BY <2>1 DEF Commands
  <2> QED
    BY <1>e, <2>1, <2>3, <2>4, Unaffected
<1>8. CASE Flush
  <2>1. /\ unset = {} /\ calls = <<>> /\ UNCHANGED <<unset, calls, state, quiet, asked>>
        /\ queued'[e] = <<>>
        /\ flash'[e] = IF queued[e] = <<>> THEN flash[e] ELSE queued[e]
        /\ kept' = asked
    BY <1>8 DEF Flush, Entities!Flush, Entities!ready
  <2>2. Commands(e) = {}
    BY <2>1 DEF Commands
  <2>3. Commands(e)' = Commands(e)
    BY <2>1 DEF Commands
  <2>4. Stored(e)' = Stored(e) /\ flash'[e] = Stored(e)
    BY <2>1 DEF Stored
  <2> QED
    BY <1>e, <2>1, <2>2, <2>3, <2>4 DEF RememberedOf
<1>9. CASE Reboot
  <2>1. /\ unset' = Setting /\ calls' = <<>> /\ queued'[e] = <<>>
        /\ UNCHANGED <<flash, kept>> /\ asked' = kept
    BY <1>9 DEF Reboot, Entities!Reboot, Setting
  <2>2. Commands(e)' = {}
    BY <2>1 DEF Commands
  <2>3. Stored(e)' = flash[e]
    BY <2>1 DEF Stored
  <2> QED
    BY <1>e, <2>1, <2>2, <2>3 DEF RememberedOf
<1> QED
  BY <1>1, <1>2, <1>3, <1>4, <1>5, <1>6, <1>7, <1>8, <1>9 DEF Next

(***************************************************************************)
(* The theorems.                                                           *)
(***************************************************************************)

\* The inductive invariant holds of every behaviour, without any fairness:
\* types, that all values on their way are sourced, that a failed round has cost
\* a loss, and that the last command is remembered.
THEOREM IInvariance == Spec => []IInv
<1>1. Init => IInv
  BY TypeInit, SourcedInit, RepairingInit, RememberedInit DEF IInv
<1>2. IInv /\ [Next]_vars => IInv'
  <2> SUFFICES ASSUME IInv, [Next]_vars PROVE IInv'
    OBVIOUS
  <2>1. CASE Next
    <3>1. TypeOK'
      BY <2>1, TypeStep DEF IInv
    <3> QED
      BY <2>1, <3>1, SourcedStep, RepairingStep, RememberedStep DEF IInv
  <2>2. CASE UNCHANGED vars
    <3>1. TypeOK' <=> TypeOK
      <4>1. Entities!TypeOK' <=> Entities!TypeOK
        BY <2>2 DEF vars, entityVars, Entities!TypeOK
      <4> QED
        BY <2>2, <4>1 DEF vars, entityVars, TypeOK
    <3>2. Sourced' <=> Sourced
      BY <2>2 DEF vars, entityVars, Sourced
    <3>3. Repairing' <=> Repairing
      BY <2>2 DEF vars, entityVars, Repairing
    <3>4. Remembered' <=> Remembered
      <4>1. \A e \in Entities!Persistent : Stored(e)' = Stored(e)
        BY <2>2 DEF vars, entityVars, Stored
      <4>2. \A e \in Entities!Persistent : Commands(e)' = Commands(e)
        BY <2>2 DEF vars, entityVars, Commands
      <4> QED
        BY <2>2, <4>1, <4>2 DEF vars, entityVars, Remembered
    <3> QED
      BY <3>1, <3>2, <3>3, <3>4 DEF IInv
  <2> QED
    BY <2>1, <2>2
<1> QED
  BY <1>1, <1>2, PTL DEF Spec

\* Every value the device ever holds was chosen for that very setting: no
\* handler, in whatever order, turns one option or one setting into another.
THEOREM NothingInventedHolds == Spec => []NothingInvented
<1>1. IInv => NothingInvented
  BY DEF IInv, Sourced, NothingInvented
<1> QED
  BY <1>1, IInvariance, PTL

\* A window with more rounds than transmissions are lost has repaired every
\* untouched setting when it closes.
LEMMA Repaired ==
  ASSUME MaxLosses < SYNC_REPEAT_COUNT, IInv
  PROVE  WindowRepairsLoss
<1> SUFFICES ASSUME ready, ~ armed, NEW e \in quiet
             PROVE  Wire(e, state[e]) \subseteq {device[e]}
  BY DEF WindowRepairsLoss
<1>1. unset = {} /\ e \in Setting
  BY DEF ready, Entities!ready, IInv, TypeOK
<1>2. sync_count_ = SYNC_REPEAT_COUNT
  BY <1>1 DEF IInv, Repairing
<1>3. spent.loss \in Int /\ spent.loss <= MaxLosses
  BY BoundsAssumption DEF IInv, TypeOK, Bound
<1>4. Wire(e, state[e]) \subseteq {device[e]} \/ spent.loss >= sync_count_
  BY <1>1 DEF IInv, Repairing
<1> QED
  BY <1>2, <1>3, <1>4, WindowAssumption, BoundsAssumption

\* The rebroadcast window of sync_iteration_() does what its comment claims, "in
\* case the MCU missed the per-entity boot transmit", for every number of rounds
\* that exceeds the number of transmissions with a loss.
THEOREM WindowRepairs ==
  ASSUME MaxLosses < SYNC_REPEAT_COUNT
  PROVE  Spec => []WindowRepairsLoss
<1>1. IInv => WindowRepairsLoss
  BY Repaired
<1> QED
  BY <1>1, IInvariance, PTL

\* Under the same condition the device returns, after a reboot, to the value of
\* the last command that had reached flash, for every entity that no automation
\* ever commanded within a command to it.
THEOREM RebootReturns ==
  ASSUME MaxLosses < SYNC_REPEAT_COUNT
  PROVE  Spec => []RebootReturnsCommand
<1>1. ASSUME IInv PROVE RebootReturnsCommand
  <2> SUFFICES ASSUME ready, ~ armed, NEW e \in (quiet \cap Entities!Persistent) \ overlapped,
                      asked[e] # <<>>
               PROVE  Wire(e, asked[e]) = {device[e]}
    BY DEF RebootReturnsCommand, ReturnsCommand
  <2>1. state[e] = asked[e] /\ e \in Setting
    BY <1>1, Kinds DEF IInv, Remembered, ready, Entities!ready
  <2>2. Wire(e, state[e]) \subseteq {device[e]}
    BY <1>1, Repaired DEF WindowRepairsLoss
  <2>3. Wire(e, asked[e]) # {}
    <3>1. Entities!Shows(e, asked[e])
      BY <1>1, <2>1 DEF IInv, TypeOK
    <3> QED
      BY <2>1, <3>1, Transmitted
  <2> QED
    BY <2>1, <2>2, <2>3
<1> QED
  BY <1>1, IInvariance, PTL
=============================================================================
