--------------------------- MODULE ControlProofs ---------------------------
(***************************************************************************)
(* What the BTS of a channel was told of a setting is so, or another       *)
(* thread has changed it since: for every number of channels and of        *)
(* timeslots, every set of commands and every filler, with answers lost    *)
(* and commands repeated, and with mRxFreq read again or not.              *)
(***************************************************************************)
EXTENDS Control, TLAPS

\* What is a function of the channel.
Doing ==
    /\ cmd = [c \in Chans |-> cmd[c]] /\ pending = [c \in Chans |-> pending[c]]
    /\ rsp = [c \in Chans |-> rsp[c]] /\ told = [c \in Chans |-> told[c]]
    /\ others = [c \in Chans |-> others[c]]

\* Setting k of channel c has the value v, unless another thread changed it.
Holds(c, k, v) == Setting(c, k) = v \/ <<k, Setting(c, k)>> \in others[c]

\* What a thread has done of its command.
Done(c) ==
    /\ pc[c] # "idle" => cmd[c] \in Commands[c] /\ pending[c] = cmd[c]
    /\ pc[c] = "clear" =>
        /\ cmd[c].name = "POWERON" /\ Holds(c, Key("on", 0, 0), TRUE)
        /\ \A n \in TNs, s \in SubSlots : n < step[c] => Holds(c, Key("handover", n, s), FALSE)
    /\ pc[c] = "tune" =>
        /\ cmd[c].name \in Dirs
        /\ \/ freq[cmd[c].name] = cmd[c].arg
           \/ <<Key(cmd[c].name, 0, 0), freq[cmd[c].name]>> \in others[c]
    /\ pc[c] = "answer" /\ rsp[c].ok =>
        \A k \in Sets(cmd[c]) : Holds(c, k, Says(cmd[c], rsp[c].val, k))

\* What the BTS knows, and that it knows nothing of what it asked for.
Knows(c) ==
    \A fact \in told[c] :
        /\ fact[1] \in Keys /\ Holds(c, fact[1], fact[2])
        /\ pending[c] # NULL => fact[1] \notin Sets(pending[c])

IInv == TypeOK /\ Doing /\ \A c \in Chans : Done(c) /\ Knows(c)
-----------------------------------------------------------------------------
(* The settings *)

LEMMA Updated ==
    ASSUME NEW S, NEW T, NEW f \in [S -> T], NEW s, NEW v \in T
    PROVE  [f EXCEPT ![s] = v] \in [S -> T]
OBVIOUS

LEMMA Moduli ==
    ASSUME NEW type \in Combinations
    PROVE  FillerModulusOf[type] \in {0, 26, 51, 52, 102}
BY DEF FillerModulusOf

\* A key is made of its fields.
LEMMA KeyOf ==
    ASSUME NEW k \in Keys
    PROVE  /\ k.of \in {"on", "handover", "slot", "modulus", "power", "gain"} \cup Globals \cup Dirs
           /\ k.of \in {"on", "power", "gain"} \cup Globals \cup Dirs => k = Key(k.of, 0, 0)
           /\ k.of \in {"slot", "modulus"} => k.ts \in TNs /\ k = Key(k.of, k.ts, 0)
           /\ k.of = "handover" =>
                k.ts \in TNs /\ k.ss \in SubSlots /\ k = Key("handover", k.ts, k.ss)
           /\ k \in Shared <=> k.of \in {"on", "handover"} \cup Globals
<1> USE DEF Key, Globals, Dirs
<1>1. CASE k \in Private
  <2>1. CASE k \in {Key(of, n, 0) : of \in {"slot", "modulus"}, n \in TNs} BY <2>1 DEF Shared, Handovers
  <2>2. CASE k \in {Key(of, 0, 0) : of \in Dirs \cup {"power", "gain"}} BY <2>2 DEF Shared, Handovers
  <2> QED BY <1>1, <2>1, <2>2 DEF Private
<1>2. CASE k \in Shared
  <2>1. CASE k \in Handovers BY <1>2, <2>1 DEF Handovers
  <2>2. CASE k \in {Key(of, 0, 0) : of \in Globals \cup {"on"}} BY <1>2, <2>2
  <2> QED BY <1>2, <2>1, <2>2 DEF Shared
<1> QED BY <1>1, <1>2 DEF Keys

LEMMA KeyIn ==
    /\ \A of \in {"on", "power", "gain"} \cup Globals \cup Dirs : Key(of, 0, 0) \in Keys
    /\ \A of \in {"slot", "modulus"}, n \in TNs : Key(of, n, 0) \in Keys
    /\ \A n \in TNs, s \in SubSlots : Key("handover", n, s) \in Handovers
    /\ Handovers \subseteq Keys /\ Handovers \subseteq Shared
BY DEF Keys, Private, Shared, Handovers

LEMMA SetsKeys ==
    ASSUME NEW m
    PROVE  Sets(m) \subseteq Keys
<1>1. CASE Refused(m) BY <1>1 DEF Sets
<1>2. CASE ~Refused(m)
  <2>1. CASE m.name \in Globals \cup Dirs BY <1>2, <2>1, KeyIn DEF Sets, Globals, Dirs
  <2>2. CASE m.name \in {"HANDOVER", "NOHANDOVER"}
    BY <1>2, <2>2, KeyIn DEF Sets, Refused, Globals, Dirs
  <2>3. CASE m.name \in {"SETPOWER", "ADJPOWER", "SETRXGAIN", "POWEROFF", "POWERON"}
    BY <1>2, <2>3, KeyIn DEF Sets, Globals, Dirs
  <2>4. CASE m.name = "SETSLOT"
    BY <1>2, <2>4, KeyIn DEF Sets, Refused, Globals, Dirs
  <2> QED BY <1>2, <2>1, <2>2, <2>3, <2>4 DEF Sets
<1> QED BY <1>1, <1>2
-----------------------------------------------------------------------------
(* What a step does to the settings and to the other threads *)

\* A setting is as it was, or another thread has changed it.
Kept(c, k) ==
    /\ \A v : <<k, v>> \in others[c] => <<k, v>> \in others'[c]
    /\ Setting(c, k)' = Setting(c, k) \/ <<k, Setting(c, k)'>> \in others'[c]

\* Holds, in the next state, of a value in this one.
WillHold(c, k, v) == Setting(c, k)' = v \/ <<k, Setting(c, k)'>> \in others'[c]

LEMMA KeptHolds ==
    ASSUME NEW c, NEW k, NEW v, Kept(c, k), Holds(c, k, v)
    PROVE  WillHold(c, k, v)
BY DEF Kept, Holds, WillHold

\* Thread d does nothing.
Still(d) ==
    /\ pc'[d] = pc[d] /\ cmd'[d] = cmd[d] /\ rsp'[d] = rsp[d] /\ step'[d] = step[d]
    /\ pending'[d] = pending[d] /\ told'[d] = told[d]

\* The frequency that thread d is about to pass on is as it was, or exposed.
FreqKept(d) ==
    pc[d] = "tune" =>
        \/ freq'[cmd[d].name] = freq[cmd[d].name]
        \/ <<Key(cmd[d].name, 0, 0), freq'[cmd[d].name]>> \in others'[d]

LEMMA OthersKept ==
    ASSUME NEW d \in Chans, Still(d), Done(d), Knows(d),
           \A k \in Keys : Kept(d, k), FreqKept(d)
    PROVE  Done(d)' /\ Knows(d)'
<1>1. \A k \in Keys : \A v : Holds(d, k, v) => WillHold(d, k, v) BY KeptHolds
<1>2. /\ pc'[d] = pc[d] /\ cmd'[d] = cmd[d] /\ rsp'[d] = rsp[d] /\ step'[d] = step[d]
      /\ pending'[d] = pending[d] /\ told'[d] = told[d]
  BY DEF Still
<1>3. Knows(d)'
  <2> SUFFICES ASSUME NEW fact \in told[d]
               PROVE  /\ fact[1] \in Keys /\ WillHold(d, fact[1], fact[2])
                      /\ pending[d] # NULL => fact[1] \notin Sets(pending[d])
    BY <1>2 DEF Knows, Holds, WillHold
  <2> QED BY <1>1 DEF Knows
<1>4. pc[d] = "clear" =>
        /\ cmd[d].name = "POWERON" /\ WillHold(d, Key("on", 0, 0), TRUE)
        /\ \A n \in TNs, s \in SubSlots : n < step[d] => WillHold(d, Key("handover", n, s), FALSE)
  BY <1>1, KeyIn DEF Done
<1>5. pc[d] = "tune" =>
        \/ freq'[cmd[d].name] = cmd[d].arg
        \/ <<Key(cmd[d].name, 0, 0), freq'[cmd[d].name]>> \in others'[d]
  <2> SUFFICES ASSUME pc[d] = "tune"
               PROVE  \/ freq'[cmd[d].name] = cmd[d].arg
                      \/ <<Key(cmd[d].name, 0, 0), freq'[cmd[d].name]>> \in others'[d]
    OBVIOUS
  <2>1. cmd[d].name \in Dirs BY DEF Done
  <2>2. Kept(d, Key(cmd[d].name, 0, 0)) BY <2>1, KeyIn
  <2> QED BY <2>2 DEF Done, Kept, FreqKept
<1>6. pc[d] = "answer" /\ rsp[d].ok =>
        \A k \in Sets(cmd[d]) : WillHold(d, k, Says(cmd[d], rsp[d].val, k))
  <2> SUFFICES ASSUME pc[d] = "answer", rsp[d].ok, NEW k \in Sets(cmd[d])
               PROVE  WillHold(d, k, Says(cmd[d], rsp[d].val, k))
    OBVIOUS
  <2>1. Holds(d, k, Says(cmd[d], rsp[d].val, k)) BY DEF Done
  <2> QED BY <1>1, <2>1, SetsKeys
<1>7. /\ pc[d] # "idle" => cmd[d] \in Commands[d] /\ pending[d] = cmd[d]
      /\ pc[d] = "tune" => cmd[d].name \in Dirs
  BY DEF Done
<1>8. Done(d)' BY <1>2, <1>4, <1>5, <1>6, <1>7 DEF Done, Holds, WillHold
<1> QED BY <1>3, <1>8

\* What Writes does to the others' facts.
LEMMA WritesTo ==
    ASSUME Doing, NEW c \in Chans, NEW ks, NEW w, Writes(c, ks, w)
    PROVE  /\ others' = [d \in Chans |-> others'[d]]
           /\ \A k, v : k \notin ks /\ <<k, v>> \in others[c] => <<k, v>> \in others'[c]
           /\ \A d \in Chans \ {c} :
                /\ \A k, v : <<k, v>> \in others[d] => <<k, v>> \in others'[d]
                /\ \A k \in ks : Exposed(d, k) => <<k, w>> \in others'[d]
<1>1. others' = [d \in Chans |->
        IF d = c THEN {fact \in others[c] : fact[1] \notin ks}
        ELSE others[d] \cup {<<k, w>> : k \in {k \in ks : Exposed(d, k)}}]
  BY DEF Writes
<1>2. others' = [d \in Chans |-> others'[d]] BY <1>1
<1>3. others'[c] = {fact \in others[c] : fact[1] \notin ks} BY <1>1
<1>4. ASSUME NEW d \in Chans \ {c}
      PROVE  others'[d] = others[d] \cup {<<k, w>> : k \in {k \in ks : Exposed(d, k)}}
  BY <1>1
<1>5. ASSUME NEW k, NEW v, k \notin ks, <<k, v>> \in others[c] PROVE <<k, v>> \in others'[c]
  BY <1>3, <1>5
<1> QED BY <1>2, <1>4, <1>5

\* A thread writes ks, all of it shared or none. Others' settings are kept.
LEMMA WritesKept ==
    ASSUME Doing, NEW c \in Chans, NEW ks, NEW w, Writes(c, ks, w),
           \A d \in Chans \ {c} : \A k \in Keys :
                \/ Setting(d, k)' = Setting(d, k)
                \/ k \in ks /\ k \in Shared /\ Setting(d, k)' = w,
           \A k \in Keys \ ks : Setting(c, k)' = Setting(c, k)
    PROVE  /\ \A d \in Chans \ {c} : \A k \in Keys : Kept(d, k)
           /\ \A k \in Keys \ ks : Kept(c, k)
BY WritesTo DEF Kept, Exposed

LEMMA NothingKept ==
    ASSUME UNCHANGED others, NEW d \in Chans, NEW k, Setting(d, k)' = Setting(d, k)
    PROVE  Kept(d, k)
BY DEF Kept
-----------------------------------------------------------------------------
(* How a thread moves *)

CallTyped ==
    /\ pc \in [Chans -> {"idle", "run", "clear", "tune", "answer"}]
    /\ \A c \in Chans : {cmd[c], pending[c]} \subseteq Commands[c] \cup {NULL}
    /\ step \in [Chans -> Nat] /\ sent \in 0 .. MaxSent /\ lost \in 0 .. MaxLost

\* The members of the transceiver and of its states, and the device.
Members ==
    /\ mOn \in BOOLEAN
    /\ mHandover \in [TNs -> [SubSlots -> BOOLEAN]]
    /\ global \in [Globals -> Int] /\ freq \in [Dirs -> Int]
    /\ chanType \in [Chans -> [TNs -> Combinations]]
    /\ fillerModulus \in [Chans -> [TNs -> {26, 51, 52, 102}]]
    /\ mPower \in [Chans -> Nat] /\ gain \in [Chans -> Int]
    /\ tuned \in [Chans -> [Dirs -> Int]]
    /\ ready \subseteq Chans

Threads == CallTyped /\ Doing /\ \A c \in Chans : Done(c) /\ Knows(c)

LEMMA Parts == IInv <=> Threads /\ Members
BY DEF IInv, TypeOK, Threads, CallTyped, Members

\* Of a thread's step, what the others and what the channel's BTS know of.
Local(c) ==
    /\ others' = [d \in Chans |-> others'[d]]
    /\ step' \in [Chans -> Nat] /\ \A d \in Chans \ {c} : step'[d] = step[d]
    /\ \A d \in Chans \ {c} : FreqKept(d) /\ \A k \in Keys : Kept(d, k)
    /\ \A k \in Keys \ Sets(cmd[c]) : Kept(c, k)

LEMMA StillKnows ==
    ASSUME NEW c \in Chans, Knows(c), pending[c] # NULL, pending[c] = cmd[c],
           told'[c] = told[c], pending'[c] = pending[c],
           \A k \in Keys \ Sets(cmd[c]) : Kept(c, k)
    PROVE  Knows(c)'
<1> SUFFICES ASSUME NEW fact \in told[c]
             PROVE  /\ fact[1] \in Keys /\ WillHold(c, fact[1], fact[2])
                    /\ pending[c] # NULL => fact[1] \notin Sets(pending[c])
  BY DEF Knows, Holds, WillHold
<1>1. fact[1] \in Keys \ Sets(cmd[c]) /\ Holds(c, fact[1], fact[2]) BY DEF Knows
<1> QED BY <1>1, KeptHolds

\* A thread goes on from p to q with the same command.
LEMMA Moves ==
    ASSUME Threads, NEW c \in Chans, pc[c] # "idle",
           NEW q \in {"clear", "tune", "answer"}, pc' = [pc EXCEPT ![c] = q],
           UNCHANGED <<cmd, pending, sent, lost, told>>,
           NEW r, rsp' = rsp \/ rsp' = [rsp EXCEPT ![c] = r],
           Local(c), Done(c)'
    PROVE  Threads'
<1>1. CallTyped /\ Doing /\ \A d \in Chans : Done(d) /\ Knows(d) BY DEF Threads
<1>2. \A d \in Chans \ {c} : Still(d) BY <1>1 DEF Still, Local, CallTyped, Doing
<1>3. pending[c] # NULL /\ pending[c] = cmd[c]
  BY <1>1, ControlAssumption DEF Done
<1>4. Knows(c)' BY <1>1, <1>3, StillKnows DEF Local
<1>5. ASSUME NEW d \in Chans \ {c} PROVE Done(d)' /\ Knows(d)'
  BY <1>1, <1>2, OthersKept DEF Local
<1>6. CallTyped' BY <1>1 DEF CallTyped, Local
<1>7. Doing' BY <1>1 DEF Doing, Local
<1> QED BY <1>4, <1>5, <1>6, <1>7 DEF Threads

LEMMA Responds ==
    ASSUME Threads, NEW c \in Chans, pc[c] # "idle",
           NEW name, NEW ok, NEW val, Respond(c, name, ok, val), Local(c),
           ok => \A k \in Sets(cmd[c]) : WillHold(c, k, Says(cmd[c], val, k))
    PROVE  Threads'
<1> DEFINE r == [name |-> name, ok |-> ok, val |-> val]
<1>1. /\ pc' = [pc EXCEPT ![c] = "answer"] /\ rsp' = [rsp EXCEPT ![c] = r]
      /\ UNCHANGED <<cmd, pending, sent, lost, told>>
  BY DEF Respond, bts
<1>2. pc'[c] = "answer" /\ rsp'[c] = r /\ cmd'[c] = cmd[c] /\ pending'[c] = pending[c]
  BY <1>1 DEF Threads, CallTyped, Doing
<1>3. cmd[c] \in Commands[c] /\ pending[c] = cmd[c] BY DEF Threads, Done
<1>4. Done(c)' BY <1>2, <1>3 DEF Done, Holds, WillHold
<1> QED BY <1>1, <1>4, Moves

\* The thread is idle again, without a response.
LEMMA Returns ==
    ASSUME Threads, NEW c \in Chans, NoAnswer(c), step' = step, Local(c),
           \A k \in Keys : Kept(c, k)
    PROVE  Threads'
<1>1. CallTyped /\ Doing /\ \A d \in Chans : Done(d) /\ Knows(d) BY DEF Threads
<1>2. /\ pc' = [pc EXCEPT ![c] = "idle"] /\ cmd' = [cmd EXCEPT ![c] = NULL]
      /\ UNCHANGED <<rsp, pending, sent, lost, told>>
  BY DEF NoAnswer, bts
<1>3. \A d \in Chans \ {c} : Still(d) BY <1>1, <1>2 DEF Still, CallTyped, Doing
<1>4. ASSUME NEW d \in Chans \ {c} PROVE Done(d)' /\ Knows(d)'
  BY <1>1, <1>3, OthersKept DEF Local
<1>5. pc'[c] = "idle" BY <1>1, <1>2 DEF CallTyped
<1>6. Done(c)' BY <1>5 DEF Done
<1>7. Knows(c)'
  <2> SUFFICES ASSUME NEW fact \in told[c]
               PROVE  /\ fact[1] \in Keys /\ WillHold(c, fact[1], fact[2])
                      /\ pending[c] # NULL => fact[1] \notin Sets(pending[c])
    BY <1>2 DEF Knows, Holds, WillHold
  <2> QED BY <1>1, KeptHolds DEF Knows
<1>8. CallTyped' BY <1>1, <1>2 DEF CallTyped
<1>9. Doing' BY <1>1, <1>2 DEF Doing, Local
<1> QED BY <1>4, <1>6, <1>7, <1>8, <1>9 DEF Threads
-----------------------------------------------------------------------------
(* The steps of the BTS and of the main thread *)

LEMMA InitIInv == Init => IInv
<1> SUFFICES ASSUME Init PROVE IInv OBVIOUS
<1> USE DEF Init
<1>1. CallTyped
  <2>1. lost \in 0 .. MaxLost /\ sent \in 0 .. MaxSent BY ControlAssumption
  <2> QED BY <2>1 DEF CallTyped
<1>2. Doing BY DEF Doing
<1>3. \A c \in Chans : Done(c) /\ Knows(c) BY DEF Done, Knows
<1>4. Members
  <2>1. chanType \in [Chans -> [TNs -> Combinations]] BY DEF Combinations
  <2>2. mOn \in BOOLEAN /\ mHandover \in [TNs -> [SubSlots -> BOOLEAN]] /\ ready \subseteq Chans
    OBVIOUS
  <2>4. /\ global \in [Globals -> Int] /\ freq \in [Dirs -> Int]
        /\ fillerModulus \in [Chans -> [TNs -> {26, 51, 52, 102}]]
    OBVIOUS
  <2>3. mPower \in [Chans -> Nat] /\ gain \in [Chans -> Int] /\ tuned \in [Chans -> [Dirs -> Int]]
    OBVIOUS
  <2> QED BY <2>1, <2>2, <2>3, <2>4 DEF Members
<1> QED BY <1>1, <1>2, <1>3, <1>4, Parts DEF Threads

\* A setting depends on these variables alone.
LEMMA SettingSame ==
    ASSUME UNCHANGED <<mOn, mHandover, global, chanVars>>, NEW c, NEW k
    PROVE  Setting(c, k)' = Setting(c, k)
BY DEF Setting, chanVars

LEMMA NoThreadMoves ==
    ASSUME Threads, UNCHANGED <<pc, cmd, rsp, step, bts>>, others' = [d \in Chans |-> others'[d]],
           \A d \in Chans : FreqKept(d) /\ \A k \in Keys : Kept(d, k)
    PROVE  Threads'
<1>1. CallTyped /\ Doing /\ \A d \in Chans : Done(d) /\ Knows(d) BY DEF Threads
<1>2. \A d \in Chans : Still(d) BY DEF Still, bts
<1>3. \A d \in Chans : Done(d)' /\ Knows(d)' BY <1>1, <1>2, OthersKept
<1>4. CallTyped' /\ Doing' BY <1>1 DEF CallTyped, Doing, bts
<1> QED BY <1>3, <1>4 DEF Threads

LEMMA InitStateIInv ==
    ASSUME IInv, NEW c \in Chans, InitState(c)
    PROVE  IInv'
<1>1. Threads /\ Members BY Parts
<1>2. /\ UNCHANGED <<mOn, mHandover, global, freq, fillerModulus, mPower, tuned, gain>>
      /\ UNCHANGED <<pc, cmd, rsp, step, bts>>
      /\ ready' = ready \cup {c}
  BY DEF InitState, shared
<1>3. CASE UNCHANGED <<chanType, others>>
  <2>1. \A d \in Chans, k \in Keys : Setting(d, k)' = Setting(d, k)
    BY <1>2, <1>3, SettingSame DEF chanVars
  <2>2. \A d \in Chans : FreqKept(d) /\ \A k \in Keys : Kept(d, k)
    BY <1>2, <1>3, <2>1, NothingKept DEF FreqKept
  <2>3. others' = [d \in Chans |-> others'[d]] BY <1>1, <1>3 DEF Threads, Doing
  <2>4. Threads' BY <1>1, <1>2, <2>2, <2>3, NoThreadMoves
  <2>5. Members' BY <1>1, <1>2, <1>3 DEF Members
  <2> QED BY <2>4, <2>5 DEF IInv, TypeOK, Threads, CallTyped, Members
<1>4. CASE /\ chanType' = [chanType EXCEPT ![c] = [n \in TNs |-> "I"]]
           /\ others' = [others EXCEPT ![c] =
                 others[c] \cup {<<Key("slot", n, 0), "I">> : n \in TNs}]
  <2>1. chanType' \in [Chans -> [TNs -> Combinations]]
    BY <1>1, <1>4 DEF Members, Combinations
  <2>2. others' = [d \in Chans |-> others'[d]] BY <1>1, <1>4 DEF Threads, Doing
  <2>3. /\ \A d \in Chans : others[d] \subseteq others'[d]
        /\ \A n \in TNs : <<Key("slot", n, 0), "I">> \in others'[c]
    BY <1>1, <1>4 DEF Threads, Doing
  <2>4. ASSUME NEW d \in Chans, NEW k \in Keys PROVE Kept(d, k)
    <3>1. CASE d = c /\ k.of = "slot"
      <4>1. k.ts \in TNs /\ k = Key("slot", k.ts, 0) BY <3>1, KeyOf
      <4>2. Setting(d, k)' = "I"
        BY <1>1, <1>4, <3>1, <4>1 DEF Setting, Members, Globals, Dirs
      <4> QED BY <2>3, <3>1, <4>1, <4>2 DEF Kept
    <3>2. CASE ~(d = c /\ k.of = "slot")
      <4>1. d # c => chanType'[d] = chanType[d] BY <1>1, <1>4 DEF Members
      <4>2. Setting(d, k)' = Setting(d, k)
        BY <1>2, <3>2, <4>1, KeyOf DEF Setting, Globals, Dirs
      <4> QED BY <2>3, <4>2 DEF Kept
    <3> QED BY <3>1, <3>2
  <2>5. \A d \in Chans : FreqKept(d) BY <1>2 DEF FreqKept
  <2>6. Threads' BY <1>1, <1>2, <2>2, <2>4, <2>5, NoThreadMoves
  <2>7. Members' BY <1>1, <1>2, <2>1 DEF Members
  <2> QED BY <2>6, <2>7 DEF IInv, TypeOK, Threads, CallTyped, Members
<1> QED BY <1>3, <1>4 DEF InitState

\* Steps that change no setting and no fact.
LEMMA AllKept ==
    ASSUME Threads, UNCHANGED <<shared, chanVars, others, step>>
    PROVE  /\ \A d \in Chans : FreqKept(d) /\ \A k \in Keys : Kept(d, k)
           /\ \A c \in Chans : Local(c)
<1>1. \A d \in Chans, k \in Keys : Setting(d, k)' = Setting(d, k)
  BY SettingSame DEF shared
<1>2. \A d \in Chans : FreqKept(d) /\ \A k \in Keys : Kept(d, k)
  BY <1>1, NothingKept DEF FreqKept, shared
<1>3. others' = [d \in Chans |-> others'[d]] /\ step' \in [Chans -> Nat]
  BY DEF Threads, Doing, CallTyped
<1> QED BY <1>2, <1>3 DEF Local

LEMMA ReceiveIInv ==
    ASSUME IInv, NEW c \in Chans, Receive(c)
    PROVE  IInv'
<1>1. Threads /\ Members BY Parts
<1>2. CallTyped /\ Doing /\ \A d \in Chans : Done(d) /\ Knows(d) BY <1>1 DEF Threads
<1>3. PICK m \in Commands[c] :
        /\ cmd' = [cmd EXCEPT ![c] = m]
        /\ \/ pending[c] = m /\ UNCHANGED bts
           \/ /\ pending[c] = NULL /\ pending' = [pending EXCEPT ![c] = m]
              /\ Sets(m) # {} => sent < MaxSent
              /\ sent' = IF Sets(m) = {} THEN sent ELSE sent + 1
              /\ told' = [told EXCEPT ![c] = {fact \in told[c] : fact[1] \notin Sets(m)}]
              /\ UNCHANGED lost
  BY DEF Receive
<1>4. /\ pc[c] = "idle" /\ pc' = [pc EXCEPT ![c] = "run"]
      /\ UNCHANGED <<shared, chanVars, ready, step, rsp, others>>
  BY DEF Receive
<1>5. \A d \in Chans : FreqKept(d) /\ \A k \in Keys : Kept(d, k) BY <1>1, <1>4, AllKept
<1>6. /\ pc'[c] = "run" /\ cmd'[c] = m /\ pending'[c] = m
      /\ \A d \in Chans \ {c} : Still(d)
  BY <1>2, <1>3, <1>4 DEF CallTyped, Doing, Still, bts
<1>7. \A d \in Chans \ {c} : Done(d)' /\ Knows(d)' BY <1>2, <1>5, <1>6, OthersKept
<1>8. Done(c)' BY <1>6 DEF Done
<1>9. Knows(c)'
  <2>1. /\ \A fact \in told'[c] : fact \in told[c] /\ fact[1] \notin Sets(m)
    <3>1. CASE pending[c] = m /\ UNCHANGED bts
      <4>1. m # NULL BY ControlAssumption
      <4> QED BY <1>2, <3>1, <4>1 DEF Knows, bts
    <3>2. CASE told' = [told EXCEPT ![c] = {fact \in told[c] : fact[1] \notin Sets(m)}]
      <4>1. told'[c] = {fact \in told[c] : fact[1] \notin Sets(m)} BY <1>2, <3>2 DEF Doing
      <4> QED BY <4>1
    <3> QED BY <1>3, <3>1, <3>2
  <2> SUFFICES ASSUME NEW fact \in told'[c]
               PROVE  fact[1] \in Keys /\ WillHold(c, fact[1], fact[2]) /\ fact[1] \notin Sets(m)
    BY <1>6 DEF Knows, Holds, WillHold
  <2>2. fact \in told[c] /\ fact[1] \notin Sets(m) BY <2>1
  <2>3. fact[1] \in Keys /\ Holds(c, fact[1], fact[2]) BY <1>2, <2>2 DEF Knows
  <2> QED BY <1>5, <2>2, <2>3, KeptHolds
<1>10. CallTyped'
  <2>1. lost' \in 0 .. MaxLost BY <1>2, <1>3 DEF CallTyped, bts
  <2>2. sent' \in 0 .. MaxSent
    <3>1. CASE UNCHANGED bts BY <1>2, <3>1 DEF CallTyped, bts
    <3>2. CASE sent < MaxSent /\ sent' = sent + 1 BY <1>2, <3>2, ControlAssumption DEF CallTyped
    <3>3. CASE sent' = sent BY <1>2, <3>3 DEF CallTyped
    <3> QED BY <1>3, <3>1, <3>2, <3>3
  <2>3. \A d \in Chans : {cmd'[d], pending'[d]} \subseteq Commands[d] \cup {NULL}
    BY <1>2, <1>6 DEF CallTyped, Still
  <2> QED BY <1>2, <1>4, <2>1, <2>2, <2>3 DEF CallTyped
<1>11. Doing' BY <1>2, <1>3, <1>4 DEF Doing, bts
<1>12. Threads' BY <1>7, <1>8, <1>9, <1>10, <1>11 DEF Threads
<1>13. Members' BY <1>1, <1>4 DEF Members, shared, chanVars
<1> QED BY <1>12, <1>13 DEF IInv, TypeOK, Threads, CallTyped, Members

LEMMA AnswerIInv ==
    ASSUME IInv, NEW c \in Chans, Answer(c)
    PROVE  IInv'
<1>1. Threads /\ Members BY Parts
<1>2. CallTyped /\ Doing /\ \A d \in Chans : Done(d) /\ Knows(d) BY <1>1 DEF Threads
<1>3. /\ pc[c] = "answer" /\ pc' = [pc EXCEPT ![c] = "idle"] /\ cmd' = [cmd EXCEPT ![c] = NULL]
      /\ rsp' = [rsp EXCEPT ![c] = NULL]
      /\ UNCHANGED <<shared, chanVars, ready, step, sent, others>>
      /\ \/ /\ pending' = [pending EXCEPT ![c] = NULL]
            /\ told' = [told EXCEPT ![c] = told[c] \cup Answered(pending[c], rsp[c])]
         \/ UNCHANGED <<pending, told>>
      /\ lost' = lost \/ (lost < MaxLost /\ lost' = lost + 1)
  BY DEF Answer
<1>4. \A d \in Chans : FreqKept(d) /\ \A k \in Keys : Kept(d, k) BY <1>1, <1>3, AllKept
<1>5. \A d \in Chans \ {c} : Still(d) BY <1>2, <1>3 DEF CallTyped, Doing, Still
<1>6. \A d \in Chans \ {c} : Done(d)' /\ Knows(d)' BY <1>2, <1>4, <1>5, OthersKept
<1>7. pc'[c] = "idle" BY <1>2, <1>3 DEF CallTyped
<1>8. Done(c)' BY <1>7 DEF Done
<1>9. Knows(c)'
  <2>1. CASE UNCHANGED <<pending, told>>
    <3> SUFFICES ASSUME NEW fact \in told[c]
                 PROVE  /\ fact[1] \in Keys /\ WillHold(c, fact[1], fact[2])
                        /\ pending[c] # NULL => fact[1] \notin Sets(pending[c])
      BY <2>1 DEF Knows, Holds, WillHold
    <3> QED BY <1>2, <1>4, KeptHolds DEF Knows
  <2>2. CASE /\ pending' = [pending EXCEPT ![c] = NULL]
             /\ told' = [told EXCEPT ![c] = told[c] \cup Answered(pending[c], rsp[c])]
    <3>1. pending'[c] = NULL /\ told'[c] = told[c] \cup Answered(pending[c], rsp[c])
      BY <1>2, <2>2 DEF Doing
    <3> SUFFICES ASSUME NEW fact \in told'[c]
                 PROVE  fact[1] \in Keys /\ WillHold(c, fact[1], fact[2])
      BY <3>1 DEF Knows, Holds, WillHold
    <3>2. CASE fact \in told[c] BY <1>2, <1>4, <3>2, KeptHolds DEF Knows
    <3>3. CASE fact \in Answered(pending[c], rsp[c])
      <4>1. pending[c] = cmd[c] BY <1>2, <1>3 DEF Done
      <4>2. PICK k \in Sets(cmd[c]) : rsp[c].ok /\ fact = <<k, Says(cmd[c], rsp[c].val, k)>>
        BY <3>3, <4>1 DEF Answered
      <4>3. Holds(c, k, Says(cmd[c], rsp[c].val, k)) BY <1>2, <1>3, <4>2 DEF Done
      <4>4. k \in Keys BY SetsKeys
      <4>5. WillHold(c, k, Says(cmd[c], rsp[c].val, k)) BY <1>4, <4>3, <4>4, KeptHolds
      <4> QED BY <4>2, <4>4, <4>5
    <3> QED BY <3>1, <3>2, <3>3
  <2> QED BY <1>3, <2>1, <2>2
<1>10. CallTyped'
  <2>1. lost' \in 0 .. MaxLost BY <1>2, <1>3, ControlAssumption DEF CallTyped
  <2>2. \A d \in Chans : {cmd'[d], pending'[d]} \subseteq Commands[d] \cup {NULL}
    BY <1>2, <1>3 DEF CallTyped, Doing
  <2> QED BY <1>2, <1>3, <2>1, <2>2 DEF CallTyped
<1>11. Doing' BY <1>2, <1>3 DEF Doing
<1>12. Threads' BY <1>6, <1>8, <1>9, <1>10, <1>11 DEF Threads
<1>13. Members' BY <1>1, <1>3 DEF Members, shared, chanVars
<1> QED BY <1>12, <1>13 DEF IInv, TypeOK, Threads, CallTyped, Members
-----------------------------------------------------------------------------
(* driveControl *)

\* A thread's command, by its name.
LEMMA CommandOf ==
    ASSUME Threads, NEW c \in Chans, pc[c] # "idle"
    PROVE  /\ cmd[c] \in Commands[c]
           /\ cmd[c].name \in Globals \cup Dirs \cup {"SETRXGAIN", "SETPOWER", "ADJPOWER"} =>
                cmd[c].arg \in Int
           /\ cmd[c].name = "SETSLOT" => cmd[c].arg \in Combinations
BY CommandAssumption DEF Threads, Done

\* Where a setting is kept, now and after a step.
LEMMA SettingAt ==
    ASSUME NEW c, NEW k \in Keys
    PROVE  /\ k.of = "on" => Setting(c, k) = mOn /\ Setting(c, k)' = mOn'
           /\ k.of = "handover" => /\ Setting(c, k) = mHandover[k.ts][k.ss]
                                   /\ Setting(c, k)' = mHandover'[k.ts][k.ss]
           /\ k.of \in Globals => Setting(c, k) = global[k.of] /\ Setting(c, k)' = global'[k.of]
           /\ k.of = "slot" => /\ Setting(c, k) = chanType[c][k.ts]
                               /\ Setting(c, k)' = chanType'[c][k.ts]
           /\ k.of = "modulus" => /\ Setting(c, k) = fillerModulus[c][k.ts]
                                  /\ Setting(c, k)' = fillerModulus'[c][k.ts]
           /\ k.of \in Dirs => Setting(c, k) = tuned[c][k.of] /\ Setting(c, k)' = tuned'[c][k.of]
           /\ k.of = "power" => Setting(c, k) = mPower[c] /\ Setting(c, k)' = mPower'[c]
           /\ k.of = "gain" => Setting(c, k) = gain[c] /\ Setting(c, k)' = gain'[c]
BY DEF Setting, Globals, Dirs

\* The other threads' frequencies are as they were.
LEMMA FreqSame ==
    ASSUME freq' = freq, NEW d
    PROVE  FreqKept(d)
BY DEF FreqKept

\* A command sets what Sets says, and its answer says what it has set.
LEMMA Commanded ==
    ASSUME Threads, NEW c \in Chans, pc[c] # "idle",
           NEW name, NEW val, NEW v, Respond(c, name, TRUE, val), Writes(c, Sets(cmd[c]), v),
           freq' = freq, step' = step,
           \A d \in Chans \ {c} : \A k \in Keys :
                \/ Setting(d, k)' = Setting(d, k)
                \/ k \in Sets(cmd[c]) /\ k \in Shared /\ Setting(d, k)' = v,
           \A k \in Keys \ Sets(cmd[c]) : Setting(c, k)' = Setting(c, k),
           \A k \in Sets(cmd[c]) : Setting(c, k)' = Says(cmd[c], val, k)
    PROVE  Threads'
<1>1. /\ \A d \in Chans \ {c} : \A k \in Keys : Kept(d, k)
      /\ \A k \in Keys \ Sets(cmd[c]) : Kept(c, k)
  BY WritesKept DEF Threads
<1>2. others' = [d \in Chans |-> others'[d]] BY WritesTo DEF Threads
<1>3. Local(c) BY <1>1, <1>2, FreqSame DEF Local, Threads, CallTyped
<1>4. \A k \in Sets(cmd[c]) : WillHold(c, k, Says(cmd[c], val, k)) BY DEF WillHold
<1> QED BY <1>3, <1>4, Responds

\* A command is refused, or asks only.
LEMMA Refuses ==
    ASSUME Threads, NEW c \in Chans, pc[c] # "idle",
           NEW name, NEW ok, NEW val, Respond(c, name, ok, val), ok => Sets(cmd[c]) = {},
           UNCHANGED <<shared, chanVars, step, others>>
    PROVE  Threads'
BY AllKept, Responds

LEMMA PowerOffIInv ==
    ASSUME IInv, NEW c \in Chans, POWEROFF(c)
    PROVE  IInv'
<1>1. Threads /\ Members BY Parts
<1>2. /\ pc[c] # "idle" /\ cmd[c].name = "POWEROFF" /\ mOn' = FALSE
      /\ Writes(c, Sets(cmd[c]), FALSE) /\ Respond(c, "POWEROFF", TRUE, NULL)
      /\ UNCHANGED <<mHandover, global, freq, chanVars, step>>
  BY DEF POWEROFF, Runs
<1>3. Sets(cmd[c]) = {Key("on", 0, 0)} BY <1>2 DEF Sets, Refused, Globals, Dirs
<1>4. ASSUME NEW d \in Chans, NEW k \in Keys
      PROVE  Setting(d, k)' = IF k = Key("on", 0, 0) THEN FALSE ELSE Setting(d, k)
  <2>1. CASE k.of = "on" BY <1>2, <2>1, KeyOf, SettingAt
  <2>2. CASE k.of # "on"
    <3>1. k # Key("on", 0, 0) BY <2>2 DEF Key
    <3> QED BY <1>2, <2>2, <3>1, KeyOf, SettingAt DEF chanVars
  <2> QED BY <2>1, <2>2
<1>5. Key("on", 0, 0) \in Keys /\ Key("on", 0, 0) \in Shared
  BY KeyIn, KeyOf DEF Shared
<1>6. Says(cmd[c], NULL, Key("on", 0, 0)) = FALSE BY <1>2 DEF Says, Key
<1>7. Threads' BY <1>1, <1>2, <1>3, <1>4, <1>5, <1>6, Commanded
<1>8. Members' BY <1>1, <1>2 DEF Members, chanVars, Respond
<1> QED BY <1>7, <1>8 DEF IInv, TypeOK, Threads, CallTyped, Members

LEMMA PowerOnIInv ==
    ASSUME IInv, NEW c \in Chans, POWERON(c)
    PROVE  IInv'
<1>1. Threads /\ Members BY Parts
<1> DEFINE on == Key("on", 0, 0)
<1>2. /\ pc[c] = "run" /\ cmd[c].name = "POWERON"
      /\ UNCHANGED <<mHandover, global, freq, chanVars>>
  BY DEF POWERON, Runs
<1>3. CASE Respond(c, "POWERON", FALSE, NULL) /\ UNCHANGED <<mOn, step, others>>
  <2>1. Threads' BY <1>1, <1>2, <1>3, Refuses DEF shared
  <2>2. Members' BY <1>1, <1>2, <1>3 DEF Members, chanVars, Respond
  <2> QED BY <2>1, <2>2 DEF IInv, TypeOK, Threads, CallTyped, Members
<1>4. CASE /\ mOn' = TRUE /\ Writes(c, {on}, TRUE)
           /\ Goto(c, "clear") /\ step' = [step EXCEPT ![c] = 0]
  <2>1. ASSUME NEW d \in Chans, NEW k \in Keys
        PROVE  Setting(d, k)' = IF k = on THEN TRUE ELSE Setting(d, k)
    <3>1. CASE k.of = "on"
      <4>1. k = on BY <3>1, KeyOf
      <4>2. Setting(d, k)' = mOn' BY <3>1, SettingAt
      <4> QED BY <1>4, <4>1, <4>2
    <3>2. CASE k.of # "on"
      <4>1. k # on BY <3>2 DEF Key
      <4> QED BY <1>2, <3>2, <4>1, KeyOf, SettingAt DEF chanVars
    <3> QED BY <3>1, <3>2
  <2>2. on \in Sets(cmd[c]) /\ on \in Keys /\ on \in Shared
    BY <1>2, KeyIn DEF Sets, Refused, Globals, Dirs, Shared
  <2>3. /\ \A d \in Chans \ {c} : \A k \in Keys : Kept(d, k)
        /\ \A k \in Keys \ {on} : Kept(c, k)
    <3> DEFINE ks == {on}
    <3>1. Writes(c, ks, TRUE) BY <1>4
    <3>2. /\ \A d \in Chans \ {c} : \A k \in Keys :
                \/ Setting(d, k)' = Setting(d, k)
                \/ k \in ks /\ k \in Shared /\ Setting(d, k)' = TRUE
          /\ \A k \in Keys \ ks : Setting(c, k)' = Setting(c, k)
      BY <2>1, <2>2
    <3> HIDE DEF ks
    <3>3. /\ \A d \in Chans \ {c} : \A k \in Keys : Kept(d, k)
          /\ \A k \in Keys \ ks : Kept(c, k)
      BY <1>1, <3>1, <3>2, WritesKept DEF Threads
    <3> QED BY <3>3 DEF ks
  <2>4. others' = [d \in Chans |-> others'[d]] BY <1>1, <1>4, WritesTo DEF Threads
  <2>5. step' \in [Chans -> Nat] /\ step'[c] = 0 /\ \A d \in Chans \ {c} : step'[d] = step[d]
    BY <1>1, <1>4 DEF Threads, CallTyped
  <2>6. Local(c) BY <1>2, <2>2, <2>3, <2>4, <2>5, FreqSame DEF Local
  <2>7. /\ pc' = [pc EXCEPT ![c] = "clear"]
        /\ UNCHANGED <<cmd, rsp, pending, sent, lost, told, ready>>
    BY <1>4 DEF Goto, bts
  <2>8. cmd[c] \in Commands[c] /\ pending[c] = cmd[c] BY <1>1, <1>2 DEF Threads, Done
  <2>9. Done(c)'
    <3>1. pc'[c] = "clear" BY <1>1, <2>7 DEF Threads, CallTyped
    <3>2. WillHold(c, on, TRUE) BY <2>1, <2>2 DEF WillHold
    <3>3. \A n \in TNs : ~(n < step'[c]) BY <2>5, ControlAssumption
    <3> QED BY <1>2, <2>7, <2>8, <3>1, <3>2, <3>3 DEF Done, Holds, WillHold
  <2>10. Threads' BY <1>1, <1>2, <2>6, <2>7, <2>9, Moves
  <2>11. Members' BY <1>1, <1>2, <1>4, <2>7 DEF Members, chanVars
  <2> QED BY <2>10, <2>11 DEF IInv, TypeOK, Threads, CallTyped, Members
<1> QED BY <1>3, <1>4 DEF POWERON

LEMMA ClearHandoverIInv ==
    ASSUME IInv, NEW c \in Chans, ClearHandover(c)
    PROVE  IInv'
<1>1. Threads /\ Members BY Parts
<1> DEFINE row == step[c]
           off == [s \in SubSlots |-> FALSE]
           ks == {Key("handover", row, s) : s \in SubSlots}
<1>2. /\ pc[c] = "clear" /\ UNCHANGED <<mOn, global, freq, chanVars>>
      /\ \/ /\ row \in TNs /\ mHandover' = [mHandover EXCEPT ![row] = off]
            /\ Writes(c, ks, FALSE)
            /\ step' = [step EXCEPT ![c] = row + 1] /\ Goto(c, "clear")
         \/ /\ row \notin TNs /\ Respond(c, "POWERON", TRUE, NULL)
            /\ UNCHANGED <<step, mHandover, others>>
  BY DEF ClearHandover, ClearRow
<1>3. /\ cmd[c] \in Commands[c] /\ pending[c] = cmd[c] /\ cmd[c].name = "POWERON"
      /\ Holds(c, Key("on", 0, 0), TRUE)
      /\ \A n \in TNs, s \in SubSlots : n < row => Holds(c, Key("handover", n, s), FALSE)
  BY <1>1, <1>2 DEF Threads, Done
<1>4. Sets(cmd[c]) = {Key("on", 0, 0)} \cup Handovers
  BY <1>3 DEF Sets, Refused, Globals, Dirs
<1>5. row \in Nat BY <1>1 DEF Threads, CallTyped
<1>6. CASE /\ row \notin TNs /\ Respond(c, "POWERON", TRUE, NULL)
           /\ UNCHANGED <<step, mHandover, others>>
  <2>1. \A n \in TNs : n < row
    <3> SUFFICES ASSUME NEW n \in TNs, ~(n < row) PROVE FALSE OBVIOUS
    <3>1. n \in Nat /\ 0 .. n \subseteq TNs BY ControlAssumption
    <3>2. row \in 0 .. n BY <1>5, <3>1
    <3> QED BY <1>6, <3>1, <3>2
  <2>2. /\ \A d \in Chans : FreqKept(d) /\ \A k \in Keys : Kept(d, k)
        /\ Local(c)
    BY <1>1, <1>2, <1>6, AllKept DEF shared
  <2>3. ASSUME NEW k \in Sets(cmd[c]) PROVE WillHold(c, k, Says(cmd[c], NULL, k))
    <3>1. CASE k = Key("on", 0, 0)
      <4>1. Says(cmd[c], NULL, k) = TRUE BY <1>3, <3>1 DEF Says, Key
      <4> QED BY <1>3, <2>2, <3>1, <4>1, KeyIn, KeptHolds
    <3>2. CASE k \in Handovers
      <4>1. PICK n \in TNs, s \in SubSlots : k = Key("handover", n, s) BY <3>2 DEF Handovers
      <4>2. Says(cmd[c], NULL, k) = FALSE BY <1>3, <4>1 DEF Says, Key
      <4>3. Holds(c, k, FALSE) BY <1>3, <2>1, <4>1
      <4> QED BY <2>2, <3>2, <4>2, <4>3, KeyIn, KeptHolds
    <3> QED BY <1>4, <3>1, <3>2
  <2>4. Threads' BY <1>1, <1>2, <1>6, <2>2, <2>3, Responds
  <2>5. Members' BY <1>1, <1>2, <1>6 DEF Members, chanVars, Respond
  <2> QED BY <2>4, <2>5 DEF IInv, TypeOK, Threads, CallTyped, Members
<1>7. CASE /\ row \in TNs /\ mHandover' = [mHandover EXCEPT ![row] = off]
           /\ Writes(c, ks, FALSE)
           /\ step' = [step EXCEPT ![c] = row + 1] /\ Goto(c, "clear")
  <2>1. /\ off \in [SubSlots -> BOOLEAN] /\ mHandover \in [TNs -> [SubSlots -> BOOLEAN]]
        /\ mHandover' \in [TNs -> [SubSlots -> BOOLEAN]]
    <3>1. off \in [SubSlots -> BOOLEAN] OBVIOUS
    <3>2. mHandover \in [TNs -> [SubSlots -> BOOLEAN]] BY <1>1 DEF Members
    <3> HIDE DEF off
    <3> QED BY <1>7, <3>1, <3>2, Updated
  <2>2. /\ step' \in [Chans -> Nat] /\ step'[c] = row + 1
        /\ \A d \in Chans \ {c} : step'[d] = step[d]
    <3> HIDE DEF row
    <3> QED BY <1>1, <1>5, <1>7 DEF Threads, CallTyped
  <2>3. ks \subseteq Handovers /\ ks \subseteq Shared /\ ks \subseteq Sets(cmd[c])
    BY <1>4, <1>7, KeyIn
  <2>4. ASSUME NEW d \in Chans, NEW k \in Keys
        PROVE  Setting(d, k)' = IF k \in ks THEN FALSE ELSE Setting(d, k)
    <3>1. CASE k.of # "handover"
      <4>1. k \notin ks BY <3>1 DEF Key
      <4> HIDE DEF ks
      <4> QED BY <1>2, <3>1, <4>1, KeyOf, SettingAt DEF chanVars
    <3>2. CASE k.of = "handover"
      <4>1. k.ts \in TNs /\ k.ss \in SubSlots /\ k = Key("handover", k.ts, k.ss) BY <3>2, KeyOf
      <4>2. k \in ks <=> k.ts = row BY <4>1 DEF Key
      <4>3. mHandover'[k.ts] = IF k.ts = row THEN off ELSE mHandover[k.ts]
        BY <1>7, <2>1, <4>1
      <4>4. k.ts = row => mHandover'[k.ts][k.ss] = FALSE BY <4>1, <4>3
      <4>5. Setting(d, k) = mHandover[k.ts][k.ss] /\ Setting(d, k)' = mHandover'[k.ts][k.ss]
        BY <3>2, SettingAt
      <4> HIDE DEF ks, off, row
      <4>6. CASE k.ts = row BY <4>2, <4>4, <4>5, <4>6
      <4>7. CASE k.ts # row BY <4>2, <4>3, <4>5, <4>7
      <4> QED BY <4>6, <4>7
    <3> QED BY <3>1, <3>2
  <2> HIDE DEF ks, off, row
  <2>5. /\ \A d \in Chans \ {c} : \A k \in Keys : Kept(d, k)
        /\ \A k \in Keys \ ks : Kept(c, k)
    BY <1>1, <1>7, <2>3, <2>4, WritesKept DEF Threads
  <2>6. others' = [d \in Chans |-> others'[d]] BY <1>1, <1>7, WritesTo DEF Threads
  <2>7. Local(c) BY <1>2, <2>2, <2>3, <2>5, <2>6, FreqSame DEF Local
  <2>8. /\ pc' = [pc EXCEPT ![c] = "clear"]
        /\ UNCHANGED <<cmd, rsp, pending, sent, lost, told, ready>>
    BY <1>7 DEF Goto, bts
  <2>9. Done(c)'
    <3>1. pc'[c] = "clear" BY <1>1, <2>8 DEF Threads, CallTyped
    <3>2. WillHold(c, Key("on", 0, 0), TRUE)
      <4>1. Key("on", 0, 0) \in Keys \ ks BY KeyIn DEF ks, Key
      <4> QED BY <1>3, <2>5, <4>1, KeptHolds
    <3>3. ASSUME NEW n \in TNs, NEW s \in SubSlots, n < row + 1
          PROVE  WillHold(c, Key("handover", n, s), FALSE)
      <4>1. n \in Nat BY ControlAssumption
      <4>2. Key("handover", n, s) \in Keys BY KeyIn
      <4>3. CASE n = row
        <5>1. Key("handover", n, s) \in ks BY <4>3 DEF ks
        <5> QED BY <2>4, <4>2, <5>1 DEF WillHold
      <4>4. CASE n < row
        <5>1. Key("handover", n, s) \notin ks
          <6>1. n # row BY <1>5, <4>1, <4>4
          <6> QED BY <6>1 DEF ks, Key
        <5>2. Holds(c, Key("handover", n, s), FALSE) BY <1>3, <4>4
        <5> QED BY <2>5, <4>2, <5>1, <5>2, KeptHolds
      <4>5. n = row \/ n < row BY <1>5, <3>3, <4>1
      <4> QED BY <4>3, <4>4, <4>5
    <3> QED BY <1>3, <2>2, <2>8, <3>1, <3>2, <3>3 DEF Done, Holds, WillHold
  <2>10. Threads' BY <1>1, <1>2, <2>7, <2>8, <2>9, Moves
  <2>11. Members' BY <1>1, <1>2, <2>1, <2>8 DEF Members, chanVars
  <2> QED BY <2>10, <2>11 DEF IInv, TypeOK, Threads, CallTyped, Members
<1> QED BY <1>2, <1>6, <1>7

LEMMA HandoverIInv ==
    ASSUME IInv, NEW c \in Chans, HANDOVER(c)
    PROVE  IInv'
<1>1. Threads /\ Members BY Parts
<1> DEFINE ts == cmd[c].ts
           ss == cmd[c].arg
           on == cmd[c].name = "HANDOVER"
<1>2. /\ pc[c] # "idle" /\ cmd[c].name \in {"HANDOVER", "NOHANDOVER"}
      /\ UNCHANGED <<mOn, global, freq, chanVars, step>>
      /\ \/ /\ ~(ts \in TNs /\ ss \in SubSlots)
            /\ Respond(c, "NOHANDOVER", FALSE, NULL) /\ UNCHANGED <<mHandover, others>>
         \/ /\ ts \in TNs /\ ss \in SubSlots
            /\ mHandover' = [mHandover EXCEPT ![ts] = [mHandover[ts] EXCEPT ![ss] = on]]
            /\ Writes(c, Sets(cmd[c]), on) /\ Respond(c, cmd[c].name, TRUE, NULL)
  BY DEF HANDOVER, Runs
<1>3. CASE Respond(c, "NOHANDOVER", FALSE, NULL) /\ UNCHANGED <<mHandover, others>>
  <2>1. Threads' BY <1>1, <1>2, <1>3, Refuses DEF shared
  <2>2. Members' BY <1>1, <1>2, <1>3 DEF Members, chanVars, Respond
  <2> QED BY <2>1, <2>2 DEF IInv, TypeOK, Threads, CallTyped, Members
<1>4. CASE /\ ts \in TNs /\ ss \in SubSlots
           /\ mHandover' = [mHandover EXCEPT ![ts] = [mHandover[ts] EXCEPT ![ss] = on]]
           /\ Writes(c, Sets(cmd[c]), on) /\ Respond(c, cmd[c].name, TRUE, NULL)
  <2> DEFINE key == Key("handover", ts, ss)
  <2>1. Sets(cmd[c]) = {key}
    BY <1>2, <1>4 DEF Sets, Refused, Globals, Dirs
  <2>2. key \in Handovers /\ key \in Keys /\ key \in Shared BY <1>4, KeyIn
  <2>3. Says(cmd[c], NULL, key) = on BY DEF Says, Key
  <2>4. mHandover \in [TNs -> [SubSlots -> BOOLEAN]] /\ on \in BOOLEAN BY <1>1 DEF Members
  <2>5. key.of = "handover" /\ key.ts = ts /\ key.ss = ss BY DEF Key
  <2> HIDE DEF ts, ss, on
  <2>6. [mHandover[ts] EXCEPT ![ss] = on] \in [SubSlots -> BOOLEAN] BY <1>4, <2>4, Updated
  <2>7. mHandover' \in [TNs -> [SubSlots -> BOOLEAN]] BY <1>4, <2>4, <2>6, Updated
  <2>8. ASSUME NEW d \in Chans, NEW k \in Keys
        PROVE  Setting(d, k)' = IF k = key THEN on ELSE Setting(d, k)
    <3>1. CASE k.of # "handover"
      <4>1. k # key BY <2>5, <3>1
      <4> QED BY <1>2, <3>1, <4>1, KeyOf, SettingAt DEF chanVars
    <3>2. CASE k.of = "handover"
      <4>1. k.ts \in TNs /\ k.ss \in SubSlots /\ k = Key("handover", k.ts, k.ss) BY <3>2, KeyOf
      <4>2. k = key <=> k.ts = ts /\ k.ss = ss BY <2>5, <4>1
      <4>3. mHandover'[k.ts][k.ss] = IF k.ts = ts /\ k.ss = ss THEN on ELSE mHandover[k.ts][k.ss]
        BY <1>4, <2>4, <4>1
      <4> QED BY <3>2, <4>2, <4>3, SettingAt
    <3> QED BY <3>1, <3>2
  <2> HIDE DEF key
  <2>9. Threads' BY <1>1, <1>2, <1>4, <2>1, <2>2, <2>3, <2>8, Commanded
  <2>10. Members' BY <1>1, <1>2, <1>4, <2>7 DEF Members, chanVars, Respond
  <2> QED BY <2>9, <2>10 DEF IInv, TypeOK, Threads, CallTyped, Members
<1> QED BY <1>2, <1>3, <1>4

\* An update of one channel's member, and of one field of it.
LEMMA UpdatedAt ==
    ASSUME NEW S, NEW T, NEW f \in [Chans -> [S -> T]], NEW c \in Chans, NEW s \in S, NEW v \in T
    PROVE  /\ [f EXCEPT ![c] = [f[c] EXCEPT ![s] = v]] \in [Chans -> [S -> T]]
           /\ \A d \in Chans, x \in S :
                [f EXCEPT ![c] = [f[c] EXCEPT ![s] = v]][d][x] =
                    IF d = c /\ x = s THEN v ELSE f[d][x]
<1>1. f[c] \in [S -> T] OBVIOUS
<1>2. [f[c] EXCEPT ![s] = v] \in [S -> T] BY <1>1, Updated
<1>3. [f EXCEPT ![c] = [f[c] EXCEPT ![s] = v]] \in [Chans -> [S -> T]] BY <1>2, Updated
<1>4. ASSUME NEW d \in Chans, NEW x \in S
      PROVE  [f EXCEPT ![c] = [f[c] EXCEPT ![s] = v]][d][x] =
                IF d = c /\ x = s THEN v ELSE f[d][x]
  BY <1>1
<1> QED BY <1>3, <1>4

LEMMA SetGlobalIInv ==
    ASSUME IInv, NEW c \in Chans, SetGlobal(c)
    PROVE  IInv'
<1>1. Threads /\ Members BY Parts
<1> DEFINE name == cmd[c].name
           arg == cmd[c].arg
<1>2. /\ pc[c] # "idle" /\ name \in Globals
      /\ UNCHANGED <<mOn, mHandover, freq, chanVars, step>>
      /\ \/ /\ name = "SETTSC" /\ arg > 7
            /\ Respond(c, name, FALSE, NULL) /\ UNCHANGED <<global, others>>
         \/ /\ ~(name = "SETTSC" /\ arg > 7)
            /\ global' = [global EXCEPT ![name] = arg]
            /\ Writes(c, Sets(cmd[c]), arg) /\ Respond(c, name, TRUE, NULL)
  BY DEF SetGlobal, Runs
<1>3. CASE Respond(c, name, FALSE, NULL) /\ UNCHANGED <<global, others>>
  <2>1. Threads' BY <1>1, <1>2, <1>3, Refuses DEF shared
  <2>2. Members' BY <1>1, <1>2, <1>3 DEF Members, chanVars, Respond
  <2> QED BY <2>1, <2>2 DEF IInv, TypeOK, Threads, CallTyped, Members
<1>4. CASE /\ ~(name = "SETTSC" /\ arg > 7)
           /\ global' = [global EXCEPT ![name] = arg]
           /\ Writes(c, Sets(cmd[c]), arg) /\ Respond(c, name, TRUE, NULL)
  <2> DEFINE key == Key(name, 0, 0)
  <2>1. Sets(cmd[c]) = {key}
    BY <1>2, <1>4 DEF Sets, Refused, Globals
  <2>2. key \in Keys /\ key \in Shared BY <1>2, KeyIn DEF Shared
  <2>3. Says(cmd[c], NULL, key) = arg BY <1>2 DEF Says, Key, Globals
  <2>4. arg \in Int BY <1>1, <1>2, CommandOf
  <2>5. key.of = name BY DEF Key
  <2>6. global \in [Globals -> Int] BY <1>1 DEF Members
  <2>7. ASSUME NEW d \in Chans, NEW k \in Keys
        PROVE  Setting(d, k)' = IF k = key THEN arg ELSE Setting(d, k)
    <3>1. CASE k.of \notin Globals
      <4>1. k # key BY <1>2, <2>5, <3>1
      <4> HIDE DEF key
      <4> QED BY <1>2, <3>1, <4>1, KeyOf, SettingAt DEF chanVars
    <3>2. CASE k.of \in Globals
      <4>1. k = Key(k.of, 0, 0) BY <3>2, KeyOf
      <4>2. k = key <=> k.of = name BY <2>5, <4>1
      <4>3. global'[k.of] = IF k.of = name THEN arg ELSE global[k.of] BY <1>4, <2>6, <3>2
      <4> HIDE DEF key
      <4> QED BY <3>2, <4>2, <4>3, SettingAt
    <3> QED BY <3>1, <3>2
  <2> HIDE DEF key, name, arg
  <2>8. global' \in [Globals -> Int] BY <1>4, <2>4, <2>6, Updated
  <2>9. Threads' BY <1>1, <1>2, <1>4, <2>1, <2>2, <2>3, <2>7, Commanded
  <2>10. Members' BY <1>1, <1>2, <1>4, <2>8 DEF Members, chanVars, Respond
  <2> QED BY <2>9, <2>10 DEF IInv, TypeOK, Threads, CallTyped, Members
<1> QED BY <1>2, <1>3, <1>4

LEMMA QueryIInv ==
    ASSUME IInv, NEW c \in Chans, Query(c)
    PROVE  IInv'
<1>1. Threads /\ Members BY Parts
<1>2. /\ pc[c] # "idle" /\ cmd[c].name \in {"NOISELEV", "ERR"}
      /\ Respond(c, cmd[c].name, cmd[c].name = "NOISELEV" /\ mOn, NULL)
      /\ UNCHANGED <<shared, chanVars, step, others>>
  BY DEF Query, Runs
<1>3. Sets(cmd[c]) = {} BY <1>2 DEF Sets, Refused, Globals, Dirs
<1>4. Threads' BY <1>1, <1>2, <1>3, Refuses
<1>5. Members' BY <1>1, <1>2 DEF Members, shared, chanVars, Respond
<1> QED BY <1>4, <1>5 DEF IInv, TypeOK, Threads, CallTyped, Members

\* SETRXGAIN and SETPOWER: a number of the channel, the one in the response.
LEMMA LevelIInv ==
    ASSUME IInv, NEW c \in Chans, SETRXGAIN(c) \/ SETPOWER(c)
    PROVE  IInv'
<1>1. Threads /\ Members BY Parts
<1>2. CASE SETRXGAIN(c)
  <2> DEFINE key == Key("gain", 0, 0)
  <2>1. PICK g \in Gains :
          /\ gain' = [gain EXCEPT ![c] = g] /\ Respond(c, "SETRXGAIN", TRUE, g)
    BY <1>2 DEF SETRXGAIN
  <2>2. /\ pc[c] # "idle" /\ cmd[c].name = "SETRXGAIN" /\ Writes(c, Sets(cmd[c]), NULL)
        /\ UNCHANGED <<shared, chanType, fillerModulus, mPower, tuned, step>>
    BY <1>2 DEF SETRXGAIN, Runs
  <2>3. Sets(cmd[c]) = {key} BY <2>2 DEF Sets, Refused, Globals, Dirs
  <2>4. Says(cmd[c], g, key) = g /\ key \in Keys BY KeyIn DEF Says, Key
  <2>5. gain \in [Chans -> Int] /\ g \in Int BY <1>1, ControlAssumption DEF Members
  <2>6. ASSUME NEW d \in Chans, NEW k \in Keys
        PROVE  Setting(d, k)' = IF d = c /\ k = key THEN g ELSE Setting(d, k)
    <3>1. CASE k.of # "gain"
      <4>1. k # key BY <3>1 DEF Key
      <4> HIDE DEF key
      <4> QED BY <2>2, <3>1, <4>1, KeyOf, SettingAt DEF shared
    <3>2. CASE k.of = "gain"
      <4>1. k = key BY <3>2, KeyOf
      <4>2. gain'[d] = IF d = c THEN g ELSE gain[d] BY <2>1, <2>5
      <4> HIDE DEF key
      <4> QED BY <3>2, <4>1, <4>2, SettingAt
    <3> QED BY <3>1, <3>2
  <2> HIDE DEF key
  <2>7. Threads' BY <1>1, <2>1, <2>2, <2>3, <2>4, <2>6, Commanded DEF shared
  <2>8. Members' BY <1>1, <2>1, <2>2, <2>5 DEF Members, shared, Respond
  <2> QED BY <2>7, <2>8 DEF IInv, TypeOK, Threads, CallTyped, Members
<1>3. CASE SETPOWER(c)
  <2> DEFINE key == Key("power", 0, 0)
  <2>1. PICK g : /\ g = (LET want == IF cmd[c].name = "SETPOWER" THEN cmd[c].arg
                                     ELSE mPower[c] + cmd[c].arg
                         IN  IF want < 0 THEN 0 ELSE want)
                 /\ mPower' = [mPower EXCEPT ![c] = g] /\ Respond(c, cmd[c].name, TRUE, g)
    BY <1>3 DEF SETPOWER
  <2>2. /\ pc[c] # "idle" /\ cmd[c].name \in {"SETPOWER", "ADJPOWER"}
        /\ Writes(c, Sets(cmd[c]), NULL)
        /\ UNCHANGED <<shared, chanType, fillerModulus, tuned, gain, step>>
    BY <1>3 DEF SETPOWER, Runs
  <2>3. Sets(cmd[c]) = {key} BY <2>2 DEF Sets, Refused, Globals, Dirs
  <2>4. Says(cmd[c], g, key) = g /\ key \in Keys BY KeyIn DEF Says, Key
  <2>5. mPower \in [Chans -> Nat] /\ g \in Nat
    <3>1. cmd[c].arg \in Int /\ mPower \in [Chans -> Nat]
      BY <1>1, <2>2, CommandOf DEF Members
    <3> QED BY <2>1, <3>1
  <2>6. ASSUME NEW d \in Chans, NEW k \in Keys
        PROVE  Setting(d, k)' = IF d = c /\ k = key THEN g ELSE Setting(d, k)
    <3>1. CASE k.of # "power"
      <4>1. k # key BY <3>1 DEF Key
      <4> HIDE DEF key
      <4> QED BY <2>2, <3>1, <4>1, KeyOf, SettingAt DEF shared
    <3>2. CASE k.of = "power"
      <4>1. k = key BY <3>2, KeyOf
      <4>2. mPower'[d] = IF d = c THEN g ELSE mPower[d] BY <2>1, <2>5
      <4> HIDE DEF key
      <4> QED BY <3>2, <4>1, <4>2, SettingAt
    <3> QED BY <3>1, <3>2
  <2> HIDE DEF key
  <2>7. Threads'
    <3> DEFINE name == cmd[c].name
    <3>1. Respond(c, name, TRUE, g) BY <2>1
    <3>2. freq' = freq /\ step' = step BY <2>2 DEF shared
    <3>3. /\ \A d \in Chans \ {c} : \A k \in Keys : Setting(d, k)' = Setting(d, k)
          /\ \A k \in Keys \ Sets(cmd[c]) : Setting(c, k)' = Setting(c, k)
          /\ \A k \in Sets(cmd[c]) : Setting(c, k)' = Says(cmd[c], g, k)
      BY <2>3, <2>4, <2>6
    <3> HIDE DEF name
    <3> QED BY <1>1, <2>2, <3>1, <3>2, <3>3, Commanded
  <2>8. Members' BY <1>1, <2>1, <2>2, <2>5 DEF Members, shared, Respond
  <2> QED BY <2>7, <2>8 DEF IInv, TypeOK, Threads, CallTyped, Members
<1> QED BY <1>2, <1>3

LEMMA SlotIInv ==
    ASSUME IInv, NEW c \in Chans, SETSLOT(c)
    PROVE  IInv'
<1>1. Threads /\ Members BY Parts
<1> DEFINE ts == cmd[c].ts
           type == cmd[c].arg
           modulus == FillerModulusOf[type]
<1>2. /\ pc[c] # "idle" /\ cmd[c].name = "SETSLOT"
      /\ UNCHANGED <<shared, mPower, tuned, gain, step>>
      /\ \/ NoAnswer(c) /\ UNCHANGED <<chanType, fillerModulus, others>>
         \/ /\ ts \in TNs
            /\ chanType' = [chanType EXCEPT ![c] = [chanType[c] EXCEPT ![ts] = type]]
            /\ fillerModulus' = IF modulus = 0 THEN fillerModulus
                  ELSE [fillerModulus EXCEPT ![c] = [fillerModulus[c] EXCEPT ![ts] = modulus]]
            /\ Writes(c, Sets(cmd[c]), NULL) /\ Respond(c, "SETSLOT", TRUE, NULL)
  BY DEF SETSLOT, Runs
<1>3. CASE NoAnswer(c) /\ UNCHANGED <<chanType, fillerModulus, others>>
  <2>1. Threads' BY <1>1, <1>2, <1>3, AllKept, Returns DEF chanVars
  <2>2. Members' BY <1>1, <1>2, <1>3 DEF Members, shared, NoAnswer
  <2> QED BY <2>1, <2>2 DEF IInv, TypeOK, Threads, CallTyped, Members
<1>4. CASE /\ ts \in TNs
           /\ chanType' = [chanType EXCEPT ![c] = [chanType[c] EXCEPT ![ts] = type]]
           /\ fillerModulus' = IF modulus = 0 THEN fillerModulus
                 ELSE [fillerModulus EXCEPT ![c] = [fillerModulus[c] EXCEPT ![ts] = modulus]]
           /\ Writes(c, Sets(cmd[c]), NULL) /\ Respond(c, "SETSLOT", TRUE, NULL)
  <2> DEFINE slot == Key("slot", ts, 0)
             mod == Key("modulus", ts, 0)
             Moduli4 == {26, 51, 52, 102}
  <2>1. Sets(cmd[c]) = {slot} \cup (IF modulus = 0 THEN {} ELSE {mod})
    BY <1>2, <1>4 DEF Sets, Refused, Globals, Dirs
  <2>2. slot \in Keys /\ mod \in Keys BY <1>4, KeyIn
  <2>3. Says(cmd[c], NULL, slot) = type /\ Says(cmd[c], NULL, mod) = modulus BY DEF Says, Key
  <2>4. type \in Combinations BY <1>1, <1>2, CommandOf
  <2>5. slot.of = "slot" /\ slot.ts = ts /\ mod.of = "modulus" /\ mod.ts = ts BY DEF Key
  <2>6. modulus \in Moduli4 \cup {0} BY <2>4, Moduli
  <2>7. chanType \in [Chans -> [TNs -> Combinations]] /\ fillerModulus \in [Chans -> [TNs -> Moduli4]]
    BY <1>1 DEF Members
  <2> HIDE DEF ts, type, modulus, Moduli4
  <2>8. /\ chanType' \in [Chans -> [TNs -> Combinations]]
        /\ \A d \in Chans, n \in TNs :
                chanType'[d][n] = IF d = c /\ n = ts THEN type ELSE chanType[d][n]
    BY <1>4, <2>4, <2>7, UpdatedAt
  <2>9. /\ fillerModulus' \in [Chans -> [TNs -> Moduli4]]
        /\ \A d \in Chans, n \in TNs : fillerModulus'[d][n] =
                IF d = c /\ n = ts /\ modulus # 0 THEN modulus ELSE fillerModulus[d][n]
    <3>1. CASE modulus = 0 BY <1>4, <2>7, <3>1
    <3>2. CASE modulus # 0
      <4>1. modulus \in Moduli4 BY <2>6, <3>2
      <4>2. fillerModulus' = [fillerModulus EXCEPT ![c] = [fillerModulus[c] EXCEPT ![ts] = modulus]]
        BY <1>4, <3>2
      <4> QED BY <1>4, <2>7, <3>2, <4>1, <4>2, UpdatedAt
    <3> QED BY <3>1, <3>2
  <2>10. ASSUME NEW d \in Chans, NEW k \in Keys
         PROVE  Setting(d, k)' = IF d = c /\ k = slot THEN type
                                 ELSE IF d = c /\ k = mod /\ modulus # 0 THEN modulus
                                 ELSE Setting(d, k)
    <3>1. CASE k.of \notin {"slot", "modulus"}
      <4>1. k # slot /\ k # mod BY <2>5, <3>1
      <4> HIDE DEF slot, mod
      <4> QED BY <1>2, <3>1, <4>1, KeyOf, SettingAt DEF shared
    <3>2. CASE k.of = "slot"
      <4>1. k.ts \in TNs /\ k = Key("slot", k.ts, 0) BY <3>2, KeyOf
      <4>2. k = slot <=> k.ts = ts BY <2>5, <4>1
      <4>3. k # mod BY <2>5, <3>2
      <4> HIDE DEF slot, mod
      <4> QED BY <2>8, <3>2, <4>1, <4>2, <4>3, SettingAt
    <3>3. CASE k.of = "modulus"
      <4>1. k.ts \in TNs /\ k = Key("modulus", k.ts, 0) BY <3>3, KeyOf
      <4>2. k = mod <=> k.ts = ts BY <2>5, <4>1
      <4>3. k # slot BY <2>5, <3>3
      <4> HIDE DEF slot, mod
      <4> QED BY <2>9, <3>3, <4>1, <4>2, <4>3, SettingAt
    <3> QED BY <3>1, <3>2, <3>3
  <2>11. slot # mod BY <2>5
  <2> HIDE DEF slot, mod
  <2>12. /\ \A k \in Keys \ Sets(cmd[c]) : Setting(c, k)' = Setting(c, k)
         /\ \A k \in Sets(cmd[c]) : Setting(c, k)' = Says(cmd[c], NULL, k)
         /\ \A d \in Chans \ {c} : \A k \in Keys : Setting(d, k)' = Setting(d, k)
    BY <2>1, <2>2, <2>3, <2>10, <2>11
  <2>13. freq' = freq /\ step' = step BY <1>2 DEF shared
  <2>14. Threads' BY <1>1, <1>2, <1>4, <2>12, <2>13, Commanded
  <2>15. Members' BY <1>1, <1>2, <1>4, <2>8, <2>9 DEF Members, Moduli4, shared, Respond
  <2> QED BY <2>14, <2>15 DEF IInv, TypeOK, Threads, CallTyped, Members
<1> QED BY <1>2, <1>3, <1>4

\* Two threads that tune at once: the one that wrote mRxFreq first passes on
\* its own frequency, or the other's.
LEMMA TuneWriteIInv ==
    ASSUME IInv, NEW c \in Chans, TuneWrite(c)
    PROVE  IInv'
<1>1. Threads /\ Members BY Parts
<1> DEFINE dir == cmd[c].name
           f == cmd[c].arg
           key == Key(dir, 0, 0)
           ks == {key}
<1>2. /\ pc[c] = "run" /\ dir \in Dirs
      /\ freq' = [freq EXCEPT ![dir] = f]
      /\ Writes(c, Sets(cmd[c]), f) /\ Goto(c, "tune")
      /\ UNCHANGED <<mOn, mHandover, global, chanVars, step>>
  BY DEF TuneWrite, Runs
<1>3. cmd[c] \in Commands[c] /\ pending[c] = cmd[c] /\ f \in Int
  BY <1>1, <1>2, CommandOf DEF Threads, Done
<1>4. Sets(cmd[c]) = ks BY <1>2 DEF Sets, Refused, Dirs
<1>5. freq \in [Dirs -> Int] /\ freq' \in [Dirs -> Int] /\ freq'[dir] = f
      /\ \A e \in Dirs \ {dir} : freq'[e] = freq[e]
  BY <1>1, <1>2, <1>3 DEF Members
<1>6. key.of = dir BY DEF Key
<1>7. \A d \in Chans, k \in Keys : Setting(d, k)' = Setting(d, k) BY <1>2, SettingSame
<1> HIDE DEF ks, f
<1>8. Writes(c, ks, f) BY <1>2, <1>4
<1>9. /\ \A d \in Chans \ {c} : \A k \in Keys : Kept(d, k)
      /\ \A k \in Keys \ ks : Kept(c, k)
  BY <1>1, <1>7, <1>8, WritesKept DEF Threads
<1>10. /\ others' = [d \in Chans |-> others'[d]]
       /\ \A d \in Chans \ {c} : \A k \in ks : Exposed(d, k) => <<k, f>> \in others'[d]
  BY <1>1, <1>8, WritesTo DEF Threads
<1>11. ASSUME NEW d \in Chans \ {c} PROVE FreqKept(d)
  <2> SUFFICES ASSUME pc[d] = "tune"
               PROVE  \/ freq'[cmd[d].name] = freq[cmd[d].name]
                      \/ <<Key(cmd[d].name, 0, 0), freq'[cmd[d].name]>> \in others'[d]
    BY DEF FreqKept
  <2>1. cmd[d].name \in Dirs BY <1>1 DEF Threads, Done
  <2>2. CASE cmd[d].name # dir BY <1>5, <2>1, <2>2
  <2>3. CASE cmd[d].name = dir
    <3>1. Exposed(d, key) BY <1>6, <2>3 DEF Exposed
    <3>2. key \in ks BY DEF ks
    <3>3. <<key, f>> \in others'[d] BY <1>10, <3>1, <3>2
    <3> QED BY <1>5, <2>3, <3>3
  <2> QED BY <2>2, <2>3
<1>12. Local(c)
  <2>1. step' \in [Chans -> Nat] /\ \A d \in Chans \ {c} : step'[d] = step[d]
    BY <1>1, <1>2 DEF Threads, CallTyped
  <2> QED BY <1>4, <1>9, <1>10, <1>11, <2>1 DEF Local
<1>13. /\ pc' = [pc EXCEPT ![c] = "tune"]
       /\ UNCHANGED <<cmd, rsp, pending, sent, lost, told, ready>>
  BY <1>2 DEF Goto, bts
<1>14. Done(c)'
  <2>1. pc'[c] = "tune" BY <1>1, <1>13 DEF Threads, CallTyped
  <2> QED BY <1>2, <1>3, <1>5, <1>13, <2>1 DEF Done, f
<1>15. Threads' BY <1>1, <1>2, <1>12, <1>13, <1>14, Moves
<1>16. Members' BY <1>1, <1>2, <1>5, <1>13 DEF Members, chanVars
<1> QED BY <1>15, <1>16 DEF IInv, TypeOK, Threads, CallTyped, Members

LEMMA TuneIInv ==
    ASSUME IInv, NEW c \in Chans, Tune(c)
    PROVE  IInv'
<1>1. Threads /\ Members BY Parts
<1> DEFINE dir == cmd[c].name
           key == Key(dir, 0, 0)
<1>2. /\ pc[c] = "tune"
      /\ UNCHANGED <<shared, chanType, fillerModulus, mPower, gain, step, others>>
      /\ \/ /\ \E g \in TuneFreqs(c) :
                    tuned' = [tuned EXCEPT ![c] = [tuned[c] EXCEPT ![dir] = g]]
            /\ Respond(c, dir, TRUE, NULL)
         \/ Respond(c, dir, FALSE, NULL) /\ UNCHANGED tuned
  BY DEF Tune
<1>3. /\ cmd[c] \in Commands[c] /\ pending[c] = cmd[c] /\ dir \in Dirs
      /\ freq[dir] = cmd[c].arg \/ <<key, freq[dir]>> \in others[c]
  BY <1>1, <1>2 DEF Threads, Done
<1>4. CASE Respond(c, dir, FALSE, NULL) /\ UNCHANGED tuned
  <2>1. UNCHANGED <<shared, chanVars, step, others>> BY <1>2, <1>4 DEF chanVars
  <2> HIDE DEF dir
  <2>2. Threads' BY <1>1, <1>2, <1>4, <2>1, Refuses
  <2>3. Members' BY <1>1, <1>2, <1>4 DEF Members, shared, Respond
  <2> QED BY <2>2, <2>3 DEF IInv, TypeOK, Threads, CallTyped, Members
<1>5. CASE /\ \E g \in TuneFreqs(c) : tuned' = [tuned EXCEPT ![c] = [tuned[c] EXCEPT ![dir] = g]]
           /\ Respond(c, dir, TRUE, NULL)
  <2>1. PICK g \in TuneFreqs(c) : tuned' = [tuned EXCEPT ![c] = [tuned[c] EXCEPT ![dir] = g]]
    BY <1>5
  <2>2. g = cmd[c].arg \/ <<key, g>> \in others[c]
    BY <1>3 DEF TuneFreqs
  <2>3. g \in Int /\ tuned \in [Chans -> [Dirs -> Int]]
    BY <1>1, <1>2, <1>3, CommandOf DEF Members, TuneFreqs
  <2>4. Sets(cmd[c]) = {key} BY <1>3 DEF Sets, Refused, Dirs
  <2>5. Says(cmd[c], NULL, key) = cmd[c].arg BY <1>3 DEF Says, Key, Dirs
  <2>6. key.of = dir /\ key \in Keys BY <1>3, KeyIn DEF Key
  <2> HIDE DEF dir
  <2>7. /\ tuned' \in [Chans -> [Dirs -> Int]]
        /\ \A d \in Chans, e \in Dirs :
                tuned'[d][e] = IF d = c /\ e = dir THEN g ELSE tuned[d][e]
    BY <1>3, <2>1, <2>3, UpdatedAt
  <2>8. ASSUME NEW d \in Chans, NEW k \in Keys
        PROVE  Setting(d, k)' = IF d = c /\ k = key THEN g ELSE Setting(d, k)
    <3>1. CASE k.of \notin Dirs
      <4>1. k # key BY <1>3, <2>6, <3>1
      <4> HIDE DEF key
      <4> QED BY <1>2, <3>1, <4>1, KeyOf, SettingAt DEF shared
    <3>2. CASE k.of \in Dirs
      <4>1. k = Key(k.of, 0, 0) BY <3>2, KeyOf
      <4>2. k = key <=> k.of = dir BY <2>6, <4>1
      <4> HIDE DEF key
      <4> QED BY <2>7, <3>2, <4>2, SettingAt
    <3> QED BY <3>1, <3>2
  <2> HIDE DEF key
  <2>9. /\ \A d \in Chans \ {c} : \A k \in Keys : Kept(d, k)
        /\ \A k \in Keys \ Sets(cmd[c]) : Kept(c, k)
    BY <1>2, <2>4, <2>8, NothingKept
  <2>10. \A k \in Sets(cmd[c]) : WillHold(c, k, Says(cmd[c], NULL, k))
    BY <1>2, <2>2, <2>4, <2>5, <2>6, <2>8 DEF WillHold
  <2>11. others' = [d \in Chans |-> others'[d]] /\ freq' = freq
         /\ step' \in [Chans -> Nat] /\ step' = step
    BY <1>1, <1>2 DEF Threads, Doing, CallTyped, shared
  <2>12. Local(c) BY <2>9, <2>11, FreqSame DEF Local
  <2>13. Threads' BY <1>1, <1>2, <1>5, <2>10, <2>12, Responds
  <2>14. Members' BY <1>1, <1>2, <1>5, <2>7 DEF Members, shared, Respond
  <2> QED BY <2>13, <2>14 DEF IInv, TypeOK, Threads, CallTyped, Members
<1> QED BY <1>2, <1>4, <1>5
-----------------------------------------------------------------------------
(* Theorems *)

LEMMA NextIInv ==
    ASSUME IInv, [Next]_vars
    PROVE  IInv'
<1>1. CASE UNCHANGED vars
  <2>1. Threads /\ Members BY Parts
  <2>2. UNCHANGED <<shared, chanVars, ready, pc, cmd, step, rsp, bts, others>> BY <1>1 DEF vars
  <2>3. others' = [d \in Chans |-> others'[d]] BY <2>1, <2>2 DEF Threads, Doing
  <2>4. Threads' BY <2>1, <2>2, <2>3, AllKept, NoThreadMoves
  <2>5. Members' BY <2>1, <2>2 DEF Members, shared, chanVars
  <2> QED BY <2>4, <2>5 DEF IInv, TypeOK, Threads, CallTyped, Members
<1> QED
  BY <1>1, InitStateIInv, ReceiveIInv, AnswerIInv, PowerOffIInv, PowerOnIInv, ClearHandoverIInv,
     HandoverIInv, SetGlobalIInv, QueryIInv, LevelIInv, SlotIInv, TuneWriteIInv, TuneIInv
     DEF Next, DriveControl

\* What an answer of driveControl says of a setting is so until the channel is
\* sent another command for it, unless another thread has given the setting
\* the value that it has: with POWERON clearing the handovers row by row under
\* other channels' HANDOVER, two threads tuning through one mRxFreq, a late
\* TransceiverState::init, answers lost and commands repeated.
THEOREM CtSettingsInv == Spec => []SettingsInv
<1>1. IInv /\ [Next]_vars => IInv' BY NextIInv
<1>2. IInv => SettingsInv BY DEF IInv, SettingsInv, AsTold, Knows, Holds
<1> QED BY InitIInv, <1>1, <1>2, PTL DEF Spec
=============================================================================
