--------------------------- MODULE ProxyAppProofs ---------------------------
(***************************************************************************)
(* Proofs about MosaicProxyApp: what it knows of its radios is right, and  *)
(* what it accepts goes to the right radio, for any set of channels, any   *)
(* number of packets and any sequence of configurations.                   *)
(***************************************************************************)
EXTENDS ProxyApp, TLAPS

(* connectRadios keeps the radios in step with their number, from any      *)
(* number to any other.                                                    *)
LEMMA ConnectRadiosMatch ==
    ASSUME NEW n \in 0 .. 2, TypeOK, RadiosMatchCount, ConnectRadios(n)
    PROVE  /\ numRadios' = n
           /\ on' \in SUBSET Interfaces
           /\ RadiosMatchCount'
<1> USE DEF TypeOK, RadiosMatchCount, Interfaces
<1>1. CASE n = 0
  BY <1>1 DEF ConnectRadios
<1>2. CASE n = 1
  BY <1>2 DEF ConnectRadios
<1>3. CASE n = 2
  BY <1>3 DEF ConnectRadios
<1> QED
  BY <1>1, <1>2, <1>3

IInv == TypeOK /\ RadiosMatchCount /\ NotedChannelIsTuned

(* The initial state of the app satisfies the invariant. *)
LEMMA InitIInv == Init => IInv
  BY ProxyAppAssumption
  DEF Init, IInv, TypeOK, RadiosMatchCount, NotedChannelIsTuned, Interfaces, Packet

(* Switching off all radios keeps the invariant. *)
LEMMA NoRadioIInv == IInv /\ NoRadio => IInv'
<1> SUFFICES ASSUME IInv, NoRadio PROVE IInv'
  OBVIOUS
<1> USE ProxyAppAssumption DEF IInv
<1>1. /\ numRadios' = 0 /\ on' \in SUBSET Interfaces
      /\ RadiosMatchCount'
  BY ConnectRadiosMatch DEF NoRadio
<1>2. TypeOK'
  BY <1>1 DEF NoRadio, TypeOK
<1>3. NotedChannelIsTuned'
  BY DEF NoRadio, NotedChannelIsTuned
<1> QED
  BY <1>1, <1>2, <1>3

(* Configuring one radio, on one channel or two, keeps the invariant. *)
LEMMA SingleRadioIInv == IInv /\ SingleRadio => IInv'
<1> SUFFICES ASSUME IInv, SingleRadio PROVE IInv'
  OBVIOUS
<1> USE ProxyAppAssumption DEF IInv
<1>1. /\ numRadios' = 1 /\ on' \in SUBSET Interfaces
      /\ RadiosMatchCount'
  BY ConnectRadiosMatch DEF SingleRadio
<1>2. PICK c \in Channels :
         \/ Tune([i \in {0} |-> c])
         \/ UNCHANGED <<tuned, radioChannel>>
  BY DEF SingleRadio
<1>3. /\ addressed' = addressed \cup {0}
      /\ UNCHANGED <<delayed, accepted>>
  BY DEF SingleRadio
<1>4. TypeOK'
  BY <1>1, <1>2, <1>3 DEF TypeOK, Tune, Interfaces
<1>5. NotedChannelIsTuned'
  BY <1>2, <1>3 DEF TypeOK, NotedChannelIsTuned, Tune, Interfaces
<1> QED
  BY <1>1, <1>4, <1>5

(* Configuring two radios, on one channel each or otherwise, keeps the     *)
(* invariant.                                                              *)
LEMMA DualRadioIInv == IInv /\ DualRadio => IInv'
<1> SUFFICES ASSUME IInv, DualRadio PROVE IInv'
  OBVIOUS
<1> USE ProxyAppAssumption DEF IInv
<1>1. /\ numRadios' = 2 /\ on' \in SUBSET Interfaces
      /\ RadiosMatchCount'
  BY ConnectRadiosMatch DEF DualRadio
<1>2. PICK c \in [Interfaces -> Channels] :
         \/ Tune(c) /\ addressed' = Interfaces
         \/ UNCHANGED <<tuned, radioChannel, addressed>>
  BY DEF DualRadio
<1>3. UNCHANGED <<delayed, accepted>>
  BY DEF DualRadio
<1>4. TypeOK'
  BY <1>1, <1>2, <1>3 DEF TypeOK, Tune
<1>5. NotedChannelIsTuned'
  BY <1>2 DEF TypeOK, NotedChannelIsTuned, Tune
<1> QED
  BY <1>1, <1>4, <1>5

(* A packet from the scenario manager keeps the invariant. *)
LEMMA SendPacketIInv == IInv /\ SendPacket => IInv'
<1> SUFFICES ASSUME IInv, SendPacket PROVE IInv'
  OBVIOUS
<1> USE ProxyAppAssumption DEF IInv
<1>1. PICK i \in Interfaces, c \in PacketChannels :
         delayed' = delayed \cup
            {[id |-> accepted + 1, channel |-> c, to |-> i]}
  BY DEF SendPacket
<1>2. accepted' = accepted + 1 /\ accepted < MaxPackets
      /\ UNCHANGED <<numRadios, on, tuned, radioChannel, addressed>>
  BY DEF SendPacket, radioVars
<1>3. [id |-> accepted + 1, channel |-> c, to |-> i] \in Packet
  BY <1>2 DEF TypeOK, Packet
<1>4. TypeOK'
  BY <1>1, <1>2, <1>3 DEF TypeOK
<1> QED
  BY <1>2, <1>4 DEF RadiosMatchCount, NotedChannelIsTuned

(* Every step of the app keeps the invariant. *)
LEMMA NextIInv == IInv /\ [Next]_vars => IInv'
<1> SUFFICES ASSUME IInv, [Next]_vars PROVE IInv'
  OBVIOUS
<1>1. CASE HandleConfiguration
  BY <1>1, NoRadioIInv, SingleRadioIInv, DualRadioIInv DEF HandleConfiguration
<1>2. CASE SendPacket
  BY <1>2, SendPacketIInv
<1>3. CASE Depart
  BY <1>3 DEF Depart, radioVars, IInv, TypeOK, RadiosMatchCount, NotedChannelIsTuned
<1>4. CASE UNCHANGED vars
  BY <1>4 DEF vars, radioVars, IInv, TypeOK, RadiosMatchCount, NotedChannelIsTuned
<1> QED
  BY <1>1, <1>2, <1>3, <1>4 DEF Next

(* What the app knows of its radios is right in every reachable state:     *)
(* connectRadios and handleConfiguration, whatever they are told in        *)
(* whatever order.                                                         *)
THEOREM Invariance == Spec => [](TypeOK /\ RadiosMatchCount /\ NotedChannelIsTuned)
<1>1. IInv => TypeOK /\ RadiosMatchCount /\ NotedChannelIsTuned
  BY DEF IInv
<1> QED
  BY InitIInv, NextIInv, <1>1, PTL DEF Spec

(* Every variable of the app always has a value of its type. *)
THEOREM TypeCorrect == Spec => []TypeOK
BY Invariance, PTL

(* The first numRadios radios are on and the others off: what              *)
(* connectRadios does with the old number in mind is right for the new.    *)
THEOREM Radios == Spec => []RadiosMatchCount
BY Invariance, PTL

(* sendDelayedToUDP never chooses a radio that is off, nor one that a      *)
(* configuration has tuned to another channel than the packet's.           *)
THEOREM Acceptance == Spec => AcceptedForTunedRadio
<1> DEFINE Step == \A p \in delayed' \ delayed :
                      /\ p.to \in on
                      /\ radioChannel[p.to] # Uninitialized
                            => tuned[p.to] = p.channel
<1>1. ASSUME IInv, [Next]_vars PROVE [Step]_vars
  <2>1. CASE HandleConfiguration
    BY <2>1 DEF HandleConfiguration, NoRadio, SingleRadio, DualRadio
  <2>2. CASE SendPacket
    <3>1. PICK i \in Interfaces, c \in PacketChannels :
             /\ Chosen(i, c)
             /\ delayed' = delayed \cup
                   {[id |-> accepted + 1, channel |-> c, to |-> i]}
      BY <2>2 DEF SendPacket
    <3>2. i < numRadios /\ radioChannel[i] \in {c, Uninitialized}
      BY <3>1, <1>1
      DEF Chosen, MayEqual, Interfaces, IInv, TypeOK
    <3>3. i \in on
      BY <3>2, <1>1 DEF IInv, RadiosMatchCount
    <3>4. radioChannel[i] # Uninitialized => tuned[i] = c
      BY <3>2, <1>1, ProxyAppAssumption
      DEF IInv, TypeOK, NotedChannelIsTuned, PacketChannels
    <3> QED
      BY <3>1, <3>3, <3>4
  <2>3. CASE Depart
    BY <2>3 DEF Depart
  <2>4. CASE UNCHANGED vars
    BY <2>4
  <2> QED
    BY <1>1, <2>1, <2>2, <2>3, <2>4 DEF Next
<1> QED
  BY InitIInv, NextIInv, <1>1, PTL DEF Spec, AcceptedForTunedRadio
=============================================================================
