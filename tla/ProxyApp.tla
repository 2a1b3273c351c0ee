------------------------------ MODULE ProxyApp ------------------------------
(***************************************************************************)
(* MosaicProxyApp, the application of one node: it configures the node's   *)
(* two radios as MOSAIC tells it and gives each packet of MOSAIC's         *)
(* applications to the radio of the packet's channel, after a random       *)
(* processing delay.                                                       *)
(*                                                                         *)
(* Configurations and packets come from the scenario manager in any order. *)
(* Between the decision where a packet goes and its way into the UDP       *)
(* module lies the delay, and any number of other messages.                *)
(*                                                                         *)
(* Transmission powers, addresses' values and the packet's contents are    *)
(* left out: an interface has addresses or it has none.                    *)
(***************************************************************************)
EXTENDS Integers, FiniteSets

CONSTANTS
    Channels,       \* SCH1 .. SCH6 and CCH
    DefaultChannel, \* the radios' channelNumber in omnetpp.ini
    Undef,          \* UNDEF_CHANNEL
    Unused,         \* -1, the note of a radio that is not used
    Uninitialized,  \* the content of a note before it is first written
    MaxPackets      \* bound: the packets the app accepts for sending

ASSUME ProxyAppAssumption ==
    /\ DefaultChannel \in Channels
    /\ Undef \notin Channels
    /\ Unused \notin Channels \cup {Undef}
    /\ Uninitialized \notin Channels \cup {Undef, Unused}
    /\ MaxPackets \in Nat

Interfaces == {0, 1}                    \* ie0 with radio0, ie1 with radio1
Modes == {"SINGLE_CHANNEL", "DUAL_CHANNEL"}
PacketChannels == Channels \cup {Undef}
Packet == [id : 1 .. MaxPackets, channel : PacketChannels, to : Interfaces]

VARIABLES
    numRadios,      \* numRadios
    on,             \* the radios whose mode is not RADIO_MODE_OFF
    tuned,          \* the channel number of each radio
    radioChannel,   \* radio0Channel and radio1Channel
    addressed,      \* the interfaces with an IP address
    delayed,        \* packets on their way to socketOut
    accepted        \* packets accepted so far

radioVars == <<numRadios, on, tuned, radioChannel, addressed>>
vars == <<radioVars, delayed, accepted>>

(* initialize: stage 5 finds both radios on and switches them off. *)
Init ==
    /\ numRadios = 0
    /\ on = {}
    /\ tuned = [i \in Interfaces |-> DefaultChannel]
    /\ radioChannel = [i \in Interfaces |-> Uninitialized]
    /\ addressed = {}
    /\ delayed = {}
    /\ accepted = 0

-----------------------------------------------------------------------------
(* handleConfiguration *)

(* Mutant: the first radio is only ever switched on with one radio. *)
ConnectRadios_First(number) ==
    /\ on' = CASE number = 0 -> {i \in on : i >= numRadios}
               [] number = 1 -> (IF numRadios = 0 THEN on \cup {0} ELSE on)
                                   \ (IF numRadios = 2 THEN {1} ELSE {})
               [] number = 2 -> on \cup {1}
    /\ numRadios' = number

(* Every case looks at the number of radios that are on, and switches only *)
(* those it has to.                                                        *)
ConnectRadios(number) ==
    /\ on' = CASE number = 0 -> {i \in on : i >= numRadios}
               [] number = 1 -> (IF numRadios = 0 THEN on \cup {0} ELSE on)
                                   \ (IF numRadios = 2 THEN {1} ELSE {})
               [] number = 2 -> on \cup {i \in Interfaces : i >= numRadios}
    /\ numRadios' = number

(* setChannelNumber of a radio, and the app's note of it. *)
Tune(channel) ==
    LET known == DOMAIN channel IN
    /\ tuned' = [i \in Interfaces |->
                    IF i \in known THEN channel[i] ELSE tuned[i]]
    /\ radioChannel' = [i \in Interfaces |->
                    IF i \in known THEN channel[i] ELSE radioChannel[i]]

(* Mutant: an unused radio is noted with UNDEF_CHANNEL. *)
NoRadio_Undef ==
    /\ ConnectRadios(0)
    /\ radioChannel' = [i \in Interfaces |-> Undef]
    /\ UNCHANGED <<tuned, addressed, delayed, accepted>>

NoRadio ==
    /\ ConnectRadios(0)
    /\ radioChannel' = [i \in Interfaces |-> Unused]
    /\ UNCHANGED <<tuned, addressed, delayed, accepted>>

(* The addresses are set in both modes, the channel in one. *)
SingleRadio ==
    /\ ConnectRadios(1)
    /\ \E mode \in Modes, c \in Channels :
          IF mode = "SINGLE_CHANNEL"
          THEN Tune([i \in {0} |-> c])
          ELSE UNCHANGED <<tuned, radioChannel>>
    /\ addressed' = addressed \cup {0}
    /\ UNCHANGED <<delayed, accepted>>

(* Mutant: the second radio is noted with the channel of the first. *)
DualRadio_Copied ==
    /\ ConnectRadios(2)
    /\ \E mode \in [Interfaces -> Modes], c \in [Interfaces -> Channels] :
          IF \A i \in Interfaces : mode[i] = "SINGLE_CHANNEL"
          THEN /\ tuned' = c
               /\ radioChannel' = [i \in Interfaces |-> c[0]]
               /\ addressed' = Interfaces
          ELSE UNCHANGED <<tuned, radioChannel, addressed>>
    /\ UNCHANGED <<delayed, accepted>>

(* Two radios of which one has two channels are switched on and left so. *)
DualRadio ==
    /\ ConnectRadios(2)
    /\ \E mode \in [Interfaces -> Modes], c \in [Interfaces -> Channels] :
          IF \A i \in Interfaces : mode[i] = "SINGLE_CHANNEL"
          THEN Tune(c) /\ addressed' = Interfaces
          ELSE UNCHANGED <<tuned, radioChannel, addressed>>
    /\ UNCHANGED <<delayed, accepted>>

HandleConfiguration ==
    \/ NoRadio
    \/ SingleRadio
    \/ DualRadio

-----------------------------------------------------------------------------
(* sendPacket and sendDelayedToUDP *)

(* The comparison of a packet's channel with radio0Channel or              *)
(* radio1Channel; an uninitialized one may hold any value.                 *)
MayEqual(i, channel) == radioChannel[i] \in {channel, Uninitialized}
MayDiffer(i, channel) == radioChannel[i] # channel

(* Mutant: only the channels are compared, not the number of radios. *)
Chosen_Stale(i, channel) ==
    IF i = 0 THEN MayEqual(0, channel)
             ELSE MayDiffer(0, channel) /\ MayEqual(1, channel)

(* sendDelayedToUDP may choose interface i for a packet. *)
Chosen(i, channel) ==
    IF i = 0 THEN numRadios > 0 /\ MayEqual(0, channel)
             ELSE /\ numRadios > 1
                  /\ MayDiffer(0, channel) /\ MayEqual(1, channel)

(* A packet from the scenario manager.  Without a radio, or with a channel *)
(* that no radio uses, it is discarded and nothing changes.                *)
SendPacket ==
    /\ numRadios > 0
    /\ accepted < MaxPackets
    /\ \E i \in Interfaces, c \in PacketChannels :
          /\ Chosen(i, c)
          /\ delayed' = delayed \cup
                {[id |-> accepted + 1, channel |-> c, to |-> i]}
    /\ accepted' = accepted + 1
    /\ UNCHANGED radioVars

(* The delay of a packet is over: it arrives at the UDP module.  Delays are *)
(* random, packets overtake each other.                                    *)
Depart ==
    /\ \E p \in delayed : delayed' = delayed \ {p}
    /\ UNCHANGED <<radioVars, accepted>>

Next ==
    \/ HandleConfiguration
    \/ SendPacket
    \/ Depart

Spec == Init /\ [][Next]_vars

-----------------------------------------------------------------------------
(* Properties *)

(* The type invariant: every field of the app, and what it has set in the  *)
(* radios and interfaces, has one of the values the code can give it.      *)
TypeOK ==
    /\ numRadios \in 0 .. 2
    /\ on \in SUBSET Interfaces
    /\ tuned \in [Interfaces -> Channels]
    /\ radioChannel \in
          [Interfaces -> Channels \cup {Unused, Uninitialized}]
    /\ addressed \in SUBSET Interfaces
    /\ delayed \in SUBSET Packet
    /\ accepted \in 0 .. MaxPackets

(* After any sequence of configurations, each of which switches only what  *)
(* it believes necessary, exactly the first numRadios radios are on.       *)
RadiosMatchCount == on = {i \in Interfaces : i < numRadios}

(* A channel the app has noted for a radio is the one the radio is tuned   *)
(* to, and its interface has addresses, also when the radio has been off   *)
(* or configured otherwise since.                                          *)
NotedChannelIsTuned ==
    \A i \in Interfaces :
       radioChannel[i] \in Channels =>
          radioChannel[i] = tuned[i] /\ i \in addressed

(* Whenever a packet is accepted, the radio chosen for it is on and, if a  *)
(* configuration ever set its channel, tuned to the channel of the packet: *)
(* the note for the second radio, which survives its being switched off,   *)
(* is not used while it is stale.                                          *)
AcceptedForTunedRadio ==
    [][\A p \in delayed' \ delayed :
          /\ p.to \in on
          /\ radioChannel[p.to] # Uninitialized => tuned[p.to] = p.channel]_vars

(* MosaicProxyApp.cc: "an interface is either there and fully configured   *)
(* or removed".  The code breaks this: a configuration with two channels   *)
(* on one radio switches radios on and returns before it sets channels.    *)
FullyConfigured ==
    \A i \in on : radioChannel[i] = tuned[i] /\ i \in addressed

(* MosaicProxyApp.h: "0 means no radio and thus no message sending".  The  *)
(* code breaks this: it looks at the number of radios before the delay.    *)
NoRadioNoSending ==
    [][\A p \in delayed \ delayed' : numRadios > 0]_vars
=============================================================================
