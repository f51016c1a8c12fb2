-------------------------------- MODULE Link --------------------------------
(***************************************************************************)
(* The Ethernet link and the address: ethernet_link_thread of              *)
(* ethernetif.c polls the PHY, its callback and DHCP_Thread of             *)
(* app_ethernet.c share DHCP_state, and the DHCP client of LwIP gets the   *)
(* address.  The link thread has the higher priority: its poll is one step *)
(* and can come between any two steps of DHCP_Thread.                      *)
(***************************************************************************)
EXTENDS Integers

CONSTANTS
  Speeds,     \* speed and duplex mode the PHY can negotiate
  Default,    \* what low_level_init takes before the PHY is ready
  Boot,       \* the states of the PHY at power-on
  Leases,     \* the addresses a DHCP server hands out
  MaxTries,   \* MAX_DHCP_TRIES
  CountedTries, \* bound: the client's tries are counted up to here
  MaxPlugs    \* bound: how often the cable is pulled or plugged

None == "none"
StaticAddr == "static"

ASSUME SpeedsAssumption == Default \in Speeds
ASSUME BootAssumption == Boot \subseteq Speeds \cup {"down", "autoneg"}
ASSUME LeasesAssumption == {None, StaticAddr} \cap Leases = {}
(* 6: the client gives a request up after more than 5 tries.               *)
ASSUME NumbersAssumption ==
  /\ MaxTries \in Nat \ {0, 1} /\ MaxPlugs \in Nat
  /\ CountedTries \in Nat /\ CountedTries >= 6 /\ CountedTries >= MaxTries

VARIABLES
  phy,        \* "down", "autoneg" (negotiation not done) or a speed
  plugs,
  mac,        \* the speed and duplex the MAC is configured for
  chosen,     \* speed and duplex of the link thread; None: linkchanged = 0
  up,         \* the flags NETIF_FLAG_UP and NETIF_FLAG_LINK_UP
  DHCP_state,
  at,         \* where DHCP_Thread is
  dhcp,       \* the client of LwIP: NoClient or its state
  tries,      \* dhcp->tries
  addr,       \* the address of the interface
  gIPAddr     \* the address the firmware reports

linkVars == <<phy, plugs, mac, chosen, up>>
dhcpVars == <<DHCP_state, at, dhcp, tries, addr, gIPAddr>>
netifVars == <<linkVars, dhcpVars>>

NoClient == "NULL"
Off == {NoClient, "OFF"}
(* A lease is renewed and rebound in the state BOUND, too.                 *)
Clients == Off \cup {"SELECTING", "REQUESTING", "CHECKING", "BACKING_OFF",
                    "BOUND", "REBOOTING"}

(* low_level_init takes the link as it is.  Netif_Config adds the          *)
(* interface with the static address, calls the callback once and starts   *)
(* the two threads; with CFG_NET_STATIC it starts no DHCP_Thread.          *)
LinkInit ==
  /\ phy \in Boot /\ plugs = 0
  /\ mac = IF phy \in Speeds THEN phy ELSE Default
  /\ chosen = None
  /\ up = (phy # "down")
  /\ DHCP_state = IF up THEN "START" ELSE "LINK_DOWN"
  /\ at \in {"loop", "dead"}
  /\ dhcp = NoClient /\ tries = 0
  /\ addr = StaticAddr /\ gIPAddr = StaticAddr
-----------------------------------------------------------------------------
(* dhcp_discover, dhcp_select, dhcp_check, dhcp_decline and dhcp_reboot    *)
(* enter their state and count a try: dhcp_set_state starts the count      *)
(* again whenever the state is a new one.                                  *)
Ask(state) ==
  /\ dhcp' = state
  /\ tries' = IF state # dhcp THEN 1
              ELSE IF tries < CountedTries THEN tries + 1 ELSE tries

(* dhcp_network_changed resets the count even in the same state.           *)
dhcp_network_changed ==
  IF dhcp \in Off THEN UNCHANGED <<dhcp, tries>>
  ELSE /\ dhcp' = IF dhcp \in {"BOUND", "REBOOTING"} THEN "REBOOTING"
                 ELSE "SELECTING"
       /\ tries' = 1
-----------------------------------------------------------------------------
Plug ==
  /\ plugs < MaxPlugs /\ plugs' = plugs + 1
  /\ phy' = IF phy = "down" THEN "autoneg" ELSE "down"
  /\ UNCHANGED <<mac, chosen, up, dhcpVars>>

Negotiate ==
  /\ phy = "autoneg" /\ phy' \in Speeds
  /\ UNCHANGED <<plugs, mac, chosen, up, dhcpVars>>

IsDown_xNever(p) == FALSE
IsDown(p) == p = "down"

LinkDown ==
  /\ up /\ IsDown(phy)
  /\ up' = FALSE
  /\ DHCP_state' = "LINK_DOWN"
  /\ UNCHANGED <<phy, plugs, mac, chosen, at, dhcp, tries, addr, gIPAddr>>

Chosen(new) == new # None

(* Speed and duplex stay those of the last time if the PHY is not ready:   *)
(* linkchanged is never cleared.                                           *)
LinkUp ==
  LET new == IF phy \in Speeds THEN phy ELSE chosen
  IN /\ ~up /\ ~IsDown(phy)
     /\ chosen' = new
     /\ IF Chosen(new)
        THEN /\ mac' = new
             /\ up' = TRUE
             /\ DHCP_state' = "START"
             /\ dhcp_network_changed
        ELSE UNCHANGED <<mac, up, DHCP_state, dhcp, tries>>
     /\ UNCHANGED <<phy, plugs, at, addr, gIPAddr>>
-----------------------------------------------------------------------------
(* DHCP_Thread.                                                            *)
Loop ==
  /\ at = "loop"
  /\ at' = IF DHCP_state \in {"OFF", "ADDRESS_ASSIGNED", "TIMEOUT"}
           THEN "dead" ELSE DHCP_state
  /\ UNCHANGED <<linkVars, DHCP_state, dhcp, tries, addr, gIPAddr>>

StartWaits ==
  /\ at = "START" /\ at' = "dhcp_start"
  /\ addr' = None
  /\ DHCP_state' = "WAIT_ADDRESS"
  /\ UNCHANGED <<linkVars, dhcp, tries, gIPAddr>>

(* An interface that is down is refused, and may be left without a client. *)
dhcp_start ==
  /\ at = "dhcp_start" /\ at' = "loop"
  /\ IF up THEN dhcp' = "SELECTING" /\ tries' = 1
           ELSE UNCHANGED <<dhcp, tries>>
  /\ UNCHANGED <<linkVars, DHCP_state, addr, gIPAddr>>

(* dhcp_stop removes the address, if there is a client that is on.         *)
dhcp_stop_xNot == UNCHANGED <<dhcp, tries>>
dhcp_stop ==
  /\ dhcp' = IF dhcp = NoClient THEN NoClient ELSE "OFF"
  /\ tries' = 0
Kept == IF dhcp \in Off THEN addr ELSE None

WaitLooks ==
  /\ at = "WAIT_ADDRESS"
  /\ at' = IF dhcp = "BOUND" THEN "assigned" ELSE "tries"
  /\ UNCHANGED <<linkVars, DHCP_state, dhcp, tries, addr, gIPAddr>>

Assigned ==
  /\ at = "assigned" /\ at' = "loop"
  /\ DHCP_state' = "ADDRESS_ASSIGNED"
  /\ gIPAddr' = addr
  /\ UNCHANGED <<linkVars, dhcp, tries, addr>>

(* Without a client dhcp->tries is read through NULL: it may be anything.  *)
LastTry_xNever(t) == FALSE
LastTry(t) == t >= MaxTries - 1
TriesRead == IF dhcp = NoClient THEN 0 .. CountedTries ELSE {tries}

WaitGoesOn ==
  /\ at = "tries" /\ (\E t \in TriesRead : ~LastTry(t)) /\ at' = "loop"
  /\ UNCHANGED <<linkVars, DHCP_state, dhcp, tries, addr, gIPAddr>>

(* An answer may still come between the look at the tries and dhcp_stop.   *)
WaitGivesUp ==
  /\ at = "tries" /\ (\E t \in TriesRead : LastTry(t)) /\ at' = "timeout"
  /\ DHCP_state' = "TIMEOUT"
  /\ UNCHANGED <<linkVars, dhcp, tries, addr, gIPAddr>>

TimedOut ==
  /\ at = "timeout" /\ at' = "loop"
  /\ dhcp_stop
  /\ addr' = StaticAddr
  /\ gIPAddr' = StaticAddr
  /\ UNCHANGED <<linkVars, DHCP_state>>

LinkIsDown ==
  /\ at = "LINK_DOWN" /\ at' = "loop"
  /\ dhcp_stop
  /\ addr' = Kept
  /\ DHCP_state' = "OFF"
  /\ gIPAddr' = None
  /\ UNCHANGED linkVars

DHCP_Thread ==
  \/ Loop \/ StartWaits \/ dhcp_start \/ WaitLooks \/ Assigned
  \/ WaitGoesOn \/ WaitGivesUp \/ TimedOut \/ LinkIsDown
-----------------------------------------------------------------------------
dhcp_bind == dhcp' = "BOUND" /\ tries' = 0 /\ addr' \in Leases

(* dhcp_release_and_stop, then dhcp_start, which an interface that is down *)
(* refuses.                                                                *)
StartOver ==
  /\ addr' = None
  /\ IF up THEN dhcp' = "SELECTING" /\ tries' = 1
           ELSE dhcp' = "OFF" /\ tries' = 0

RebootTries == 2

(* The client of LwIP, in tcpip_thread.  The request timeout in each state *)
(* asks again, or goes on; dhcp_fine_tmr runs it with or without a link.   *)
dhcp_timeout ==
  /\ \/ dhcp \in {"SELECTING", "BACKING_OFF"} /\ Ask("SELECTING")
        /\ UNCHANGED addr
     \/ dhcp = "REQUESTING" /\ tries <= 5 /\ Ask("REQUESTING")
        /\ UNCHANGED addr
     \/ dhcp = "REQUESTING" /\ tries > 5 /\ StartOver
     \/ dhcp = "CHECKING" /\ tries <= 1 /\ Ask("CHECKING")
        /\ UNCHANGED addr
     \/ dhcp = "CHECKING" /\ tries > 1 /\ dhcp_bind
     \/ dhcp = "REBOOTING" /\ tries < RebootTries /\ Ask("REBOOTING")
        /\ UNCHANGED addr
     \/ dhcp = "REBOOTING" /\ tries >= RebootTries /\ Ask("SELECTING")
        /\ UNCHANGED addr
  /\ UNCHANGED <<linkVars, DHCP_state, at, gIPAddr>>

(* An offer is requested, and an acknowledged address is checked by ARP    *)
(* unless the client had it before.                                        *)
DhcpOffer ==
  /\ dhcp = "SELECTING" /\ Ask("REQUESTING")
  /\ UNCHANGED <<linkVars, DHCP_state, at, addr, gIPAddr>>

DhcpAck ==
  /\ \/ dhcp = "REQUESTING" /\ Ask("CHECKING") /\ UNCHANGED addr
     \/ dhcp \in {"REBOOTING", "BOUND"} /\ dhcp_bind
  /\ UNCHANGED <<linkVars, DHCP_state, at, gIPAddr>>

dhcp_handle_nak ==
  /\ dhcp \in {"REQUESTING", "REBOOTING", "BOUND"}
  /\ dhcp' = "SELECTING" /\ tries' = 1
  /\ addr' = None
  /\ UNCHANGED <<linkVars, DHCP_state, at, gIPAddr>>

(* Another host has the address.                                           *)
dhcp_arp_reply ==
  /\ dhcp = "CHECKING" /\ Ask("BACKING_OFF")
  /\ UNCHANGED <<linkVars, DHCP_state, at, addr, gIPAddr>>

LeaseExpires ==
  /\ dhcp = "BOUND" /\ StartOver
  /\ UNCHANGED <<linkVars, DHCP_state, at, gIPAddr>>

Server == DhcpOffer \/ DhcpAck \/ dhcp_handle_nak \/ dhcp_arp_reply \/ LeaseExpires

LinkNext ==
  \/ Plug \/ Negotiate
  \/ LinkDown \/ LinkUp
  \/ DHCP_Thread
  \/ dhcp_timeout \/ Server

LinkSpec == LinkInit /\ [][LinkNext]_netifVars

(* The threads poll for ever, the PHY completes a negotiation, the client  *)
(* has its timer; no server need ever answer.                              *)
LinkFairSpec ==
  /\ LinkSpec
  /\ WF_netifVars(LinkDown \/ LinkUp)
  /\ WF_netifVars(DHCP_Thread)
  /\ WF_netifVars(dhcp_timeout)
  /\ WF_netifVars(Negotiate)
-----------------------------------------------------------------------------
(* Every variable stays in its range.                                      *)
LinkTypeOK ==
  /\ phy \in Speeds \cup {"down", "autoneg"} /\ plugs \in 0 .. MaxPlugs
  /\ mac \in Speeds /\ chosen \in Speeds \cup {None} /\ up \in BOOLEAN
  /\ DHCP_state \in {"OFF", "START", "WAIT_ADDRESS", "ADDRESS_ASSIGNED",
                     "TIMEOUT", "LINK_DOWN"}
  /\ at \in {"loop", "START", "dhcp_start", "WAIT_ADDRESS", "assigned",
             "tries", "timeout", "LINK_DOWN", "dead"}
  /\ dhcp \in Clients /\ tries \in 0 .. CountedTries
  /\ {addr, gIPAddr} \subseteq Leases \cup {None, StaticAddr}

(* The interface follows the cable: it is taken down when the link is      *)
(* gone, and up when a negotiation is complete.                            *)
LinkFollows ==
  /\ phy = "down" ~> (phy # "down" \/ ~up)
  /\ phy \in Speeds ~> (phy \notin Speeds \/ up)

(* With the link there at power-on and the cable left alone, DHCP_Thread   *)
(* ends up with an address and reports that one: a server's, or the static *)
(* one after MAX_DHCP_TRIES.  It is owed only if the servers do not make   *)
(* the client start over again and again, each time with a new count of    *)
(* tries, and unless the lease goes between dhcp_supplied_address and the  *)
(* copy of the address.                                                    *)
BackToDiscovery == dhcp \notin Off \cup {"SELECTING"} /\ dhcp' = "SELECTING"
AddressInTheEnd ==
  <>[][~BackToDiscovery]_netifVars =>
    ((at = "dhcp_start" /\ up /\ plugs = 0) ~>
       \/ plugs > 0
       \/ gIPAddr # None /\ gIPAddr = addr
       \/ at = "assigned" /\ dhcp # "BOUND")

(* The static address is that of the start or the last resort: while the   *)
(* interface has it there is no client that would replace it, whatever is  *)
(* answered late and however often the cable is pulled.  DHCP_Thread takes *)
(* the address away before it starts a client, and stops the client before *)
(* it sets the address again.                                              *)
StaticHasNoClient == addr = StaticAddr => dhcp \in Off
=============================================================================
