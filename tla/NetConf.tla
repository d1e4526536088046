------------------------------- MODULE NetConf -------------------------------
(***************************************************************************)
(* The network configuration item by item (main.c): the globals it is kept *)
(* in, the file net.conf, and what the network interface really has.  A    *)
(* message from the board changes some items (handle_netconf); if that     *)
(* calls for a reset, the file is written anew and the interface set up.   *)
(* The process may die at any moment, of SIGTERM or otherwise, or the      *)
(* whole board lose its power; started again it loads the file.  The calls *)
(* that set up the interface may fail, and the code never looks.           *)
(*                                                                         *)
(* How the net thread is stopped and started around this is in NetCtl.     *)
(***************************************************************************)
EXTENDS Naturals, Sequences, FiniteSets

CONSTANTS
  Message,    \* messages: functions from Item to a value or Absent
  Value,      \* values an item can have
  Invalid,    \* those of them that are no unicast address
  Hardware,   \* the value each address of the interface has after power-up
  MaxMsg      \* bound: messages received

\* The order of the lines in the file.
Keys == <<"ipaddr", "port", "netmask", "gateway", "macaddr", "hbtmeo">>
Item == {Keys[i] : i \in DOMAIN Keys}
Address == {"ipaddr", "netmask", "gateway"}

Absent == "absent"      \* zeros in the message: the item is not in it
Default == "default"    \* initial value of the globals: "" for an address,
                        \* zeros for g_mac, DEF_PRT, 3 minutes
Cut == "cut"            \* what is left of a value when its line was cut short
Lost == "lost"          \* what the kernel puts for an address it has dropped:
                        \* the mask of the address class, no default route

ASSUME ConfAssumption ==
  /\ Message \subseteq [Item -> Value \cup {Absent}]
  /\ Invalid \subseteq Value /\ Hardware \in Value
  /\ {Absent, Default, Cut, Lost} \cap Value = {}
  /\ MaxMsg \in Nat

VARIABLES
  pc,       \* "boot", "loop", or in the reset: "open", "write", "config"
  conf,     \* the globals g_ipaddr, g_prt, g_msk, g_gw, g_mac, hb_tmeo
  file,     \* lines of net.conf
  iface,    \* addresses the interface has
  nmsg,     \* messages so far
  unsaved,  \* history: fopen failed since the file was last written
  amiss     \* history: addresses that the last start or reset did not set, for
            \* a call that failed or was left out after the kernel's change

vars == <<pc, conf, file, iface, nmsg, unsaved, amiss>>

Stored == Value \cup {Default, Cut}
Line == [key : Item, val : Stored]

\* store_net_conf: every item, whether it has been set or not.
Lines(c) == [i \in DOMAIN Keys |-> [key |-> Keys[i], val |-> c[Keys[i]]]]

\* load_net_conf: the items that have a line, with three exceptions.  The
\* branch for macaddr is empty, an ipaddr must be valid, and an address that
\* was stored empty is not taken for a value (the default is empty, too).
Loaded(lines) ==
  [k \in Item |->
     LET found == {l \in {lines[i] : i \in DOMAIN lines} :
                     /\ l.key = k /\ k # "macaddr"
                     /\ k = "ipaddr" => l.val \notin Invalid}
     IN  IF found = {} THEN Default ELSE (CHOOSE l \in found : TRUE).val]

\* What the kernel may drop when one of the calls is done: a new address comes
\* with the mask of its class, and the routes of the old network go.
Upset == [ipaddr |-> {"netmask", "gateway"}, netmask |-> {"gateway"},
          gateway |-> {}, macaddr |-> {}]
UpsetBy(done) == UNION {Upset[k] : k \in done}
Droppable == {"netmask", "gateway"}

\* u_if_set_ip, u_if_set_mask, u_if_set_mac, u_route_add on interface i, for one
\* address of c.  A call that is not done (it fails, or is never made) changes
\* nothing.
Set(k, i, c, done, drops) ==
  IF k \in done
  THEN [x \in DOMAIN i |-> IF x = k THEN c[k]
                           ELSE IF x \in Upset[k] \cap drops THEN Lost ELSE i[x]]
  ELSE i

\* u_if_down: the routes go.
Down(i, drops) == [x \in DOMAIN i |-> IF x \in {"gateway"} \cap drops THEN Lost ELSE i[x]]

\* The calls of load_net_conf: line by line, the route when the file is closed.
Loading(i, c, done, drops) ==
  LET ip   == Set("ipaddr", i, c, done, drops)
      mask == Set("netmask", ip, c, done, drops)
  IN  Set("gateway", mask, c, done, drops)

\* Faulty: the route is added before the interface goes down.
ConfiguringRouteFirst(i, c, done, drops) ==
  Set("macaddr", Down(Loading(i, c, done, drops), drops), c, done, drops)

\* The calls of config_netif.
Configuring(i, c, done, drops) ==
  LET ip   == Set("ipaddr", i, c, done, drops)
      mask == Set("netmask", ip, c, done, drops)
      mac  == Set("macaddr", Down(mask, drops), c, done, drops)
  IN  Set("gateway", mac, c, done, drops)

\* An address that is empty, or a MAC of zeros, is refused by every call.
Given(c) == {k \in DOMAIN iface : c[k] # Default}

\* The calls load_net_conf makes: for what differs from the hw_* that
\* get_def_netinfo has read just before it; known are those it could read.
Called(c, known) ==
  {k \in Address \cap Given(c) : ~(k \in known /\ c[k] = iface[k])}

PowerUp == [k \in Address \cup {"macaddr"} |-> Hardware]

\* First boot, with no file.
Init ==
  /\ pc = "boot" /\ conf = [k \in Item |-> Default] /\ file = <<>>
  /\ iface = PowerUp /\ nmsg = 0 /\ unsaved = FALSE /\ amiss = {}

---------------------------------------------------------------------------
\* main: get_def_netinfo and load_net_conf.  Amiss are the addresses whose call
\* failed, and those that need none by the hw_* and that a call has upset since.
load_net_conf ==
  /\ pc = "boot"
  /\ conf' = Loaded(file)
  /\ \E known \in SUBSET Address, drops \in SUBSET Droppable :
       LET called == Called(conf', known)
       IN  \E done \in SUBSET called :
             /\ iface' = Loading(iface, conf', done, drops)
             /\ amiss' = (called \ done) \cup (UpsetBy(done) \ called)
  /\ pc' = "loop"
  /\ UNCHANGED <<file, nmsg, unsaved>>

\* Faulty: an address is taken without is_valid_unip.
ChangedUnchecked(m) == {k \in Item : m[k] \notin {Absent, conf[k]}}

\* The items of a message that differ: present, valid, not what we have.
Changed(m) ==
  {k \in Item : m[k] \notin {Absent, conf[k]} /\ (k = "ipaddr" => m[k] \notin Invalid)}

\* Faulty: a new gateway does not call for a reset.
ResetItemsNoGateway == Item \ {"macaddr", "gateway"}

\* The items whose change is counted in need_reset.
ResetItems == Item \ {"macaddr"}

handle_netconf(m) ==
  /\ pc = "loop" /\ nmsg < MaxMsg
  /\ nmsg' = nmsg + 1
  /\ conf' = [k \in Item |-> IF k \in Changed(m) THEN m[k] ELSE conf[k]]
  /\ pc' = IF Changed(m) \cap ResetItems # {} THEN "open" ELSE "loop"
  /\ UNCHANGED <<file, iface, unsaved, amiss>>

\* store_net_conf, fopen(..., "w"): the file is empty now.
OpenFile ==
  /\ pc = "open"
  /\ file' = <<>>
  /\ pc' = "write"
  /\ UNCHANGED <<conf, iface, nmsg, unsaved, amiss>>

OpenFails ==
  /\ pc = "open"
  /\ unsaved' = TRUE
  /\ pc' = "config"
  /\ UNCHANGED <<conf, file, iface, nmsg, amiss>>

\* store_net_conf: the lines, in one piece with the fflush.
WriteFile ==
  /\ pc = "write"
  /\ file' = Lines(conf)
  /\ unsaved' = FALSE
  /\ pc' = "config"
  /\ UNCHANGED <<conf, iface, nmsg, amiss>>

config_netif ==
  /\ pc = "config"
  /\ \E done \in SUBSET Given(conf), drops \in SUBSET Droppable :
       /\ iface' = Configuring(iface, conf, done, drops)
       /\ amiss' = (Address \cap Given(conf)) \ done
  /\ pc' = "loop"
  /\ UNCHANGED <<conf, file, nmsg, unsaved>>

\* Started again the program has no item but from the file.
Gone ==
  /\ conf' = [k \in Item |-> Default]
  /\ pc' = "boot"
  /\ unsaved' = FALSE
  /\ amiss' = {}
  /\ UNCHANGED nmsg

\* The program ends, or the power does once the kernel has written back what
\* it was given.
Crash ==
  /\ iface' \in {iface, PowerUp}
  /\ Gone
  /\ UNCHANGED file

\* It ends with some of the calls made, and some of those done.
CrashConfiguring ==
  /\ pc \in {"boot", "config"}
  /\ \E drops \in SUBSET Droppable :
       \/ /\ pc = "config"
          /\ \E done \in SUBSET Given(conf) :
               iface' = Configuring(iface, conf, done, drops)
       \/ /\ pc = "boot"
          /\ \E done \in SUBSET Called(Loaded(file), {}) :
               iface' = Loading(iface, Loaded(file), done, drops)
  /\ Gone
  /\ UNCHANGED file

\* sigterm_hanle in the middle of store_net_conf: exit writes the lines printed
\* so far, and the one that is being printed as far as it has got.
CutShort(lines, n) ==
  {SubSeq(lines, 1, n), [SubSeq(lines, 1, n) EXCEPT ![n].val = Cut]}

sigterm_hanle ==
  /\ pc = "write"
  /\ \E n \in DOMAIN Keys : file' \in CutShort(Lines(conf), n)
  /\ Gone
  /\ UNCHANGED iface

---------------------------------------------------------------------------
Next ==
  \/ load_net_conf
  \/ \E m \in Message : handle_netconf(m)
  \/ OpenFile \/ OpenFails \/ WriteFile \/ config_netif
  \/ Crash \/ CrashConfiguring \/ sigterm_hanle

Spec == Init /\ [][Next]_vars

---------------------------------------------------------------------------
(* Properties *)

\* The globals and the file hold values of their kind, and no address that
\* is not valid ever gets into g_ipaddr or its line.
TypeOK ==
  /\ pc \in {"boot", "loop", "open", "write", "config"}
  /\ conf \in [Item -> Stored] /\ conf["ipaddr"] \notin Invalid
  /\ file \in Seq(Line) /\ Len(file) <= Len(Keys)
  /\ iface \in [Address \cup {"macaddr"} -> Value \cup {Cut, Lost}]
  /\ nmsg \in 0 .. MaxMsg /\ unsaved \in BOOLEAN /\ amiss \subseteq Address

\* Back in its loop, the program could crash and lose nothing: what it would
\* load is what it has, for every item but the MAC address, unless the file
\* could not be opened (main.c:220-330, 954-965).
Durable ==
  pc = "loop" /\ ~unsaved =>
    \A k \in Item \ {"macaddr"} : Loaded(file)[k] = conf[k]

\* The interface has the addresses the program believes it has, those apart
\* whose own call has failed, unnoticed, and those that load_net_conf has left
\* out as equal to hw_* and that one of its calls has upset since.  One failure
\* spoils no other address, and a reset leaves none out (main.c:209-218,
\* 220-311).
InterfaceAgrees ==
  pc = "loop" => \A k \in Address \ amiss : conf[k] \in {Default, iface[k]}

\* What makes them so: from the moment the lines are written.
Saved == \A k \in Item \ {"macaddr"} : Loaded(file)[k] = conf[k]
IInv ==
  /\ TypeOK /\ InterfaceAgrees
  /\ pc \in {"loop", "config"} /\ ~unsaved => Saved
=============================================================================
