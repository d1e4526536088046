---------------------------- MODULE RestartProofs ----------------------------
(***************************************************************************)
(* Proofs about what is there again after the program has died.  Its       *)
(* configuration is (NetConf): for every set of values and messages, and   *)
(* for any number of messages, resets and crashes.  The program itself is, *)
(* its supervisor starting it (Daemon), and never twice: for any number of *)
(* processes and of failures.                                              *)
(***************************************************************************)
EXTENDS NetConf, Daemon, FiniteSetTheorems, SequenceTheorems, TLAPS

---------------------------------------------------------------------------
(* Lemmas about the file *)

\* The six items are different.
LEMMA SixItems ==
  /\ DOMAIN Keys = 1 .. 6 /\ Len(Keys) = 6
  /\ \A i, j \in 1 .. 6 : Keys[i] = Keys[j] => i = j
  /\ \A i \in 1 .. 6 : Keys[i] \in Item
  /\ \A k \in Item : \E i \in 1 .. 6 : k = Keys[i]
  /\ Address \subseteq Item \ {"macaddr"} /\ "ipaddr" \in Item /\ "macaddr" \in Item
<1>1. DOMAIN Keys = 1 .. 6 /\ Len(Keys) = 6
  BY DEF Keys
<1>2. /\ Keys[1] = "ipaddr" /\ Keys[2] = "port" /\ Keys[3] = "netmask"
      /\ Keys[4] = "gateway" /\ Keys[5] = "macaddr" /\ Keys[6] = "hbtmeo"
  BY DEF Keys
<1>3. \A i \in 1 .. 6 : i = 1 \/ i = 2 \/ i = 3 \/ i = 4 \/ i = 5 \/ i = 6
  OBVIOUS
<1>4. \A i, j \in 1 .. 6 : Keys[i] = Keys[j] => i = j
  BY <1>2, <1>3
<1>5. \A i \in 1 .. 6 : Keys[i] \in Item
  BY <1>1 DEF Item
<1>6. \A k \in Item : \E i \in 1 .. 6 : k = Keys[i]
  BY <1>1 DEF Item
<1>7. "ipaddr" \in Item /\ "netmask" \in Item /\ "gateway" \in Item /\ "macaddr" \in Item
  BY <1>2, <1>5
<1>8. QED
  BY <1>1, <1>4, <1>5, <1>6, <1>7 DEF Address

\* What the file holds is a line, wherever it was cut.
LEMMA LinesType ==
  ASSUME NEW c \in [Item -> Stored]
  PROVE  /\ Lines(c) \in Seq(Line) /\ Len(Lines(c)) = 6
         /\ \A i \in 1 .. 6 : Lines(c)[i] = [key |-> Keys[i], val |-> c[Keys[i]]]
<1>1. Lines(c) = [i \in 1 .. 6 |-> [key |-> Keys[i], val |-> c[Keys[i]]]]
  BY SixItems DEF Lines
<1>2. \A i \in 1 .. 6 : [key |-> Keys[i], val |-> c[Keys[i]]] \in Line
  BY SixItems DEF Line
<1>3. Lines(c) \in [1 .. 6 -> Line]
  BY <1>1, <1>2
<1>4. Lines(c) \in Seq(Line) /\ Len(Lines(c)) = 6
  <2>1. Lines(c) \in Seq(Line)
    <3>1. 6 \in Nat
      OBVIOUS
    <3>2. Lines(c) \in UNION {[1 .. n -> Line] : n \in Nat}
      BY <1>3, <3>1
    <3>3. QED
      BY <3>2, SeqDef, Zenon
  <2>2. 1 .. Len(Lines(c)) = 1 .. 6 /\ Len(Lines(c)) \in Nat
    BY <1>3, <2>1, LenProperties
  <2>3. \A n \in Nat : 1 .. n = 1 .. 6 => n = 6
    OBVIOUS
  <2>4. QED
    BY <2>1, <2>2, <2>3
<1>5. QED
  BY <1>1, <1>4

\* sigterm_hanle leaves lines, too, and no more than there are.
LEMMA CutShortType ==
  ASSUME NEW c \in [Item -> Stored], NEW n \in DOMAIN Keys, NEW f \in CutShort(Lines(c), n)
  PROVE  f \in Seq(Line) /\ Len(f) <= Len(Keys)
<1>1. n \in 1 .. 6 /\ Lines(c) \in Seq(Line) /\ Len(Lines(c)) = 6
  BY SixItems, LinesType
<1> DEFINE s == SubSeq(Lines(c), 1, n)
           t == [s EXCEPT ![n] = [s[n] EXCEPT !.val = Cut]]
<1>2. s \in Seq(Line) /\ Len(s) = n
  <2>1. \A i \in 1 .. n : Lines(c)[i] \in Line
    <3>1. \A i \in 1 .. n : i \in 1 .. Len(Lines(c))
      BY <1>1
    <3>2. QED
      BY <1>1, <3>1, ElementOfSeq
  <2>2. 1 \in Int /\ n \in Int /\ 1 <= n
    BY <1>1
  <2>3. Len(s) = IF 1 <= n THEN n - 1 + 1 ELSE 0
    BY <2>1, <2>2, SubSeqProperties
  <2>4. s \in Seq(Line)
    BY <2>1, <2>2, SubSeqProperties
  <2>5. QED
    BY <1>1, <2>3, <2>4
<1>3. f = s \/ f = t
  BY DEF CutShort
<1> HIDE DEF s
<1>4. t \in Seq(Line) /\ Len(t) = n
  <2>1. n \in 1 .. Len(s)
    BY <1>1, <1>2
  <2>2. s[n] \in Line
    BY <1>2, <2>1, ElementOfSeq
  <2>3. [s[n] EXCEPT !.val = Cut] \in Line
    BY <2>2 DEF Line, Stored
  <2>4. QED
    BY <1>2, <2>1, <2>3, ExceptSeq
<1> HIDE DEF t
<1>5. n <= 6 /\ Len(Keys) = 6
  BY <1>1, SixItems
<1>6. QED
  BY <1>2, <1>3, <1>4, <1>5

\* load_net_conf yields values, and no address that is not valid.
LEMMA LoadedType ==
  ASSUME NEW f \in Seq(Line)
  PROVE  Loaded(f) \in [Item -> Stored] /\ Loaded(f)["ipaddr"] \notin Invalid
<1> DEFINE found(k) == {l \in {f[i] : i \in DOMAIN f} :
                          /\ l.key = k /\ k # "macaddr"
                          /\ k = "ipaddr" => l.val \notin Invalid}
<1>1. \A k \in Item : \A l \in found(k) :
         l.val \in Stored /\ (k = "ipaddr" => l.val \notin Invalid)
  <2>1. \A i \in DOMAIN f : f[i] \in Line
    OBVIOUS
  <2>2. QED
    BY <2>1 DEF Line
<1>2. \A k \in Item :
        Loaded(f)[k] = IF found(k) = {} THEN Default ELSE (CHOOSE l \in found(k) : TRUE).val
  BY DEF Loaded
<1> HIDE DEF found
<1>3. \A k \in Item : /\ Loaded(f)[k] = Default \/ \E l \in found(k) : Loaded(f)[k] = l.val
  BY <1>2
<1>4. Default \in Stored /\ Default \notin Invalid
  BY ConfAssumption DEF Stored
<1>5. \A k \in Item : Loaded(f)[k] \in Stored /\ (k = "ipaddr" => Loaded(f)[k] \notin Invalid)
  BY <1>1, <1>3, <1>4
<1>6. Loaded(f) = [k \in Item |-> Loaded(f)[k]]
  BY DEF Loaded
<1>7. QED
  BY <1>5, <1>6, SixItems

\* What store_net_conf writes is what load_net_conf reads, item by item, but
\* for the MAC address.
LEMMA RoundTrip ==
  ASSUME NEW c \in [Item -> Stored], c["ipaddr"] \notin Invalid,
         NEW k \in Item \ {"macaddr"}
  PROVE  Loaded(Lines(c))[k] = c[k]
<1> DEFINE f == Lines(c)
           found == {l \in {f[i] : i \in DOMAIN f} :
                       /\ l.key = k /\ k # "macaddr"
                       /\ k = "ipaddr" => l.val \notin Invalid}
<1>1. /\ DOMAIN f = 1 .. 6
      /\ \A i \in 1 .. 6 : f[i] = [key |-> Keys[i], val |-> c[Keys[i]]]
  BY SixItems DEF Lines
<1>2. PICK j \in 1 .. 6 : k = Keys[j]
  BY SixItems
<1>3. f[j] \in found /\ f[j].val = c[k]
  BY <1>1, <1>2
<1>4. \A l \in found : l = f[j]
  <2>1. SUFFICES ASSUME NEW i \in 1 .. 6, f[i].key = k PROVE i = j
    BY <1>1
  <2>2. Keys[i] = Keys[j]
    BY <1>1, <1>2, <2>1
  <2>3. QED
    BY <2>2, SixItems
<1>5. Loaded(f)[k] = IF found = {} THEN Default ELSE (CHOOSE l \in found : TRUE).val
  BY DEF Loaded
<1> HIDE DEF f, found
<1>6. (CHOOSE l \in found : TRUE) = f[j]
  BY <1>3, <1>4
<1>7. Loaded(f)[k] = c[k]
  BY <1>3, <1>5, <1>6
<1>8. QED
  BY <1>7 DEF f

---------------------------------------------------------------------------
(* Lemmas about the interface *)

Netif == Address \cup {"macaddr"}
IfaceType == [Netif -> Value \cup {Cut, Lost}]

\* Which call upsets what.
LEMMA UpsetIs ==
  /\ Netif = {"ipaddr", "netmask", "gateway", "macaddr"}
  /\ Address = {"ipaddr", "netmask", "gateway"}
  /\ Upset["ipaddr"] = {"netmask", "gateway"} /\ Upset["netmask"] = {"gateway"}
  /\ Upset["gateway"] = {} /\ Upset["macaddr"] = {}
BY DEF Netif, Address, Upset

\* One call: done, it sets its own address and touches nothing but what it
\* upsets; otherwise nothing.
LEMMA SetStep ==
  ASSUME NEW i \in IfaceType, NEW k \in Netif, NEW c, NEW done, NEW drops,
         k \in done => c[k] \in Value \cup {Cut}
  PROVE  /\ Set(k, i, c, done, drops) \in IfaceType
         /\ k \in done => Set(k, i, c, done, drops)[k] = c[k]
         /\ \A x \in Netif : x # k /\ ~(k \in done /\ x \in Upset[k])
              => Set(k, i, c, done, drops)[x] = i[x]
<1>1. DOMAIN i = Netif /\ \A x \in Netif : i[x] \in Value \cup {Cut, Lost}
  BY DEF IfaceType
<1>2. CASE k \in done
  <2>1. Set(k, i, c, done, drops) =
          [x \in Netif |-> IF x = k THEN c[k]
                           ELSE IF x \in Upset[k] \cap drops THEN Lost ELSE i[x]]
    BY <1>1, <1>2 DEF Set
  <2>2. QED
    BY <1>1, <1>2, <2>1 DEF IfaceType
<1>3. CASE k \notin done
  BY <1>3 DEF Set
<1>4. QED
  BY <1>2, <1>3

\* u_if_down.
LEMMA DownStep ==
  ASSUME NEW i \in IfaceType, NEW drops
  PROVE  /\ Down(i, drops) \in IfaceType
         /\ \A x \in Netif : x # "gateway" => Down(i, drops)[x] = i[x]
<1>1. DOMAIN i = Netif /\ \A x \in Netif : i[x] \in Value \cup {Cut, Lost}
  BY DEF IfaceType
<1>2. QED
  BY <1>1 DEF Down, IfaceType

\* load_net_conf: what is done stays done, as each address is set after all
\* that upsets it; and what nothing has upset is what it was.
LEMMA LoadingSets ==
  ASSUME NEW i \in IfaceType, NEW c, NEW done \in SUBSET Netif, NEW drops,
         \A k \in done : c[k] \in Value \cup {Cut}
  PROVE  /\ Loading(i, c, done, drops) \in IfaceType
         /\ \A k \in Address \cap done : Loading(i, c, done, drops)[k] = c[k]
         /\ \A k \in Address \ done : (\A j \in done : k \notin Upset[j])
              => Loading(i, c, done, drops)[k] = i[k]
<1> DEFINE ip == Set("ipaddr", i, c, done, drops)
           mask == Set("netmask", ip, c, done, drops)
           gw == Set("gateway", mask, c, done, drops)
<1>1. /\ ip \in IfaceType
      /\ "ipaddr" \in done => ip["ipaddr"] = c["ipaddr"]
      /\ \A x \in Netif : x # "ipaddr" /\ ~("ipaddr" \in done /\ x \in Upset["ipaddr"])
           => ip[x] = i[x]
      /\ "ipaddr" \notin done => ip["ipaddr"] = i["ipaddr"]
  <2>1. "ipaddr" \in Netif
    BY UpsetIs
  <2>2. "ipaddr" \notin done => ip = i
    BY DEF Set
  <2>3. QED
    BY <2>1, <2>2, SetStep
<1> HIDE DEF ip
<1>2. /\ mask \in IfaceType
      /\ "netmask" \in done => mask["netmask"] = c["netmask"]
      /\ \A x \in Netif : x # "netmask" /\ ~("netmask" \in done /\ x \in Upset["netmask"])
           => mask[x] = ip[x]
      /\ "netmask" \notin done => mask["netmask"] = ip["netmask"]
  <2>1. "netmask" \in Netif
    BY UpsetIs
  <2>2. "netmask" \notin done => mask = ip
    BY DEF Set
  <2>3. QED
    BY <1>1, <2>1, <2>2, SetStep
<1> HIDE DEF mask
<1>3. /\ gw \in IfaceType
      /\ "gateway" \in done => gw["gateway"] = c["gateway"]
      /\ \A x \in Netif : x # "gateway" => gw[x] = mask[x]
      /\ "gateway" \notin done => gw["gateway"] = mask["gateway"]
  <2>1. "gateway" \in Netif /\ Upset["gateway"] = {}
    BY UpsetIs
  <2>2. "gateway" \notin done => gw = mask
    BY DEF Set
  <2>3. QED
    BY <1>2, <2>1, <2>2, SetStep
<1>4. Loading(i, c, done, drops) = gw
  BY DEF Loading, ip, mask
<1> HIDE DEF gw
<1>5. ASSUME NEW k \in Address \cap done PROVE gw[k] = c[k]
  <2>1. CASE k = "ipaddr"
    BY <1>1, <1>2, <1>3, <1>5, <2>1, UpsetIs
  <2>2. CASE k = "netmask"
    BY <1>2, <1>3, <1>5, <2>2, UpsetIs
  <2>3. CASE k = "gateway"
    BY <1>3, <1>5, <2>3
  <2>4. QED
    BY <2>1, <2>2, <2>3, UpsetIs
<1>6. ASSUME NEW k \in Address \ done, \A j \in done : k \notin Upset[j] PROVE gw[k] = i[k]
  <2>1. CASE k = "ipaddr"
    BY <1>1, <1>2, <1>3, <1>6, <2>1, UpsetIs
  <2>2. CASE k = "netmask"
    BY <1>1, <1>2, <1>3, <1>6, <2>2, UpsetIs
  <2>3. CASE k = "gateway"
    BY <1>1, <1>2, <1>3, <1>6, <2>3, UpsetIs
  <2>4. QED
    BY <2>1, <2>2, <2>3, UpsetIs
<1>7. QED
  BY <1>3, <1>4, <1>5, <1>6

\* config_netif: the same of what is done, u_if_down coming before the route.
LEMMA ConfiguringSets ==
  ASSUME NEW i \in IfaceType, NEW c, NEW done \in SUBSET Netif, NEW drops,
         \A k \in done : c[k] \in Value \cup {Cut}
  PROVE  /\ Configuring(i, c, done, drops) \in IfaceType
         /\ \A k \in Address \cap done : Configuring(i, c, done, drops)[k] = c[k]
<1> DEFINE ip == Set("ipaddr", i, c, done, drops)
           mask == Set("netmask", ip, c, done, drops)
           down == Down(mask, drops)
           mac == Set("macaddr", down, c, done, drops)
           gw == Set("gateway", mac, c, done, drops)
<1>1. /\ ip \in IfaceType
      /\ "ipaddr" \in done => ip["ipaddr"] = c["ipaddr"]
  <2>1. "ipaddr" \in Netif
    BY UpsetIs
  <2>2. QED
    BY <2>1, SetStep
<1> HIDE DEF ip
<1>2. /\ mask \in IfaceType
      /\ "netmask" \in done => mask["netmask"] = c["netmask"]
      /\ mask["ipaddr"] = ip["ipaddr"]
  <2>1. "netmask" \in Netif /\ "ipaddr" \in Netif /\ "ipaddr" \notin Upset["netmask"]
    BY UpsetIs
  <2>2. QED
    BY <1>1, <2>1, SetStep
<1> HIDE DEF mask
<1>3. down \in IfaceType /\ \A x \in Netif : x # "gateway" => down[x] = mask[x]
  BY <1>2, DownStep
<1> HIDE DEF down
<1>4. /\ mac \in IfaceType
      /\ \A x \in Netif : x # "macaddr" => mac[x] = down[x]
  <2>1. "macaddr" \in Netif /\ Upset["macaddr"] = {}
    BY UpsetIs
  <2>2. QED
    BY <1>3, <2>1, SetStep
<1> HIDE DEF mac
<1>5. /\ gw \in IfaceType
      /\ "gateway" \in done => gw["gateway"] = c["gateway"]
      /\ \A x \in Netif : x # "gateway" => gw[x] = mac[x]
  <2>1. "gateway" \in Netif /\ Upset["gateway"] = {}
    BY UpsetIs
  <2>2. QED
    BY <1>4, <2>1, SetStep
<1>6. Configuring(i, c, done, drops) = gw
  BY DEF Configuring, ip, mask, down, mac
<1> HIDE DEF gw
<1>7. ASSUME NEW k \in Address \cap done PROVE gw[k] = c[k]
  <2>1. CASE k = "ipaddr"
    BY <1>1, <1>2, <1>3, <1>4, <1>5, <1>7, <2>1, UpsetIs
  <2>2. CASE k = "netmask"
    BY <1>2, <1>3, <1>4, <1>5, <1>7, <2>2, UpsetIs
  <2>3. CASE k = "gateway"
    BY <1>5, <1>7, <2>3
  <2>4. QED
    BY <2>1, <2>2, <2>3, UpsetIs
<1>8. QED
  BY <1>5, <1>6, <1>7

\* The calls that are made, or not refused, are for values.
LEMMA CallsGiveValues ==
  ASSUME iface \in IfaceType, NEW c \in [Item -> Stored], NEW known
  PROVE  /\ Given(c) \subseteq Netif /\ Called(c, known) \subseteq Address
         /\ Called(c, known) \subseteq Netif
         /\ \A k \in Given(c) \cup Called(c, known) : c[k] \in Value \cup {Cut}
<1>1. Netif \subseteq Item /\ Address \subseteq Netif
  BY SixItems DEF Netif
<1>2. DOMAIN iface = Netif
  BY DEF IfaceType
<1>3. \A k \in Given(c) : c[k] \in Value \cup {Cut}
  BY <1>1, <1>2 DEF Given, Stored
<1>4. QED
  BY <1>1, <1>2, <1>3 DEF Given, Called

---------------------------------------------------------------------------
(* The invariant *)

\* First boot.
LEMMA InitIInv == Init => IInv
<1> SUFFICES ASSUME Init PROVE IInv
  OBVIOUS
<1>1. conf \in [Item -> Stored] /\ conf["ipaddr"] \notin Invalid
  BY SixItems, ConfAssumption DEF Init, Stored
<1>2. file \in Seq(Line) /\ Len(file) <= Len(Keys)
  BY SixItems DEF Init
<1>3. iface \in IfaceType
  BY ConfAssumption DEF Init, PowerUp, IfaceType, Netif
<1>4. nmsg \in 0 .. MaxMsg
  BY ConfAssumption DEF Init
<1>5. QED
  BY <1>1, <1>2, <1>3, <1>4 DEF Init, IInv, TypeOK, InterfaceAgrees, IfaceType, Netif

\* A message that calls for no reset has changed the MAC address at most.
LEMMA OnlyMac ==
  ASSUME NEW m, Changed(m) \cap ResetItems = {}, conf \in [Item -> Stored],
         conf' = [k \in Item |-> IF k \in Changed(m) THEN m[k] ELSE conf[k]]
  PROVE  \A k \in Item \ {"macaddr"} : conf'[k] = conf[k]
BY DEF Changed, ResetItems

\* A message leaves only values in the globals, and no invalid address.
LEMMA ConfType ==
  ASSUME TypeOK, NEW m \in Message,
         conf' = [k \in Item |-> IF k \in Changed(m) THEN m[k] ELSE conf[k]]
  PROVE  conf' \in [Item -> Stored] /\ conf'["ipaddr"] \notin Invalid
<1>1. m \in [Item -> Value \cup {Absent}] /\ conf \in [Item -> Stored]
      /\ conf["ipaddr"] \notin Invalid
  BY ConfAssumption DEF TypeOK
<1>2. \A k \in Changed(m) : m[k] \in Stored
  BY <1>1 DEF Changed, Stored
<1>3. "ipaddr" \in Changed(m) => m["ipaddr"] \notin Invalid
  BY DEF Changed
<1>4. QED
  BY <1>1, <1>2, <1>3, SixItems

\* Every step keeps the invariant: a message, a reset, a crash or a start.
LEMMA NextIInv == IInv /\ [Next]_vars => IInv'
<1> SUFFICES ASSUME IInv, [Next]_vars PROVE IInv'
  OBVIOUS
<1>1. /\ TypeOK /\ MaxMsg \in Nat
      /\ conf \in [Item -> Stored] /\ conf["ipaddr"] \notin Invalid
      /\ file \in Seq(Line) /\ Len(file) <= Len(Keys)
      /\ iface \in IfaceType
      /\ nmsg \in 0 .. MaxMsg /\ unsaved \in BOOLEAN /\ amiss \subseteq Address
  BY ConfAssumption DEF IInv, TypeOK, IfaceType, Netif
<1>2. CASE load_net_conf
  <2>1. /\ pc = "boot" /\ pc' = "loop" /\ conf' = Loaded(file) /\ UNCHANGED <<file, nmsg, unsaved>>
    BY <1>2 DEF load_net_conf
  <2>2. conf' \in [Item -> Stored] /\ conf'["ipaddr"] \notin Invalid
    BY <1>1, <2>1, LoadedType
  <2>3. PICK known, drops, done :
          /\ done \in SUBSET Called(conf', known)
          /\ iface' = Loading(iface, conf', done, drops)
          /\ amiss' = (Called(conf', known) \ done)
                        \cup (UpsetBy(done) \ Called(conf', known))
    BY <1>2 DEF load_net_conf
  <2>4. /\ Called(conf', known) \subseteq Address /\ done \in SUBSET Netif
        /\ \A k \in done : conf'[k] \in Value \cup {Cut}
    BY <1>1, <2>2, <2>3, CallsGiveValues
  <2>5. /\ iface' \in IfaceType
        /\ \A k \in Address \cap done : iface'[k] = conf'[k]
        /\ \A k \in Address \ done : (\A l \in done : k \notin Upset[l]) => iface'[k] = iface[k]
    <3>1. iface \in IfaceType
      BY <1>1
    <3>2. iface' = Loading(iface, conf', done, drops)
      BY <2>3
    <3> DEFINE L == Loading(iface, conf', done, drops)
    <3>3. /\ L \in IfaceType
          /\ \A k \in Address \cap done : L[k] = conf'[k]
          /\ \A k \in Address \ done : (\A l \in done : k \notin Upset[l]) => L[k] = iface[k]
      BY <2>4, <3>1, LoadingSets
    <3> HIDE DEF L
    <3>4. QED
      BY <3>2, <3>3 DEF L
  <2>6. amiss' \subseteq Address
    <3>1. \A k \in Address : Upset[k] \subseteq Address
      BY UpsetIs
    <3>2. QED
      BY <2>3, <2>4, <3>1 DEF UpsetBy
  <2>7. ASSUME NEW k \in Address \ amiss', conf'[k] # Default PROVE conf'[k] = iface'[k]
    <3>1. CASE k \in done
      BY <2>5, <3>1
    <3>2. CASE k \notin done
      <4>1. k \notin Called(conf', known)
        BY <2>3, <2>7, <3>2
      <4>2. \A l \in done : k \notin Upset[l]
        <5>1. k \notin UpsetBy(done)
          BY <2>3, <2>7, <4>1
        <5>2. QED
          BY <5>1 DEF UpsetBy
      <4>3. k \in Given(conf')
        BY <1>1, <2>7 DEF Given, IfaceType, Netif
      <4>4. conf'[k] = iface[k]
        BY <2>7, <4>1, <4>3 DEF Called
      <4>5. QED
        BY <2>5, <2>7, <3>2, <4>2, <4>4
    <3>3. QED
      BY <3>1, <3>2
  <2>8. TypeOK'
    BY <1>1, <2>1, <2>2, <2>5, <2>6 DEF TypeOK, IfaceType, Netif
  <2>9. InterfaceAgrees'
    BY <2>7 DEF InterfaceAgrees
  <2>10. QED
    BY <2>1, <2>8, <2>9 DEF IInv, Saved
<1>3. ASSUME NEW m \in Message, handle_netconf(m) PROVE IInv'
  <2>1. /\ pc = "loop" /\ pc' = IF Changed(m) \cap ResetItems # {} THEN "open" ELSE "loop"
        /\ nmsg < MaxMsg /\ nmsg' = nmsg + 1 /\ UNCHANGED <<file, iface, unsaved, amiss>>
        /\ conf' = [k \in Item |-> IF k \in Changed(m) THEN m[k] ELSE conf[k]]
    BY <1>3 DEF handle_netconf
  <2>2. TypeOK'
    BY <1>1, <2>1, ConfType DEF TypeOK
  <2>3. CASE Changed(m) \cap ResetItems # {}
    BY <2>1, <2>2, <2>3 DEF IInv, InterfaceAgrees
  <2>4. CASE Changed(m) \cap ResetItems = {}
    <3>1. \A k \in Item \ {"macaddr"} : conf'[k] = conf[k]
      BY <1>1, <2>1, <2>4, OnlyMac
    <3>2. InterfaceAgrees'
      BY <2>1, <3>1, SixItems DEF IInv, InterfaceAgrees
    <3>3. ~unsaved' => Saved'
      BY <2>1, <3>1 DEF IInv, Saved
    <3>4. QED
      BY <2>1, <2>2, <2>4, <3>2, <3>3 DEF IInv
  <2>5. QED
    BY <2>3, <2>4
<1>4. CASE OpenFile
  <2>1. TypeOK'
    BY <1>1, <1>4, SixItems DEF OpenFile, TypeOK
  <2>2. QED
    BY <1>4, <2>1 DEF OpenFile, IInv, InterfaceAgrees
<1>5. CASE OpenFails
  BY <1>1, <1>5 DEF OpenFails, IInv, TypeOK, InterfaceAgrees
<1>6. CASE WriteFile
  <2>1. /\ pc' = "config" /\ file' = Lines(conf) /\ unsaved' = FALSE
        /\ UNCHANGED <<conf, iface, nmsg, amiss>>
    BY <1>6 DEF WriteFile
  <2>2. file' \in Seq(Line) /\ Len(file') <= Len(Keys)
    <3>1. Lines(conf) \in Seq(Line) /\ Len(Lines(conf)) = 6
      BY <1>1, LinesType
    <3>2. Len(Keys) = 6 /\ 6 <= 6
      BY SixItems
    <3>3. QED
      BY <2>1, <3>1, <3>2
  <2>3. TypeOK'
    BY <1>1, <2>1, <2>2 DEF TypeOK
  <2>4. Saved'
    BY <1>1, <2>1, RoundTrip DEF Saved
  <2>5. QED
    BY <2>1, <2>3, <2>4 DEF IInv, InterfaceAgrees
<1>7. CASE config_netif
  <2>1. pc = "config" /\ pc' = "loop" /\ UNCHANGED <<conf, file, nmsg, unsaved>>
    BY <1>7 DEF config_netif
  <2>2. PICK done \in SUBSET Given(conf), drops \in SUBSET Droppable :
          /\ iface' = Configuring(iface, conf, done, drops)
          /\ amiss' = (Address \cap Given(conf)) \ done
    BY <1>7 DEF config_netif
  <2>3. done \in SUBSET Netif /\ \A k \in done : conf[k] \in Value \cup {Cut}
    BY <1>1, CallsGiveValues
  <2>4. iface' \in IfaceType /\ \A k \in Address \cap done : iface'[k] = conf[k]
    BY <1>1, <2>2, <2>3, ConfiguringSets
  <2>5. \A k \in Address : conf[k] # Default => k \in Given(conf)
    BY <1>1 DEF Given, IfaceType, Netif
  <2>6. TypeOK'
    BY <1>1, <2>1, <2>2, <2>4 DEF TypeOK, IfaceType, Netif
  <2>7. InterfaceAgrees'
    BY <2>1, <2>2, <2>4, <2>5 DEF InterfaceAgrees
  <2>8. QED
    BY <2>1, <2>6, <2>7 DEF IInv, Saved
\* Whatever ends the program leaves lines in the file and loses the rest.
<1>8. ASSUME Gone, file' \in Seq(Line), Len(file') <= Len(Keys), iface' \in IfaceType
      PROVE  IInv'
  <2>1. conf' \in [Item -> Stored] /\ conf'["ipaddr"] \notin Invalid
    BY <1>8, SixItems, ConfAssumption DEF Gone, Stored
  <2>2. TypeOK'
    BY <1>1, <1>8, <2>1 DEF TypeOK, Gone, IfaceType, Netif
  <2>3. QED
    BY <1>8, <2>2 DEF Gone, IInv, InterfaceAgrees
<1>9. CASE Crash
  <2>1. PowerUp \in IfaceType
    BY ConfAssumption DEF PowerUp, IfaceType, Netif
  <2>2. QED
    BY <1>1, <1>8, <1>9, <2>1 DEF Crash
<1>10. CASE CrashConfiguring
  <2>1. Loaded(file) \in [Item -> Stored]
    BY <1>1, LoadedType
  <2>2. ASSUME NEW drops, NEW done \in SUBSET Given(conf),
               iface' = Configuring(iface, conf, done, drops)
        PROVE  iface' \in IfaceType
    <3>1. done \in SUBSET Netif /\ \A k \in done : conf[k] \in Value \cup {Cut}
      BY <1>1, CallsGiveValues
    <3>2. QED
      BY <1>1, <2>2, <3>1, ConfiguringSets
  <2>3. ASSUME NEW drops, NEW done \in SUBSET Called(Loaded(file), {}),
               iface' = Loading(iface, Loaded(file), done, drops)
        PROVE  iface' \in IfaceType
    <3>1. done \in SUBSET Netif /\ \A k \in done : Loaded(file)[k] \in Value \cup {Cut}
      BY <1>1, <2>1, CallsGiveValues
    <3>2. QED
      BY <1>1, <2>3, <3>1, LoadingSets
  <2>4. iface' \in IfaceType
    BY <1>10, <2>2, <2>3 DEF CrashConfiguring
  <2>5. QED
    BY <1>1, <1>8, <1>10, <2>4 DEF CrashConfiguring
<1>11. CASE sigterm_hanle
  <2>1. file' \in Seq(Line) /\ Len(file') <= Len(Keys)
    BY <1>1, <1>11, CutShortType DEF sigterm_hanle
  <2>2. QED
    BY <1>1, <1>8, <1>11, <2>1 DEF sigterm_hanle
<1>12. CASE UNCHANGED vars
  BY <1>12 DEF vars, IInv, TypeOK, InterfaceAgrees, Saved
<1>13. QED
  BY <1>2, <1>3, <1>4, <1>5, <1>6, <1>7, <1>9, <1>10, <1>11, <1>12 DEF Next

---------------------------------------------------------------------------
(* The theorems about the configuration *)

\* The invariant that the theorems rest on.
THEOREM Invariance == Spec => []IInv
<1>1. IInv /\ [Next]_vars => IInv'
  BY NextIInv
<1>2. QED
  BY InitIInv, <1>1, PTL DEF Spec

\* Types, and no invalid address in g_ipaddr: not from a message, and not
\* from a file that a SIGTERM has cut in the middle of a line.
THEOREM TypeCorrect == Spec => []TypeOK
<1>1. IInv => TypeOK
  BY DEF IInv
<1>2. QED
  BY Invariance, <1>1, PTL

\* A crash in the loop loses no item but the MAC address.
THEOREM NothingToLose == Spec => []Durable
<1>1. IInv => Durable
  BY DEF IInv, Saved, Durable
<1>2. QED
  BY Invariance, <1>1, PTL

\* The interface has the addresses that the globals hold, but for those whose
\* own call has failed and those that a start has left out for good: whatever
\* else fails, in whatever order it is set up, killed and started again.
THEOREM InterfaceIsSet == Spec => []InterfaceAgrees
<1>1. IInv => InterfaceAgrees
  BY DEF IInv
<1>2. QED
  BY Invariance, <1>1, PTL

---------------------------------------------------------------------------
(* Lemmas about the supervisor *)

\* daemon.c alone, before daemon_init.
LEMMA InitDaemonInv == DaemonInit => DaemonInv
<1> SUFFICES ASSUME DaemonInit PROVE DaemonInv
  OBVIOUS
<1>1. DaemonTypeOK
  BY DaemonAssumption DEF DaemonInit, DaemonTypeOK, AnyChild
<1>2. \A p \in Proc : Children(p) = {}
  BY DEF DaemonInit, Children
<1>3. \A p \in Proc : Last(p) => p = Daemon0
  BY DEF DaemonInit, Last
<1>4. QED
  BY <1>1, <1>2, <1>3 DEF DaemonInv, DaemonInit, WaitsForOwnChild, HasChild

\* A process with no child becomes a parent: its child is the last one now.
LEMMA ForkKeeps ==
  ASSUME DaemonInv, NEW p \in Proc, NEW c \in Proc, st[p] \in {"first", "fork"},
         NEW t \in {"wait", "sleep"}, NEW u \in {"exec1", "exec"}, Fork(p, c, t, u)
  PROVE  DaemonInv'
<1>1. /\ st[c] = "unused" /\ c # p
      /\ st' = [st EXCEPT ![p] = t, ![c] = u]
      /\ parent' = [parent EXCEPT ![c] = p]
      /\ pid' = [pid EXCEPT ![p] = c, ![c] = NoChild]
      /\ nfail' = nfail
  BY DEF Fork
<1>2. /\ DaemonTypeOK /\ Children(p) = {} /\ Children(c) = {}
  BY <1>1 DEF DaemonInv, HasChild, InLoop
<1>3. DaemonTypeOK'
  BY <1>1, <1>2 DEF DaemonTypeOK, Program, AnyChild
<1>4. Children(p)' = {c}
  BY <1>1, <1>2 DEF DaemonTypeOK, Children
<1>5. \A q \in Proc \ {p} : Children(q)' = Children(q)
  BY <1>1, <1>2 DEF DaemonTypeOK, Children
<1>6. /\ st'[p] = t /\ st'[c] = u /\ pid'[p] = c /\ pid'[c] = NoChild
      /\ \A q \in Proc \ {p, c} : st'[q] = st[q] /\ pid'[q] = pid[q]
  BY <1>1, <1>2 DEF DaemonTypeOK
<1>7. WaitsForOwnChild'
  BY <1>4, <1>5, <1>6 DEF DaemonInv, WaitsForOwnChild
<1>8. \A q \in Proc : HasChild(q)' => InLoop(q)'
  <2>1. TAKE q \in Proc
  <2>2. CASE q = p
    BY <1>6, <2>2 DEF InLoop
  <2>3. CASE q # p
    BY <1>1, <1>2, <1>5, <1>6, <2>3 DEF DaemonInv, HasChild, InLoop
  <2>4. QED
    BY <2>2, <2>3
<1>9. \A q \in Proc : st'[q] = "exec" => pid'[q] = NoChild
  BY <1>6 DEF DaemonInv
<1>10. \A q \in Proc : Last(q)' => q = c
  <2>1. SUFFICES ASSUME NEW q \in Proc, Last(q)', q # c PROVE FALSE
    OBVIOUS
  <2>2. q # p
    BY <1>4, <2>1 DEF Last, HasChild
  <2>3. Last(q)
    BY <1>5, <1>6, <2>1, <2>2 DEF Last, HasChild
  <2>4. Last(p)
    BY <1>2 DEF Last, HasChild
  <2>5. QED
    BY <2>2, <2>3, <2>4 DEF DaemonInv
<1>11. QED
  BY <1>3, <1>7, <1>8, <1>9, <1>10 DEF DaemonInv

\* A process moves on, the others stay: nobody gets or loses a child.
LEMMA MoveKeeps ==
  ASSUME DaemonInv, NEW p \in Proc, st[p] # "unused", NEW t, t # "unused",
         st' = [st EXCEPT ![p] = t], parent' = parent, DaemonTypeOK',
         \A q \in Proc \ {p} : pid'[q] = pid[q],
         t \in {"wait", "sleep"} =>
           IF pid'[p] \in Proc THEN Children(p) = {pid'[p]} ELSE Children(p) = {},
         HasChild(p) => t \in {"wait", "sleep"},
         t = "exec" => pid'[p] = NoChild
  PROVE  DaemonInv'
<1>1. st'[p] = t /\ \A q \in Proc \ {p} : st'[q] = st[q]
  BY DEF DaemonInv, DaemonTypeOK
<1>2. \A q \in Proc : Children(q)' = Children(q)
  BY <1>1 DEF Children
<1>3. WaitsForOwnChild'
  <2>1. SUFFICES ASSUME NEW q \in Proc, st'[q] \in {"wait", "sleep"}
                 PROVE  IF pid'[q] \in Proc THEN Children(q) = {pid'[q]}
                        ELSE Children(q) = {}
    BY <1>2 DEF WaitsForOwnChild
  <2>2. CASE q = p
    BY <1>1, <2>1, <2>2
  <2>3. CASE q # p
    BY <1>1, <2>1, <2>3 DEF DaemonInv, WaitsForOwnChild
  <2>4. QED
    BY <2>2, <2>3
<1>4. \A q \in Proc : HasChild(q)' => InLoop(q)'
  BY <1>1, <1>2 DEF DaemonInv, HasChild, InLoop
<1>5. \A q \in Proc : st'[q] = "exec" => pid'[q] = NoChild
  BY <1>1 DEF DaemonInv
<1>6. \A q \in Proc : Last(q)' => Last(q)
  BY <1>1, <1>2 DEF Last, HasChild
<1>7. QED
  BY <1>3, <1>4, <1>5, <1>6 DEF DaemonInv

\* A supervisor learns that its child has ended: it is the last one again.
LEMMA ReapKeeps ==
  ASSUME DaemonInv, NEW p \in Proc, NEW c \in Proc, WaitReturns(p, c)
  PROVE  DaemonInv'
<1>1. /\ st[p] = "wait" /\ c \in Children(p) /\ st[c] = "exited" /\ c # p /\ parent[c] = p
      /\ UNCHANGED <<parent, pid, nfail>>
  BY DEF WaitReturns, Children
<1>2. pid[p] = c /\ Children(p) = {c}
  BY <1>1 DEF DaemonInv, WaitsForOwnChild
<1>3. DaemonTypeOK /\ Children(c) = {}
  BY <1>1 DEF DaemonInv, HasChild, InLoop
<1>4. st' = [st EXCEPT ![c] = "unused", ![p] = "fork"]
  BY <1>2 DEF WaitReturns
<1>5. DaemonTypeOK'
  BY <1>1, <1>3, <1>4 DEF DaemonTypeOK, Program
<1>6. /\ st'[p] = "fork" /\ st'[c] = "unused" /\ \A q \in Proc \ {p, c} : st'[q] = st[q]
  BY <1>1, <1>3, <1>4 DEF DaemonTypeOK
<1>7. Children(p)' = {} /\ \A q \in Proc \ {p} : Children(q)' = Children(q)
  BY <1>1, <1>2, <1>6 DEF Children
<1>8. WaitsForOwnChild'
  BY <1>1, <1>6, <1>7 DEF DaemonInv, WaitsForOwnChild
<1>9. \A q \in Proc : HasChild(q)' => InLoop(q)'
  BY <1>3, <1>6, <1>7 DEF DaemonInv, HasChild, InLoop
<1>10. \A q \in Proc : st'[q] = "exec" => pid'[q] = NoChild
  BY <1>1, <1>6 DEF DaemonInv
<1>11. \A q \in Proc : Last(q)' => q = p
  <2>1. SUFFICES ASSUME NEW q \in Proc, Last(q)', q # p PROVE FALSE
    OBVIOUS
  <2>2. q # c /\ Last(q)
    BY <1>6, <1>7, <2>1 DEF Last, HasChild
  <2>3. Last(c)
    BY <1>1, <1>3 DEF Last, HasChild
  <2>4. QED
    BY <2>2, <2>3 DEF DaemonInv
<1>12. QED
  BY <1>5, <1>8, <1>9, <1>10, <1>11 DEF DaemonInv

\* Every step of every process keeps the invariant.
LEMMA NextDaemonInv == DaemonInv /\ [DaemonNext]_dvars => DaemonInv'
<1> SUFFICES ASSUME DaemonInv, [DaemonNext]_dvars PROVE DaemonInv'
  OBVIOUS
<1>1. DaemonTypeOK /\ MaxFail \in Nat
  BY DaemonAssumption DEF DaemonInv
<1>2. ASSUME NEW p \in Proc, NEW c \in Proc, FirstFork(p, c) \/ LoopFork(p, c)
      PROVE  DaemonInv'
  BY <1>2, ForkKeeps DEF FirstFork, LoopFork
<1>3. ASSUME NEW p \in Proc, NEW c \in Proc, WaitReturns(p, c) PROVE DaemonInv'
  BY <1>3, ReapKeeps
\* The other steps move one process and leave every pid alone, but one.
<1>4. ASSUME NEW p \in Proc, NEW t, st' = [st EXCEPT ![p] = t], UNCHANGED <<parent, pid>>,
             nfail' \in 0 .. MaxFail, st[p] \notin {"unused", "wait", "sleep"},
             t \in {"setsid", "first", "starting", "program", "half", "exited"}
      PROVE  DaemonInv'
  <2>1. DaemonTypeOK'
    BY <1>1, <1>4 DEF DaemonTypeOK, Program
  <2>2. ~HasChild(p)
    BY <1>4 DEF DaemonInv, InLoop
  <2>3. QED
    BY <1>4, <2>1, <2>2, MoveKeeps
<1>5. ASSUME NEW p \in Proc, Fails PROVE nfail' \in 0 .. MaxFail
  BY <1>1, <1>5 DEF Fails, DaemonTypeOK
<1>6. nfail \in 0 .. MaxFail
  BY <1>1 DEF DaemonTypeOK
<1>7. ASSUME NEW p \in Proc, \/ Detach(p) \/ DetachAgain(p) \/ Exec(p)
                             \/ Start(p) \/ ProgramEnds(p)
      PROVE  DaemonInv'
  BY <1>4, <1>6, <1>7 DEF Detach, DetachAgain, Exec, Start, ProgramEnds
<1>8. ASSUME NEW p \in Proc, DetachFails(p) \/ FirstForkFails(p) \/ StartFails(p)
      PROVE  DaemonInv'
  BY <1>4, <1>5, <1>8 DEF DetachFails, FirstForkFails, StartFails
<1>9. ASSUME NEW p \in Proc, ExecFails(p) PROVE DaemonInv'
  <2>1. CASE st[p] = "exec1" /\ st' = [st EXCEPT ![p] = "exited"]
    BY <1>4, <1>5, <1>9, <2>1 DEF ExecFails
  <2>2. CASE st[p] = "exec" /\ st' = [st EXCEPT ![p] = "sleep"]
    <3>1. UNCHANGED <<parent, pid>> /\ nfail' \in 0 .. MaxFail
      BY <1>5, <1>9 DEF ExecFails
    <3>2. DaemonTypeOK'
      BY <1>1, <2>2, <3>1 DEF DaemonTypeOK
    <3>3. pid[p] = NoChild /\ pid[p] \notin Proc /\ Children(p) = {}
      BY <2>2, DaemonAssumption DEF DaemonInv, HasChild, InLoop, AnyChild
    <3>4. QED
      BY <2>2, <3>1, <3>2, <3>3, MoveKeeps
  <2>3. QED
    BY <1>9, <2>1, <2>2 DEF ExecFails
<1>10. ASSUME NEW p \in Proc, WaitError(p) PROVE DaemonInv'
  <2>1. /\ st[p] = "wait" /\ st' = [st EXCEPT ![p] = "fork"] /\ UNCHANGED <<parent, pid, nfail>>
        /\ IF pid[p] \in AnyChild THEN Children(p) = {} ELSE pid[p] \notin Children(p)
    BY <1>10 DEF WaitError
  <2>2. Children(p) = {}
    BY <2>1, DaemonAssumption DEF DaemonInv, WaitsForOwnChild
  <2>3. DaemonTypeOK'
    BY <1>1, <2>1 DEF DaemonTypeOK
  <2>4. QED
    BY <2>1, <2>2, <2>3, MoveKeeps DEF HasChild
<1>11. ASSUME NEW p \in Proc, LoopForkFails(p) PROVE DaemonInv'
  <2>1. /\ st[p] = "fork" /\ st' = [st EXCEPT ![p] = "sleep"] /\ parent' = parent
        /\ pid' = [pid EXCEPT ![p] = ForkError] /\ nfail' \in 0 .. MaxFail
    BY <1>5, <1>11 DEF LoopForkFails
  <2>2. Children(p) = {} /\ ForkError \notin Proc
    BY <2>1, DaemonAssumption DEF DaemonInv, HasChild, InLoop, AnyChild
  <2>3. DaemonTypeOK'
    BY <1>1, <2>1 DEF DaemonTypeOK, AnyChild
  <2>4. pid'[p] = ForkError /\ \A q \in Proc \ {p} : pid'[q] = pid[q]
    BY <1>1, <2>1 DEF DaemonTypeOK
  <2>5. QED
    BY <2>1, <2>2, <2>3, <2>4, MoveKeeps DEF HasChild
<1>12. ASSUME NEW p \in Proc, Sleep(p) PROVE DaemonInv'
  <2>1. st[p] = "sleep" /\ st' = [st EXCEPT ![p] = "wait"] /\ UNCHANGED <<parent, pid, nfail>>
    BY <1>12 DEF Sleep
  <2>2. DaemonTypeOK'
    BY <1>1, <2>1 DEF DaemonTypeOK
  <2>3. IF pid[p] \in Proc THEN Children(p) = {pid[p]} ELSE Children(p) = {}
    BY <2>1 DEF DaemonInv, WaitsForOwnChild
  <2>4. QED
    BY <2>1, <2>2, <2>3, MoveKeeps
<1>13. CASE UNCHANGED dvars
  BY <1>13 DEF dvars, DaemonInv, DaemonTypeOK, WaitsForOwnChild, HasChild,
               InLoop, Last, Children
<1>14. QED
  BY <1>2, <1>3, <1>7, <1>8, <1>9, <1>10, <1>11, <1>12, <1>13 DEF DaemonNext, Supervise, Fail

---------------------------------------------------------------------------
(* The theorems about the supervisor *)

\* The invariant that the theorems rest on: the processes of daemon.c are a
\* chain of supervisors, each waiting for the next, and only the last of them
\* can be, or start, the program.
THEOREM DaemonInvariance == DaemonSpec => []DaemonInv
<1>0. DaemonInit => DaemonInv
  BY InitDaemonInv
<1>1. DaemonInv /\ [DaemonNext]_dvars => DaemonInv'
  BY NextDaemonInv
<1>2. QED
  BY <1>0, <1>1, PTL DEF DaemonSpec

\* However many failed execs leave a second supervisor, there is never a
\* second program on the serial port.
THEOREM OneProgram == DaemonSpec => []AtMostOne
<1>1. DaemonInv => AtMostOne
  <2> SUFFICES ASSUME DaemonInv PROVE Cardinality({p \in Proc : st[p] \in Program}) <= 1
    BY DEF AtMostOne
  <2> DEFINE S == {p \in Proc : st[p] \in Program}
  <2>1. \A p \in S : p \in Proc /\ Last(p)
    BY DEF DaemonInv, InLoop, Last, Program
  <2>2. \A p, q \in S : p = q
    BY <2>1 DEF DaemonInv
  <2> HIDE DEF S
  <2>3. S = {} \/ \E p : S = {p}
    <3>1. ASSUME NEW p \in S PROVE S = {p}
      BY <2>2
    <3>2. QED
      BY <3>1
  <2>4. Cardinality(S) \in {0, 1}
    BY <2>3, FS_EmptySet, FS_Singleton
  <2>5. QED
    BY <2>4 DEF S
<1>2. QED
  BY DaemonInvariance, <1>1, PTL

\* waitpid is never called with a process ID that is somebody else's by now.
THEOREM OwnChild == DaemonSpec => []WaitsForOwnChild
<1>1. DaemonInv => WaitsForOwnChild
  BY DEF DaemonInv
<1>2. QED
  BY DaemonInvariance, <1>1, PTL
=============================================================================
