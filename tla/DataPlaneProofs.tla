-------------------------- MODULE DataPlaneProofs --------------------------
(***************************************************************************)
(* DataPlane keeps its types; an l2.Up that succeeds leaves the addresses  *)
(* it should, whatever earlier commands left behind, and after a Down or a *)
(* reboot exactly what state.json says: for any addresses, subnets, ports  *)
(* and configurations.  And DataPlane implements NodeKernel's l2.Up and    *)
(* l2.Down (DataPlaneKernel).                                              *)
(***************************************************************************)
EXTENDS DataPlaneKernel, SequenceTheorems, TLAPS

\* The calls of l2.Up after which the bridge is there, its addresses are
\* right, the VXLAN port is there, it is attached, its hairpin mode is set.
WithHairpin  == {"port", "raise", "upvxlan", "upbridge"}
WithAttached == {"hairpin"} \cup WithHairpin
WithVxlan    == {"attach"} \cup WithAttached
WithAddrs    == {"vxlan"} \cup WithVxlan
WithBridge   == {"list", "add", "del"} \cup WithAddrs

Upping == {"bridge"} \cup WithBridge
Labels == {"idle", "delvxlan", "delbridge"} \cup Upping

\* What each call finds done, and the configuration an Up works from.
Done ==
  /\ pc \in Labels
  /\ pc \in Upping => want = config
  /\ pc \in WithBridge => ~NoBridge
  /\ pc \in WithVxlan => vxlan # Missing
  /\ pc \in WithAttached => vxlan.attached
  /\ pc \in WithHairpin => vxlan.hairpin = want.root
  /\ pc = "upbridge" => vxlan.up
  /\ pc = "delbridge" => vxlan = Missing

\* What is left of each loop.
Loops ==
  /\ pc \in {"add", "del"} => {current, rest} \subseteq Seq(Addr \cup {LinkLocal})
  /\ pc = "add" => IsInjective(rest) /\ Range(rest) \subseteq Range(want.addrs)
  /\ pc \in {"port", "raise"} => rest \in Seq(Port) /\ Range(rest) \subseteq Range(want.ports)
  /\ pc = "raise" => rest # <<>>

On == Range(bridge.addrs)

\* The addresses on the bridge, in the course of syncBridgeAddrs and after it.
Addresses ==
  /\ ~NoBridge => (bridge.up <=> LinkLocal \in On)
  /\ pc = "add" =>
       /\ Range(current) \subseteq On
       /\ On \subseteq Range(current) \cup (Range(want.addrs) \ Range(rest))
       /\ Range(want.addrs) \subseteq On \cup Range(rest)
  /\ pc = "del" => On \subseteq Range(want.addrs) \cup {LinkLocal} \cup Range(rest)
  /\ pc \in WithAddrs => Global(bridge.addrs) \subseteq Range(want.addrs)
  /\ pc \in {"del"} \cup WithAddrs /\ promote => Range(want.addrs) \subseteq On

\* Nothing but what this configuration has is there.
Fresh == fresh =>
  /\ ~NoBridge => Global(bridge.addrs) \subseteq Range(config.addrs)
  /\ pc = "del" => Range(rest) \subseteq Range(config.addrs) \cup {LinkLocal}
  /\ pc \in {"del"} \cup WithAddrs => Range(want.addrs) \subseteq On
  /\ vxlan # Missing => vxlan.made = config.vxlan
  /\ \A q \in Port : port[q] \in {"attached", "up"} => q \in Range(config.ports)

IInv == TypeOK /\ Done /\ Loops /\ Addresses /\ Fresh
-----------------------------------------------------------------------------
(***************************************************************************)
(* What the lists of netlink calls contain.                                *)
(***************************************************************************)
\* Nothing is in an empty list.
LEMMA EmptyList == Range(<<>>) = {} /\ IsInjective(<<>>)
  BY DEF Range, IsInjective

\* An address that AddrAdd appends to the others.
LEMMA AppendList ==
  ASSUME NEW S, NEW s \in Seq(S), NEW x \in S
  PROVE  /\ Append(s, x) \in Seq(S)
         /\ Range(Append(s, x)) = Range(s) \cup {x}
         /\ IsInjective(s) /\ x \notin Range(s) => IsInjective(Append(s, x))
<1>1. /\ Append(s, x) \in Seq(S)
      /\ Len(Append(s, x)) = Len(s) + 1
      /\ \A i \in 1..Len(s) : Append(s, x)[i] = s[i]
      /\ Append(s, x)[Len(s) + 1] = x
  BY AppendProperties
<1>2. /\ DOMAIN s = 1..Len(s) /\ Len(s) \in Nat
      /\ DOMAIN Append(s, x) = 1..(Len(s) + 1)
  BY <1>1, LenProperties
<1>3. Range(Append(s, x)) = Range(s) \cup {x}
  BY <1>1, <1>2 DEF Range
<1>4. ASSUME IsInjective(s), x \notin Range(s) PROVE IsInjective(Append(s, x))
  BY <1>1, <1>2, <1>4 DEF Range, IsInjective
<1> QED
  BY <1>1, <1>3, <1>4

\* The next entry of a loop, and those after it.
LEMMA NextOfList ==
  ASSUME NEW S, NEW s \in Seq(S), s # <<>>
  PROVE  /\ Head(s) \in S /\ Tail(s) \in Seq(S)
         /\ Range(s) = {Head(s)} \cup Range(Tail(s))
         /\ IsInjective(s) => IsInjective(Tail(s)) /\ Head(s) \notin Range(Tail(s))
<1>1. /\ Head(s) \in S /\ Tail(s) \in Seq(S)
      /\ Len(Tail(s)) = Len(s) - 1
      /\ \A i \in 1..Len(Tail(s)) : Tail(s)[i] = s[i + 1]
  BY HeadTailProperties
<1>2. /\ Len(s) \in Nat /\ Len(s) > 0 /\ Head(s) = s[1]
      /\ DOMAIN s = 1..Len(s) /\ DOMAIN Tail(s) = 1..(Len(s) - 1)
  BY <1>1, LenProperties, EmptySeq
<1>3. \A i \in DOMAIN s : i = 1 \/ (i - 1 \in DOMAIN Tail(s) /\ s[i] = Tail(s)[i - 1])
  BY <1>1, <1>2
<1>4. Range(s) = {Head(s)} \cup Range(Tail(s))
  <2>1. Range(s) \subseteq {Head(s)} \cup Range(Tail(s))
    BY <1>2, <1>3 DEF Range
  <2>2. {Head(s)} \cup Range(Tail(s)) \subseteq Range(s)
    BY <1>1, <1>2 DEF Range
  <2> QED
    BY <2>1, <2>2
<1>5. ASSUME IsInjective(s)
      PROVE  IsInjective(Tail(s)) /\ Head(s) \notin Range(Tail(s))
  BY <1>1, <1>2, <1>5 DEF Range, IsInjective
<1> QED
  BY <1>1, <1>4, <1>5

\* AddrDel keeps the others apart, and takes no more than the one if secondary ones are promoted.
LEMMA WithoutList ==
  ASSUME NEW S, NEW addrs \in Seq(S), IsInjective(addrs), NEW a, NEW s \in Without(addrs, a)
  PROVE  /\ s \in Seq(S) /\ IsInjective(s)
         /\ Range(s) \subseteq Range(addrs) \ {a}
         /\ promote => Range(s) = Range(addrs) \ {a}
         /\ a # LinkLocal => (LinkLocal \in Range(s) <=> LinkLocal \in Range(addrs))
<1>1. /\ Len(addrs) \in Nat /\ DOMAIN addrs = 1..Len(addrs)
      /\ Range(addrs) \in SUBSET S
  BY LenProperties, RangeOfSeq
<1>2. PICK m \in 0..Len(addrs) : s \in [1..m -> Kept(addrs, a)]
  BY DEF Without, SeqOf
<1>3. /\ Range(s) = Kept(addrs, a)
      /\ \A i, j \in 1..m : i < j => Precedes(addrs, s[i], s[j])
  BY <1>2 DEF Without
<1>4. Kept(addrs, a) \subseteq S
  BY <1>1 DEF Kept
<1>5. s \in Seq(S)
  BY <1>1, <1>2, <1>4, IsASeq
<1>6. \A x : ~Precedes(addrs, x, x)
  BY <1>1 DEF Precedes, IsInjective
<1>7. IsInjective(s)
  BY <1>1, <1>2, <1>3, <1>6 DEF IsInjective
<1> QED
  BY <1>3, <1>5, <1>7 DEF Kept
-----------------------------------------------------------------------------
\* The sets of calls are expanded in every step from here.
USE DEF Labels, Upping, WithBridge, WithAddrs, WithVxlan, WithAttached, WithHairpin, NoBridge

\* What the configurations contain.
LEMMA ConfigFacts ==
  ASSUME NEW c \in Configs
  PROVE  /\ c.addrs \in Seq(Addr) /\ c.addrs \in Seq(Addr \cup {LinkLocal})
         /\ IsInjective(c.addrs)
         /\ Range(c.addrs) \subseteq Addr /\ LinkLocal \notin Range(c.addrs)
         /\ c.ports \in Seq(Port) /\ Range(c.ports) \subseteq Port
         /\ c.root \in BOOLEAN /\ c.vxlan \in {d.vxlan : d \in Configs}
<1>1. /\ c.addrs \in Seq(Addr) /\ IsInjective(c.addrs)
      /\ c.ports \in Seq(Port) /\ c.root \in BOOLEAN
  BY ConfigAssumption DEF Config
<1>2. c.addrs \in Seq(Addr \cup {LinkLocal})
  BY <1>1, SeqMonotonic
<1>3. Range(c.addrs) \subseteq Addr /\ Range(c.ports) \subseteq Port
  BY <1>1, RangeOfSeq
<1> QED
  BY <1>1, <1>2, <1>3, AddrAssumption

LEMMA InitIInv == Init => IInv
<1> SUFFICES ASSUME Init PROVE IInv
  OBVIOUS
<1>1. TypeOK
  BY BoundAssumption DEF Init, TypeOK
<1>2. Done /\ Loops /\ Addresses /\ Fresh
  BY DEF Init, Done, Loops, Addresses, Fresh
<1> QED
  BY <1>1, <1>2 DEF IInv

\* A command begins.
LEMMA StartStep ==
  ASSUME IInv, StartUp \/ StartDown
  PROVE  IInv'
<1> USE DEF StartUp, StartDown, Disturbed, kernel
<1>1. TypeOK'
  BY EmptyList, BoundAssumption DEF IInv, TypeOK, Done
<1>2. Done'
  BY DEF IInv, Done, TypeOK, Vxlans
<1>3. Loops'
  BY EmptyList DEF IInv, TypeOK, Done, Loops
<1>4. Addresses' /\ Fresh'
  BY EmptyList DEF IInv, TypeOK, Done, Addresses, Fresh, On, Global
<1> QED
  BY <1>1, <1>2, <1>3, <1>4 DEF IInv

\* Down deletes the VXLAN port.
LEMMA DelVxlanStep ==
  ASSUME IInv, DelVxlan
  PROVE  IInv'
<1> USE DEF DelVxlan, Goto, Disturbed
<1>1. TypeOK'
  BY EmptyList, BoundAssumption DEF IInv, TypeOK, Done
<1>2. Done'
  BY DEF IInv, Done, TypeOK, Vxlans
<1>3. Loops'
  BY EmptyList DEF IInv, TypeOK, Done, Loops
<1>4. Addresses' /\ Fresh'
  BY EmptyList DEF IInv, TypeOK, Done, Addresses, Fresh, On, Global
<1> QED
  BY <1>1, <1>2, <1>3, <1>4 DEF IInv

\* Down deletes the bridge, which releases its ports.
LEMMA DelBridgeStep ==
  ASSUME IInv, DelBridge
  PROVE  IInv'
<1> USE DEF DelBridge, Released
<1>1. TypeOK'
  BY EmptyList, BoundAssumption DEF IInv, TypeOK, Done
<1>2. Done'
  BY DEF IInv, Done, TypeOK, Vxlans
<1>3. Loops'
  BY EmptyList DEF IInv, TypeOK, Done, Loops
<1>4. Addresses' /\ Fresh'
  BY EmptyList DEF IInv, TypeOK, Done, Addresses, Fresh, On, Global
<1> QED
  BY <1>1, <1>2, <1>3, <1>4 DEF IInv

\* An edit of state.json: if there is an interface, it may be of the old configuration.
LEMMA ReplaceStep ==
  ASSUME IInv, Replace
  PROVE  IInv'
<1> USE DEF Replace, Disturbed, kernel
<1>1. TypeOK'
  BY EmptyList, BoundAssumption DEF IInv, TypeOK, Done
<1>2. Done'
  BY DEF IInv, Done, TypeOK, Vxlans
<1>3. Loops'
  BY EmptyList DEF IInv, TypeOK, Done, Loops
<1>4. Addresses' /\ Fresh'
  BY EmptyList DEF IInv, TypeOK, Done, Addresses, Fresh, On, Global
<1> QED
  BY <1>1, <1>2, <1>3, <1>4 DEF IInv

\* A command ends before its last call.
LEMMA AbortStep ==
  ASSUME IInv, Abort
  PROVE  IInv'
<1> USE DEF Abort, Disturbed, kernel
<1>1. TypeOK'
  BY EmptyList, BoundAssumption DEF IInv, TypeOK, Done
<1>2. Done'
  BY DEF IInv, Done, TypeOK, Vxlans
<1>3. Loops'
  BY EmptyList DEF IInv, TypeOK, Done, Loops
<1>4. Addresses' /\ Fresh'
  BY EmptyList DEF IInv, TypeOK, Done, Addresses, Fresh, On, Global
<1> QED
  BY <1>1, <1>2, <1>3, <1>4 DEF IInv

\* A reboot.
LEMMA RebootStep ==
  ASSUME IInv, Reboot
  PROVE  IInv'
<1> USE DEF Reboot, Disturbed, Released
<1>1. TypeOK'
  BY EmptyList, BoundAssumption DEF IInv, TypeOK, Done
<1>2. Done'
  BY DEF IInv, Done, TypeOK, Vxlans
<1>3. Loops'
  BY EmptyList DEF IInv, TypeOK, Done, Loops
<1>4. Addresses' /\ Fresh'
  BY EmptyList DEF IInv, TypeOK, Done, Addresses, Fresh, On, Global
<1> QED
  BY <1>1, <1>2, <1>3, <1>4 DEF IInv

\* A local port goes or comes.
LEMMA PlugStep ==
  ASSUME IInv, NEW q \in Port, Unplug(q) \/ Plug(q)
  PROVE  IInv'
<1> USE DEF Unplug, Plug, Disturbed
<1>1. TypeOK'
  BY EmptyList, BoundAssumption DEF IInv, TypeOK, Done
<1>2. Done'
  BY DEF IInv, Done, TypeOK, Vxlans
<1>3. Loops'
  BY EmptyList DEF IInv, TypeOK, Done, Loops
<1>4. Addresses' /\ Fresh'
  BY EmptyList DEF IInv, TypeOK, Done, Addresses, Fresh, On, Global
<1> QED
  BY <1>1, <1>2, <1>3, <1>4 DEF IInv

-----------------------------------------------------------------------------
(***************************************************************************)
(* The calls of l2.Up.                                                     *)
(***************************************************************************)
\* A bridge, if there is one.
LEMMA BridgeFacts ==
  ASSUME TypeOK, ~NoBridge
  PROVE  /\ bridge = [addrs |-> bridge.addrs, up |-> bridge.up]
         /\ bridge.addrs \in Seq(Addr \cup {LinkLocal}) /\ IsInjective(bridge.addrs)
         /\ On \subseteq Addr \cup {LinkLocal}
         /\ bridge.up \in BOOLEAN
<1>1. bridge \in Bridges /\ IsInjective(bridge.addrs)
  BY DEF TypeOK
<1> QED
  BY <1>1, RangeOfSeq DEF Bridges, On

\* One that is made or changed is one.
LEMMA BridgeMade ==
  ASSUME NEW addrs \in Seq(Addr \cup {LinkLocal}), NEW up \in BOOLEAN
  PROVE  [addrs |-> addrs, up |-> up] \in Bridges /\ [addrs |-> addrs, up |-> up] # Missing
  BY MissingAssumption DEF Bridges

LEMMA VxlanMade ==
  ASSUME NEW made \in {c.vxlan : c \in Configs}
  PROVE  [made |-> made, attached |-> FALSE, hairpin |-> FALSE, up |-> FALSE] \in Vxlans
  BY DEF Vxlans

\* The bridge is made without addresses, or is there.
LEMMA EnsureBridgeStep ==
  ASSUME IInv, ensureBridge
  PROVE  IInv'
<1> USE DEF ensureBridge, Goto
<1>1. <<>> \in Seq(Addr \cup {LinkLocal})
  BY EmptySeq
<1>2. ~NoBridge'
  BY <1>1, BridgeMade
<1>3. TypeOK'
  BY <1>1, BridgeMade, EmptyList DEF IInv, TypeOK
<1>4. Done' /\ Loops'
  BY <1>2 DEF IInv, Done, Loops
<1>5. Addresses' /\ Fresh'
  BY EmptyList DEF IInv, Addresses, Fresh, On, Global
<1> QED
  BY <1>3, <1>4, <1>5 DEF IInv

\* The addresses are listed: the loop over those of state.json begins.
LEMMA ListStep ==
  ASSUME IInv, ListAddrs
  PROVE  IInv'
<1> USE DEF ListAddrs
<1>1. /\ want \in Configs /\ ~NoBridge /\ TypeOK /\ pc = "list"
      /\ pc' = "add" /\ current' = bridge.addrs /\ rest' = want.addrs
      /\ UNCHANGED <<config, promote, bridge, vxlan, port, want, fresh, left>>
  BY DEF IInv, TypeOK, Done, kernel
<1>2. TypeOK'
  BY <1>1 DEF TypeOK
<1>3. Done'
  BY <1>1 DEF IInv, Done
<1>4. Loops'
  BY <1>1, ConfigFacts, BridgeFacts DEF Loops
<1>5. Addresses' /\ Fresh'
  BY <1>1 DEF IInv, Addresses, Fresh, On
<1> QED
  BY <1>2, <1>3, <1>4, <1>5 DEF IInv

\* An address is added unless it was listed; after the last one, those listed are gone through.
LEMMA AddStep ==
  ASSUME IInv, AddAddr
  PROVE  IInv'
<1> USE DEF AddAddr, Goto
<1> DEFINE S == Addr \cup {LinkLocal}
<1>1. /\ want \in Configs /\ ~NoBridge /\ TypeOK /\ pc = "add"
      /\ {current, rest} \subseteq Seq(S)
      /\ IsInjective(rest) /\ Range(rest) \subseteq Range(want.addrs)
  BY DEF IInv, TypeOK, Done, Loops
<1>2. /\ bridge = [addrs |-> bridge.addrs, up |-> bridge.up]
      /\ bridge.addrs \in Seq(S) /\ IsInjective(bridge.addrs) /\ bridge.up \in BOOLEAN
  BY <1>1, BridgeFacts
<1>3. CASE rest = <<>>
  <2>1. pc' = "del" /\ current' = current /\ rest' = current /\ UNCHANGED <<bridge, fresh, want, config, promote, vxlan, port, left>>
    BY <1>1, <1>3
  <2>2. TypeOK' /\ Done' /\ Loops'
    BY <1>1, <2>1 DEF IInv, TypeOK, Done, Loops
  <2>3. Addresses' /\ Fresh'
    BY <1>1, <1>3, <2>1, EmptyList DEF IInv, Addresses, Fresh, On, Global
  <2> QED
    BY <2>2, <2>3 DEF IInv
<1>4. CASE rest # <<>>
  <2>1. /\ pc' = "add" /\ current' = current /\ rest' = Tail(rest)
        /\ UNCHANGED <<fresh, want, config, promote, vxlan, port, left>>
    BY <1>1, <1>4
  <2>2. /\ Head(rest) \in S /\ Tail(rest) \in Seq(S)
        /\ Range(rest) = {Head(rest)} \cup Range(Tail(rest))
        /\ IsInjective(Tail(rest)) /\ Head(rest) \notin Range(Tail(rest))
    BY <1>1, <1>4, NextOfList
  <2>3. Head(rest) \in Range(want.addrs) /\ Head(rest) # LinkLocal
    BY <1>1, <2>2, ConfigFacts
  <2>4. /\ bridge' \in Bridges /\ bridge' # Missing /\ IsInjective(bridge'.addrs)
        /\ bridge'.up = bridge.up /\ On' = On \cup {Head(rest)}
    <3>1. CASE Head(rest) \in Range(current)
      BY <1>1, <1>2, <1>4, <3>1, BridgeMade DEF IInv, Addresses, On
    <3>2. CASE Head(rest) \notin Range(current)
      <4>1. bridge' = [addrs |-> Append(bridge.addrs, Head(rest)), up |-> bridge.up]
        BY <1>2, <1>4, <3>2
      <4>2. Head(rest) \notin On
        BY <1>1, <2>2, <3>2 DEF IInv, Addresses
      <4>3. /\ Append(bridge.addrs, Head(rest)) \in Seq(S)
            /\ Range(Append(bridge.addrs, Head(rest))) = On \cup {Head(rest)}
            /\ IsInjective(Append(bridge.addrs, Head(rest)))
        BY <1>2, <2>2, <4>2, AppendList DEF On
      <4> QED
        BY <1>2, <4>1, <4>3, BridgeMade DEF On
    <3> QED
      BY <3>1, <3>2
  <2>5. TypeOK' /\ Done' /\ Loops'
    BY <1>1, <2>1, <2>2, <2>4 DEF IInv, TypeOK, Done, Loops
  <2>6. Addresses'
    BY <1>1, <2>1, <2>2, <2>3, <2>4 DEF IInv, Addresses
  <2>7. Fresh'
    BY <1>1, <2>1, <2>3, <2>4 DEF IInv, Done, Fresh, On, Global
  <2> QED
    BY <2>5, <2>6, <2>7 DEF IInv
<1> QED
  BY <1>3, <1>4

\* An address that is not wanted is deleted, with others perhaps, or has gone.
LEMMA DelStep ==
  ASSUME IInv, DelAddr
  PROVE  IInv'
<1> USE DEF DelAddr, Goto
<1> DEFINE S == Addr \cup {LinkLocal}
<1>1. /\ want \in Configs /\ want = config /\ ~NoBridge /\ TypeOK /\ pc = "del"
      /\ {current, rest} \subseteq Seq(S)
  BY DEF IInv, TypeOK, Done, Loops
<1>2. /\ bridge = [addrs |-> bridge.addrs, up |-> bridge.up]
      /\ bridge.addrs \in Seq(S) /\ IsInjective(bridge.addrs) /\ bridge.up \in BOOLEAN
  BY <1>1, BridgeFacts
<1>3. CASE rest = <<>>
  <2>1. /\ pc' = "vxlan" /\ current' = <<>> /\ rest' = <<>>
        /\ UNCHANGED <<config, promote, bridge, vxlan, port, want, fresh, left>>
    BY <1>1, <1>3
  <2>2. TypeOK' /\ Done' /\ Loops'
    BY <1>1, <2>1 DEF IInv, TypeOK, Done, Loops
  <2>3. Addresses' /\ Fresh'
    BY <1>1, <1>3, <2>1, EmptyList DEF IInv, Addresses, Fresh, On, Global
  <2> QED
    BY <2>2, <2>3 DEF IInv
<1>4. CASE Exit
  <2>1. /\ pc' = "idle" /\ current' = <<>> /\ rest' = <<>>
        /\ UNCHANGED <<config, promote, vxlan, port, want, fresh, left>>
    BY <1>4 DEF Exit
  <2>2. bridge' = bridge
    BY <1>1, <1>4 DEF Exit
  <2>3. TypeOK' /\ Done' /\ Loops'
    BY <1>1, <2>1, <2>2 DEF IInv, TypeOK, Done, Loops
  <2>4. Addresses' /\ Fresh'
    BY <1>1, <2>1, <2>2 DEF IInv, Addresses, Fresh, On
  <2> QED
    BY <2>3, <2>4 DEF IInv
<1>5. CASE rest # <<>> /\ ~Exit
  <2>1. /\ pc' = "del" /\ current' = current /\ rest' = Tail(rest)
        /\ UNCHANGED <<config, promote, vxlan, port, want, fresh, left>>
    BY <1>1, <1>5
  <2>2. /\ Head(rest) \in S /\ Tail(rest) \in Seq(S)
        /\ Range(rest) = {Head(rest)} \cup Range(Tail(rest))
    BY <1>1, <1>5, NextOfList
  <2>3. CASE Wanted(Head(rest))
    <3>1. bridge' = bridge
      BY <1>5, <2>3
    <3>2. TypeOK' /\ Done' /\ Loops'
      BY <1>1, <2>1, <2>2, <3>1 DEF IInv, TypeOK, Done, Loops
    <3>3. Addresses' /\ Fresh'
      BY <1>1, <2>1, <2>2, <2>3, <3>1 DEF IInv, Addresses, Fresh, On, Wanted
    <3> QED
      BY <3>2, <3>3 DEF IInv
  <2>4. CASE ~Wanted(Head(rest))
    <3>1. PICK addrs \in Without(bridge.addrs, Head(rest)) :
            bridge' = [bridge EXCEPT !.addrs = addrs]
      BY <1>5, <2>4
    <3>2. /\ addrs \in Seq(S) /\ IsInjective(addrs)
          /\ Range(addrs) \subseteq On \ {Head(rest)}
          /\ promote => Range(addrs) = On \ {Head(rest)}
          /\ LinkLocal \in Range(addrs) <=> LinkLocal \in On
      BY <1>2, <2>4, WithoutList DEF Wanted, On
    <3>3. bridge' = [addrs |-> addrs, up |-> bridge.up]
      BY <1>2, <3>1
    <3>4. /\ bridge' \in Bridges /\ bridge' # Missing /\ IsInjective(bridge'.addrs)
          /\ bridge'.up = bridge.up /\ On' = Range(addrs)
      BY <1>2, <3>2, <3>3, BridgeMade DEF On
    <3>5. TypeOK' /\ Done' /\ Loops'
      BY <1>1, <2>1, <2>2, <3>4 DEF IInv, TypeOK, Done, Loops
    <3>6. Addresses'
      BY <1>1, <2>1, <2>2, <2>4, <3>2, <3>4 DEF IInv, Addresses, Wanted
    <3>7. ~fresh
      BY <1>1, <2>2, <2>4 DEF IInv, Fresh, Wanted
    <3> QED
      BY <2>1, <3>5, <3>6, <3>7 DEF IInv, Fresh
  <2> QED
    BY <2>3, <2>4
<1> QED
  BY <1>1, <1>3, <1>4, <1>5

\* The VXLAN port is made, of this configuration, or kept.
LEMMA VxlanStep ==
  ASSUME IInv, ensureVxlan
  PROVE  IInv'
<1> USE DEF ensureVxlan, Goto
<1>1. want \in Configs /\ want = config /\ pc = "vxlan"
  BY DEF IInv, TypeOK, Done
<1>2. /\ vxlan' \in Vxlans /\ vxlan' # Missing
      /\ vxlan' = vxlan \/ vxlan'.made = want.vxlan
  <2>1. CASE vxlan = Missing
    <3>1. vxlan' = [made |-> want.vxlan, attached |-> FALSE, hairpin |-> FALSE, up |-> FALSE]
      BY <2>1
    <3>2. vxlan' \in Vxlans
      BY <1>1, <3>1, ConfigFacts, VxlanMade
    <3>3. vxlan'.made = want.vxlan
      BY <3>1
    <3> QED
      BY <3>2, <3>3, MissingAssumption
  <2>2. CASE vxlan # Missing
    BY <2>2 DEF IInv, TypeOK
  <2> QED
    BY <2>1, <2>2
<1>3. TypeOK' /\ Done' /\ Loops'
  BY <1>1, <1>2 DEF IInv, TypeOK, Done, Loops
<1>4. Addresses' /\ Fresh'
  BY <1>1, <1>2 DEF IInv, Addresses, Fresh, On
<1> QED
  BY <1>3, <1>4 DEF IInv

\* One of its settings is changed.
LEMMA VxlanSettingsStep ==
  ASSUME IInv, Attach \/ SetHairpin \/ UpVxlan
  PROVE  IInv'
<1> USE DEF Attach, SetHairpin, UpVxlan, Goto
<1>1. /\ want \in Configs /\ pc \in {"attach", "hairpin", "upvxlan"}
      /\ vxlan \in Vxlans
  BY DEF IInv, TypeOK, Done
<1>2. /\ vxlan' \in Vxlans /\ vxlan' # Missing /\ vxlan'.made = vxlan.made
      /\ vxlan'.attached = (pc = "attach" \/ vxlan.attached)
      /\ vxlan'.hairpin = IF pc = "hairpin" THEN want.root ELSE vxlan.hairpin
      /\ pc = "upvxlan" => vxlan'.up
  BY <1>1, ConfigFacts, MissingAssumption DEF Vxlans
<1>3. TypeOK' /\ Done'
  BY <1>1, <1>2 DEF IInv, TypeOK, Done
<1>4. Loops'
  BY <1>1, ConfigFacts DEF IInv, Loops
<1>5. Addresses' /\ Fresh'
  BY <1>1, <1>2 DEF IInv, Done, Addresses, Fresh, On
<1> QED
  BY <1>3, <1>4, <1>5 DEF IInv

\* A local port is attached or brought up, or is missing.
LEMMA PortStep ==
  ASSUME IInv, AttachPort \/ RaisePort
  PROVE  IInv'
<1> USE DEF AttachPort, RaisePort, Goto, Exit
<1>1. /\ pc \in {"port", "raise"} /\ want = config /\ ~NoBridge
      /\ rest \in Seq(Port) /\ Range(rest) \subseteq Range(want.ports)
  BY DEF IInv, Done, Loops
<1>2. rest # <<>> => /\ Head(rest) \in Port /\ Tail(rest) \in Seq(Port)
                     /\ Range(rest) = {Head(rest)} \cup Range(Tail(rest))
  BY <1>1, NextOfList
<1>3. pc = "raise" => rest # <<>>
  BY DEF IInv, Loops
<1>4. \/ port' = port
      \/ /\ rest # <<>>
         /\ \E x \in {"attached", "up"} : port' = [port EXCEPT ![Head(rest)] = x]
  BY <1>3
<1>5. TypeOK'
  BY <1>1, <1>2, <1>4 DEF IInv, TypeOK
<1>6. Done'
  BY <1>1 DEF IInv, Done
<1>7. Loops'
  BY <1>1, <1>2, <1>3 DEF IInv, Loops
<1>8. Addresses'
  BY <1>1 DEF IInv, Addresses, On
<1>9. Fresh'
  BY <1>1, <1>2, <1>4 DEF IInv, TypeOK, Fresh, On
<1> QED
  BY <1>5, <1>6, <1>7, <1>8, <1>9 DEF IInv

\* The bridge comes up, and gets its link-local address if it was down.
LEMMA UpBridgeFacts ==
  ASSUME IInv, UpBridge
  PROVE  /\ bridge' \in Bridges /\ bridge' # Missing /\ IsInjective(bridge'.addrs)
         /\ bridge'.up /\ On' = On \cup {LinkLocal}
<1> USE DEF UpBridge
<1>1. TypeOK /\ ~NoBridge /\ (bridge.up <=> LinkLocal \in On)
  BY DEF IInv, Done, Addresses
<1>2. /\ bridge = [addrs |-> bridge.addrs, up |-> bridge.up]
      /\ bridge.addrs \in Seq(Addr \cup {LinkLocal}) /\ IsInjective(bridge.addrs)
  BY <1>1, BridgeFacts
<1>3. CASE bridge.up
  BY <1>1, <1>2, <1>3, BridgeMade DEF On
<1>4. CASE ~bridge.up
  <2>1. bridge' = [addrs |-> Append(bridge.addrs, LinkLocal), up |-> TRUE]
    BY <1>4
  <2>2. /\ Append(bridge.addrs, LinkLocal) \in Seq(Addr \cup {LinkLocal})
        /\ Range(Append(bridge.addrs, LinkLocal)) = On \cup {LinkLocal}
        /\ IsInjective(Append(bridge.addrs, LinkLocal))
    BY <1>1, <1>2, <1>4, AppendList DEF On
  <2>3. [addrs |-> Append(bridge.addrs, LinkLocal), up |-> TRUE] \in Bridges \ {Missing}
    BY <2>2, BridgeMade
  <2>4. bridge'.addrs = Append(bridge.addrs, LinkLocal) /\ bridge'.up
    BY <2>1
  <2> QED
    BY <2>1, <2>2, <2>3, <2>4 DEF On
<1> QED
  BY <1>3, <1>4

LEMMA UpBridgeStep ==
  ASSUME IInv, UpBridge
  PROVE  IInv'
<1>1. /\ bridge' \in Bridges /\ bridge' # Missing /\ IsInjective(bridge'.addrs)
      /\ bridge'.up /\ On' = On \cup {LinkLocal}
  BY UpBridgeFacts
<1>2. TypeOK' /\ Done' /\ Loops'
  BY <1>1 DEF IInv, TypeOK, Done, Loops, UpBridge, Exit
<1>3. Addresses' /\ Fresh'
  BY <1>1 DEF IInv, Done, Addresses, Fresh, On, Global, UpBridge, Exit
<1> QED
  BY <1>2, <1>3 DEF IInv

LEMMA NextIInv == IInv /\ [Next]_vars => IInv'
<1> SUFFICES ASSUME IInv, [Next]_vars PROVE IInv'
  OBVIOUS
<1>1. CASE Up
  BY <1>1, EnsureBridgeStep, ListStep, AddStep, DelStep, VxlanStep, VxlanSettingsStep, PortStep,
     UpBridgeStep DEF Up
<1>2. CASE Down
  BY <1>2, DelVxlanStep, DelBridgeStep DEF Down
<1>3. CASE UNCHANGED vars
  BY <1>3 DEF vars, kernel, IInv, TypeOK, Done, Loops, Addresses, Fresh, On
<1> QED
  BY <1>1, <1>2, <1>3, StartStep, ReplaceStep, AbortStep, RebootStep, PlugStep DEF Next

LEMMA Invariance == Spec => []IInv
  BY InitIInv, NextIInv, PTL DEF Spec

-----------------------------------------------------------------------------
(***************************************************************************)
(* The model of l2.Up and l2.Down is well typed: among others no address   *)
(* is ever added to the bridge twice, and no port stays attached to a      *)
(* bridge that has gone.                                                   *)
(***************************************************************************)
THEOREM TypeCorrect == Spec => []TypeOK
<1>1. IInv => TypeOK
  BY DEF IInv
<1> QED
  BY <1>1, Invariance, PTL

(***************************************************************************)
(* syncBridgeAddrs: whatever addresses were there, and whichever the       *)
(* kernel takes along with others, an l2.Up that succeeds leaves none that *)
(* is not wanted, and with promote_secondaries all that are wanted.        *)
(***************************************************************************)
THEOREM AddrsAlwaysMatch == Spec => AddrsMatch
<1>1. ASSUME IInv, UpDone
      PROVE  /\ Global(bridge'.addrs) \subseteq Range(want.addrs)
             /\ bridge.up => LinkLocal \in Range(bridge'.addrs)
             /\ promote => Global(bridge'.addrs) = Range(want.addrs)
  <2>1. pc = "upbridge" /\ want \in Configs /\ On' = On \cup {LinkLocal}
    BY <1>1, UpBridgeFacts DEF UpDone, UpBridge, IInv, TypeOK
  <2>2. LinkLocal \notin Range(want.addrs)
    BY <2>1, ConfigFacts
  <2> QED
    BY <1>1, <2>1, <2>2 DEF IInv, Addresses, Global, On
<1>2. IInv /\ [Next]_vars =>
        [UpDone => /\ Global(bridge'.addrs) \subseteq Range(want.addrs)
                   /\ bridge.up => LinkLocal \in Range(bridge'.addrs)
                   /\ promote => Global(bridge'.addrs) = Range(want.addrs)]_vars
  BY <1>1
<1> QED
  BY <1>2, Invariance, PTL DEF Spec, AddrsMatch

(***************************************************************************)
(* l2.Up and l2.Down: after a Down or a reboot, the first Up that succeeds *)
(* leaves exactly what state.json says, however many have failed before    *)
(* it.                                                                     *)
(***************************************************************************)
THEOREM AlwaysRebuilt == Spec => RebuiltMatches
<1> DEFINE Exact ==
      /\ Global(bridge'.addrs) = Range(want.addrs)
      /\ vxlan' = [made |-> want.vxlan, attached |-> TRUE, hairpin |-> want.root, up |-> TRUE]
      /\ \A q \in Port : port'[q] \in {"attached", "up"} => q \in Range(want.ports)
<1>1. ASSUME IInv, UpDone, fresh PROVE Exact
  <2>1. /\ pc = "upbridge" /\ want \in Configs /\ want = config /\ ~NoBridge
        /\ On' = On \cup {LinkLocal} /\ UNCHANGED <<vxlan, port>>
    BY <1>1, UpBridgeFacts DEF UpDone, UpBridge, IInv, TypeOK, Done
  <2>2. LinkLocal \notin Range(want.addrs) /\ want.root \in BOOLEAN
    BY <2>1, ConfigFacts
  <2>3. Global(bridge'.addrs) = Range(want.addrs)
    BY <1>1, <2>1, <2>2 DEF IInv, Fresh, Global, On
  <2>4. vxlan' = [made |-> want.vxlan, attached |-> TRUE, hairpin |-> want.root, up |-> TRUE]
    <3>1. /\ vxlan \in Vxlans /\ vxlan.made = want.vxlan /\ vxlan.attached
          /\ vxlan.hairpin = want.root /\ vxlan.up
      BY <1>1, <2>1 DEF IInv, TypeOK, Done, Fresh
    <3> QED
      BY <2>1, <3>1 DEF Vxlans
  <2>5. \A q \in Port : port'[q] \in {"attached", "up"} => q \in Range(want.ports)
    BY <1>1, <2>1 DEF IInv, Fresh
  <2> QED
    BY <2>3, <2>4, <2>5
<1>2. IInv /\ [Next]_vars => [UpDone /\ fresh => Exact]_vars
  BY <1>1
<1> QED
  BY <1>2, Invariance, PTL DEF Spec, RebuiltMatches

-----------------------------------------------------------------------------
(***************************************************************************)
(* DataPlaneKernel: DataPlane implements NodeKernel's l2.Up and l2.Down.   *)
(***************************************************************************)
\* The command that runs and the call it is at, and what is done when drift does not say otherwise.
Ops ==
  /\ op \in {"none", "up", "sync", "down"}
  /\ pc = "idle" => op \in {"none", "sync"}
  /\ pc \in Upping => op \in {"up", "sync"}
  /\ pc \in {"delvxlan", "delbridge"} => op = "down"

KInv == IInv /\ Ops

\* NodeKernel's steps are steps of DataPlane, or leave it alone.
LEMMA ToKernelNext == [NextToKernel]_kvars => [Next]_vars
<1>1. NextToKernel => Next \/ UNCHANGED vars
  BY DEF NextToKernel, StartUpToKernel, SyncFails, UpToKernel, DownToKernel, AbortToKernel,
         OthersToKernel, Next, Up, vars, kernel
<1>2. UNCHANGED kvars => UNCHANGED vars
  BY DEF kvars, vars, kernel
<1> QED
  BY <1>1, <1>2

\* Where the calls of l2.Up lead.
LEMMA UpLabels ==
  ASSUME IInv, Up
  PROVE  pc \in Upping /\ pc' \in Upping \cup {"idle"}
BY DEF Up, IInv, Done, ensureBridge, ListAddrs, AddAddr, DelAddr, ensureVxlan, Attach, SetHairpin,
       AttachPort, RaisePort, UpVxlan, UpBridge, Goto, Exit

LEMMA NextKInv == KInv /\ [NextToKernel]_kvars => KInv'
<1> SUFFICES ASSUME KInv, [NextToKernel]_kvars PROVE KInv'
  OBVIOUS
<1>1. IInv /\ IInv' /\ Ops /\ pc \in Labels
  BY ToKernelNext, NextIInv DEF KInv, IInv, Done
<1>2. CASE UNCHANGED kvars
  BY <1>1, <1>2 DEF kvars, Ops, KInv
<1>3. CASE StartUpToKernel \/ SyncFails
  BY <1>1, <1>3 DEF StartUpToKernel, SyncFails, Booting, StartUp, Ops, KInv
<1>4. CASE UpToKernel
  <2>1. Up /\ op' = IF pc' = "idle" THEN "none" ELSE op
    BY <1>4 DEF UpToKernel, Up, OpEnds
  <2> QED
    BY <1>1, <2>1, UpLabels DEF Ops, KInv
<1>5. CASE DownToKernel
  <2>1. /\ pc' \in {"delvxlan", "delbridge", "idle"}
        /\ op' = IF pc' = "idle" THEN "none" ELSE "down"
    BY <1>1, <1>5 DEF DownToKernel, StartDown, Down, DelVxlan, DelBridge, Goto, OpEnds, Ops
  <2> QED
    BY <1>1, <2>1 DEF Ops, KInv
<1>6. CASE AbortToKernel \/ OthersToKernel
  BY <1>1, <1>6 DEF AbortToKernel, OthersToKernel, Abort, Replace, Reboot, Unplug, Plug, Ops, KInv
<1> QED
  BY <1>2, <1>3, <1>4, <1>5, <1>6 DEF NextToKernel

\* Neither an idle process nor any of these commands ever takes the lock.
LEMMA KernelCommands ==
  ASSUME NEW x \in {"none", "up", "sync", "down"}
  PROVE  ~Kernel!Locks([op |-> x])
<1>1. \A c \in Kernel!Command : c.op \in {"add", "remove", "promote", "demote"}
  BY DEF Kernel!Command
<1> QED
  BY <1>1 DEF Kernel!Locks

\* The states of NodeKernel, which have no peers.
LEMMA KernelStates ==
  ASSUME NEW c, NEW endpoint
  PROVE  /\ Kernel!NodeOnly(StateOf(c, endpoint)) = StateOf(c, "none")
         /\ Kernel!FlatPeers(StateOf(c, endpoint)) = {}
         /\ Kernel!Entries(StateOf(c, endpoint)) = {}
<1>1. Kernel!FlatPeers(StateOf(c, endpoint)) = {}
  BY DEF Kernel!FlatPeers, StateOf
<1>2. Kernel!NodeOnly(StateOf(c, endpoint)) = StateOf(c, "none")
  <2>1. \A r, i, n : [[role |-> n, ip |-> i, endpoint |-> "none", roots |-> {}, leafs |-> {}]
                        EXCEPT !.role = r] =
                     [role |-> r, ip |-> i, endpoint |-> "none", roots |-> {}, leafs |-> {}]
    OBVIOUS
  <2>2. \A r, i, n : [[role |-> r, ip |-> n, endpoint |-> "none", roots |-> {}, leafs |-> {}]
                        EXCEPT !.ip = i] =
                     [role |-> r, ip |-> i, endpoint |-> "none", roots |-> {}, leafs |-> {}]
    OBVIOUS
  <2>3. \A s : Kernel!NodeOnly(s) =
          [role |-> s.role, ip |-> s.ip, endpoint |-> "none", roots |-> {}, leafs |-> {}]
    <3> SUFFICES ASSUME NEW s
                 PROVE  Kernel!NodeOnly(s) = [role |-> s.role, ip |-> s.ip, endpoint |-> "none",
                                              roots |-> {}, leafs |-> {}]
      OBVIOUS
    <3>1. [[role |-> "root", ip |-> SomeAttribute, endpoint |-> "none", roots |-> {}, leafs |-> {}]
             EXCEPT !.role = s.role] =
          [role |-> s.role, ip |-> SomeAttribute, endpoint |-> "none", roots |-> {}, leafs |-> {}]
      BY <2>1, Zenon
    <3>2. [[role |-> s.role, ip |-> SomeAttribute, endpoint |-> "none", roots |-> {}, leafs |-> {}]
             EXCEPT !.ip = s.ip] =
          [role |-> s.role, ip |-> s.ip, endpoint |-> "none", roots |-> {}, leafs |-> {}]
      BY <2>2, Zenon
    <3> QED
      BY <3>1, <3>2, Zenon DEF Kernel!NodeOnly, Kernel!DefaultState
  <2>4. \A r : LET s == [role |-> r, ip |-> c.vxlan, endpoint |-> endpoint, roots |-> {}, leafs |-> {}]
               IN  s.role = r /\ s.ip = c.vxlan
    OBVIOUS
  <2>5. /\ StateOf(c, endpoint).role = IF c.root THEN "root" ELSE "leaf"
        /\ StateOf(c, endpoint).ip = c.vxlan
    BY <2>4 DEF StateOf
  <2>6. Kernel!NodeOnly(StateOf(c, endpoint)) =
          [role |-> StateOf(c, endpoint).role, ip |-> StateOf(c, endpoint).ip,
           endpoint |-> "none", roots |-> {}, leafs |-> {}]
    BY <2>3, Zenon
  <2> QED
    BY <2>5, <2>6 DEF StateOf
<1> QED
  BY <1>1, <1>2 DEF Kernel!Entries

\* A command of NodeKernel begins, goes on, ends.
LEMMA KernelStarts ==
  ASSUME NEW x \in {"up", "down"}, op = "none", op' = x, KernelStep = "idle",
         KernelStep' = Kernel!FirstStep([op |-> x]),
         config' = config, drift' = drift, KernelBridge' = KernelBridge, KernelVxlan' = KernelVxlan,
         KernelMem' = IF x = "up" THEN Kernel!NodeOnly(StateOf(config, "endpoint")) ELSE Kernel!DefaultState
  PROVE  Kernel!StartUnlocked(Cmd, [op |-> x])
<1>1. Kernel!Idle(Cmd) /\ \A q \in {Cmd} : Kernel!Idle(q)
  BY DEF Kernel!Idle
<1>2. \A y, z : [[p \in {Cmd} |-> y] EXCEPT ![Cmd] = z] = [p \in {Cmd} |-> z]
  OBVIOUS
<1>3. UNCHANGED <<StateOf(config, "endpoint"), Kernel!kernel, drift>>
  BY DEF Kernel!kernel, StateOf
<1>4. Kernel!Start(Cmd, [op |-> x], KernelMem')
  BY <1>1, <1>2, <1>3 DEF Kernel!Start
<1> QED
  BY <1>4 DEF Kernel!StartUnlocked

LEMMA KernelGoes ==
  ASSUME NEW step, KernelStep' = step, op' = op, KernelMem' = KernelMem
  PROVE  Kernel!Goto(Cmd, step)
<1>1. [[p \in {Cmd} |-> KernelStep] EXCEPT ![Cmd] = step] = [p \in {Cmd} |-> step]
  OBVIOUS
<1> QED
  BY <1>1 DEF Kernel!Goto

LEMMA KernelEnds ==
  ASSUME op # "none", op' = "none", KernelStep' = "idle"
  PROVE  Kernel!End(Cmd)
<1>1. \A y, z : [[p \in {Cmd} |-> y] EXCEPT ![Cmd] = z] = [p \in {Cmd} |-> z]
  OBVIOUS
<1>2. KernelMem' = Kernel!DefaultState
  BY DEF KernelMem, Kernel!DefaultState
<1> QED
  BY <1>1, <1>2 DEF Kernel!End, Kernel!NoCmd, Cmd, Nobody

\* A command of NodeKernel is killed, or fails.
LEMMA KernelAborts ==
  ASSUME KInv, op # "none", op' = "none", KernelStep' = "idle",
         drift' = IF pc \in Upping THEN drift \cup {"l2"} ELSE drift,
         config' = config, KernelBridge' = KernelBridge, KernelVxlan' = KernelVxlan
  PROVE  Kernel!Abort(Cmd)
<1>1. /\ KernelStep # "idle" /\ KernelStep # "save"
      /\ pc \in Upping <=>
           KernelStep \in {"bridge", "vxlan", "attach", "hairpin", "ports", "upbridge"}
  BY DEF KInv, IInv, Done, Ops, KernelStep, Booting
<1>2. Kernel!End(Cmd)
  BY KernelEnds
<1>3. UNCHANGED <<StateOf(config, "endpoint"), Kernel!kernel>>
  BY DEF Kernel!kernel, StateOf
<1>4. drift' = drift \cup {} \cup (IF pc \in Upping THEN {"l2"} ELSE {})
  OBVIOUS
<1> QED
  BY <1>1, <1>2, <1>3, <1>4 DEF Kernel!Abort, Kernel!Idle, Kernel!At

\* The VXLAN port of NodeKernel, and what changes an attribute of it.
Views == [up : BOOLEAN, master : BOOLEAN, hairpin : BOOLEAN, exists : BOOLEAN,
          ip : Attributes \cup {Missing}]

LEMMA ViewFlags ==
  ASSUME NEW v \in Views, NEW b \in BOOLEAN
  PROVE  /\ [v EXCEPT !.up = b] =
              [up |-> b, master |-> v.master, hairpin |-> v.hairpin, ip |-> v.ip, exists |-> v.exists]
         /\ [v EXCEPT !.master = b] =
              [up |-> v.up, master |-> b, hairpin |-> v.hairpin, ip |-> v.ip, exists |-> v.exists]
         /\ [v EXCEPT !.hairpin = b] =
              [up |-> v.up, master |-> v.master, hairpin |-> b, ip |-> v.ip, exists |-> v.exists]
         /\ [v EXCEPT !.exists = b] =
              [up |-> v.up, master |-> v.master, hairpin |-> v.hairpin, ip |-> v.ip, exists |-> b]
BY DEF Views

LEMMA ViewAddress ==
  ASSUME NEW v \in Views, NEW a \in Attributes
  PROVE  [v EXCEPT !.ip = a] =
           [up |-> v.up, master |-> v.master, hairpin |-> v.hairpin, ip |-> a, exists |-> v.exists]
BY DEF Views

\* A port of NodeKernel is made, with an address; or is taken from its bridge.
LEMMA ViewMade ==
  ASSUME NEW v \in Views, NEW a \in Attributes
  PROVE  [v EXCEPT !.exists = TRUE, !.ip = a] =
           [up |-> v.up, master |-> v.master, hairpin |-> v.hairpin, ip |-> a, exists |-> TRUE]
<1>1. PICK w \in Views : w = [v EXCEPT !.exists = TRUE]
  BY ViewFlags DEF Views
<1>2. w = [up |-> v.up, master |-> v.master, hairpin |-> v.hairpin, ip |-> v.ip, exists |-> TRUE]
  BY <1>1, ViewFlags, Zenon
<1>3. w.up = v.up /\ w.master = v.master /\ w.hairpin = v.hairpin /\ w.exists = TRUE
  BY <1>2 DEF Views
<1>4. [w EXCEPT !.ip = a] =
        [up |-> w.up, master |-> w.master, hairpin |-> w.hairpin, ip |-> a, exists |-> w.exists]
  BY ViewAddress
<1>5. [v EXCEPT !.exists = TRUE, !.ip = a] = [w EXCEPT !.ip = a]
  BY <1>1, Zenon
<1> QED
  BY <1>3, <1>4, <1>5, Zenon

LEMMA ViewReleased ==
  ASSUME NEW v \in Views
  PROVE  [v EXCEPT !.master = FALSE, !.hairpin = FALSE] =
           [up |-> v.up, master |-> FALSE, hairpin |-> FALSE, ip |-> v.ip, exists |-> v.exists]
<1>1. PICK w \in Views : w = [v EXCEPT !.master = FALSE]
  BY ViewFlags DEF Views
<1>2. w = [up |-> v.up, master |-> FALSE, hairpin |-> v.hairpin, ip |-> v.ip, exists |-> v.exists]
  BY <1>1, ViewFlags, Zenon
<1>3. w.up = v.up /\ w.master = FALSE /\ w.ip = v.ip /\ w.exists = v.exists
  BY <1>2 DEF Views
<1>4. [w EXCEPT !.hairpin = FALSE] =
        [up |-> w.up, master |-> w.master, hairpin |-> FALSE, ip |-> w.ip, exists |-> w.exists]
  BY ViewFlags
<1>5. [v EXCEPT !.master = FALSE, !.hairpin = FALSE] = [w EXCEPT !.hairpin = FALSE]
  BY <1>1, Zenon
<1> QED
  BY <1>3, <1>4, <1>5, Zenon

LEMMA NoView ==
  /\ Kernel!NoVxlan \in Views
  /\ ~Kernel!NoVxlan.up /\ ~Kernel!NoVxlan.master /\ ~Kernel!NoVxlan.hairpin
  /\ Kernel!NoVxlan.ip = Missing /\ ~Kernel!NoVxlan.exists
  /\ [Kernel!NoVxlan EXCEPT !.master = FALSE, !.hairpin = FALSE] = Kernel!NoVxlan
<1>1. /\ Kernel!NoVxlan \in Views
      /\ ~Kernel!NoVxlan.up /\ ~Kernel!NoVxlan.master /\ ~Kernel!NoVxlan.hairpin
      /\ Kernel!NoVxlan.ip = Missing /\ ~Kernel!NoVxlan.exists
  BY DEF Kernel!NoVxlan, Views
<1>2. [Kernel!NoVxlan EXCEPT !.master = FALSE, !.hairpin = FALSE] =
        [up |-> Kernel!NoVxlan.up, master |-> FALSE, hairpin |-> FALSE, ip |-> Kernel!NoVxlan.ip,
         exists |-> Kernel!NoVxlan.exists]
  BY <1>1, ViewReleased, Zenon
<1>3. [up |-> Kernel!NoVxlan.up, master |-> FALSE, hairpin |-> FALSE, ip |-> Kernel!NoVxlan.ip,
       exists |-> Kernel!NoVxlan.exists] = Kernel!NoVxlan
  BY <1>1 DEF Kernel!NoVxlan
<1> QED
  BY <1>1, <1>2, <1>3, Zenon

LEMMA KernelView ==
  ASSUME TypeOK
  PROVE  /\ vxlan = Missing => KernelVxlan = Kernel!NoVxlan
         /\ vxlan # Missing =>
              /\ vxlan \in Vxlans /\ KernelVxlan \in Views /\ KernelVxlan.exists
              /\ KernelVxlan = [up |-> vxlan.up, master |-> vxlan.attached,
                                hairpin |-> vxlan.hairpin, ip |-> vxlan.made, exists |-> TRUE]
<1>1. vxlan = Missing => KernelVxlan = Kernel!NoVxlan
  BY DEF KernelVxlan, Kernel!NoVxlan
<1>2. ASSUME vxlan # Missing
      PROVE  /\ vxlan \in Vxlans /\ KernelVxlan \in Views /\ KernelVxlan.exists
             /\ KernelVxlan = [up |-> vxlan.up, master |-> vxlan.attached,
                               hairpin |-> vxlan.hairpin, ip |-> vxlan.made, exists |-> TRUE]
  <2>1. vxlan \in Vxlans
    BY <1>2 DEF TypeOK
  <2>2. KernelVxlan = [up |-> vxlan.up, master |-> vxlan.attached,
                       hairpin |-> vxlan.hairpin, ip |-> vxlan.made, exists |-> TRUE]
    BY <1>2 DEF KernelVxlan
  <2> QED
    BY <2>1, <2>2 DEF Vxlans, Views, Attributes
<1> QED
  BY <1>1, <1>2

\* While l2.Up is at work it has the configuration it started with.
LEMMA KernelUps ==
  ASSUME KInv, pc \in Upping
  PROVE  /\ KernelMem = StateOf(want, "none") /\ want \in Configs
         /\ op \in {"up", "sync"} /\ ~Booting
         /\ pc' \in Upping /\ op' = op /\ want' = want => KernelMem' = KernelMem
<1>1. op \in {"up", "sync"} /\ pc # "idle" /\ want \in Configs
  BY DEF KInv, IInv, TypeOK, Ops
<1>2. ~Booting /\ KernelMem = StateOf(want, "none")
  BY <1>1 DEF Booting, KernelMem
<1>3. ASSUME pc' \in Upping, op' = op, want' = want
      PROVE  KernelMem' = KernelMem
  BY <1>1, <1>2, <1>3 DEF Booting, KernelMem, StateOf
<1> QED
  BY <1>1, <1>2, <1>3

\* An interface that is there.
LEMMA BridgeThere ==
  ASSUME IInv, ~NoBridge
  PROVE  bridge \in Bridges /\ bridge.up \in BOOLEAN /\ KernelBridge = IF bridge.up THEN "up" ELSE "down"
BY BridgeFacts DEF IInv, TypeOK, KernelBridge

\* The calls of l2.Up that change the bridge or the VXLAN port.
LEMMA KernelEnsuresBridge ==
  ASSUME KInv, KInv', ensureBridge, op' = op, drift' = drift
  PROVE  Kernel!EnsureBridge(Cmd)
<1> USE DEF ensureBridge, Goto
<1>1. /\ KernelStep = "bridge" /\ Kernel!Goto(Cmd, "vxlan")
  BY KernelUps, KernelGoes DEF KernelStep, Booting
<1>2. KernelBridge' = IF KernelBridge = "none" THEN "down" ELSE KernelBridge
  <2>1. ~NoBridge'
    BY DEF KInv, IInv, Done
  <2> QED
    BY <2>1 DEF KernelBridge
<1>3. UNCHANGED <<StateOf(config, "endpoint"), KernelVxlan, Kernel!history>>
  BY DEF StateOf, KernelVxlan, Kernel!history
<1> QED
  BY <1>1, <1>2, <1>3 DEF Kernel!EnsureBridge, Kernel!At

LEMMA KernelEnsuresVxlan ==
  ASSUME KInv, KInv', ensureVxlan, op' = op, drift' = drift
  PROVE  Kernel!EnsureVxlan(Cmd)
<1> USE DEF ensureVxlan, Goto
<1>1. KernelStep = "vxlan" /\ Kernel!Goto(Cmd, "attach") /\ KernelMem.ip = want.vxlan
  BY KernelUps, KernelGoes DEF KernelStep, Booting, StateOf
<1>2. KernelVxlan' = IF KernelVxlan.exists THEN KernelVxlan
                     ELSE [Kernel!NoVxlan EXCEPT !.exists = TRUE, !.ip = want.vxlan]
  <2>1. vxlan' # Missing
    BY DEF KInv, IInv, Done
  <2>2. CASE vxlan = Missing
    <3>1. /\ vxlan' = [made |-> want.vxlan, attached |-> FALSE, hairpin |-> FALSE, up |-> FALSE]
          /\ want.vxlan \in Attributes
      BY <2>2, KernelUps DEF Attributes
    <3>2. KernelVxlan' = [up |-> FALSE, master |-> FALSE, hairpin |-> FALSE, ip |-> want.vxlan,
                          exists |-> TRUE]
      <4>1. /\ vxlan'.up = FALSE /\ vxlan'.attached = FALSE /\ vxlan'.hairpin = FALSE
            /\ vxlan'.made = want.vxlan
        BY <3>1
      <4>2. KernelVxlan' = [up |-> vxlan'.up, master |-> vxlan'.attached,
                            hairpin |-> vxlan'.hairpin, ip |-> vxlan'.made, exists |-> TRUE]
        BY <2>1 DEF KernelVxlan
      <4> QED
        BY <4>1, <4>2, Zenon
    <3>3. [Kernel!NoVxlan EXCEPT !.exists = TRUE, !.ip = want.vxlan] =
            [up |-> Kernel!NoVxlan.up, master |-> Kernel!NoVxlan.master,
             hairpin |-> Kernel!NoVxlan.hairpin, ip |-> want.vxlan, exists |-> TRUE]
      BY <3>1, NoView, ViewMade, Zenon
    <3>4. KernelVxlan' = [up |-> Kernel!NoVxlan.up, master |-> Kernel!NoVxlan.master,
                          hairpin |-> Kernel!NoVxlan.hairpin, ip |-> want.vxlan, exists |-> TRUE]
      BY <3>2, NoView DEF Kernel!NoVxlan
    <3>5. ~KernelVxlan.exists
      BY <2>2 DEF KernelVxlan
    <3> QED
      BY <3>3, <3>4, <3>5, Zenon
  <2>3. CASE vxlan # Missing
    <3>1. KernelVxlan.exists /\ KernelVxlan' = KernelVxlan
      BY <2>3 DEF KernelVxlan
    <3> QED
      BY <3>1, Zenon
  <2> QED
    BY <2>2, <2>3
<1>3. UNCHANGED <<StateOf(config, "endpoint"), KernelBridge, Kernel!history>>
  BY DEF StateOf, KernelBridge, Kernel!history
<1>4. [p \in {Cmd} |-> KernelMem][Cmd].ip = want.vxlan
  BY <1>1
<1> QED
  BY <1>1, <1>2, <1>3, <1>4 DEF Kernel!EnsureVxlan, Kernel!At

\* The other attributes of the port: one of them is set, the rest of what NodeKernel sees stays.
LEMMA KernelSets ==
  ASSUME KInv, NEW b \in BOOLEAN, vxlan # Missing
  PROVE  /\ vxlan' = [vxlan EXCEPT !.attached = b] => KernelVxlan' = [KernelVxlan EXCEPT !.master = b]
         /\ vxlan' = [vxlan EXCEPT !.hairpin = b] => KernelVxlan' = [KernelVxlan EXCEPT !.hairpin = b]
         /\ vxlan' = [vxlan EXCEPT !.up = b] => KernelVxlan' = [KernelVxlan EXCEPT !.up = b]
<1>1. /\ vxlan \in Vxlans /\ KernelVxlan \in Views
      /\ KernelVxlan = [up |-> vxlan.up, master |-> vxlan.attached,
                        hairpin |-> vxlan.hairpin, ip |-> vxlan.made, exists |-> TRUE]
  BY KernelView DEF KInv, IInv
<1>2. /\ KernelVxlan.up = vxlan.up /\ KernelVxlan.master = vxlan.attached
      /\ KernelVxlan.hairpin = vxlan.hairpin /\ KernelVxlan.ip = vxlan.made
      /\ KernelVxlan.exists = TRUE
  BY <1>1
<1>3. ASSUME vxlan' \in Vxlans
      PROVE  KernelVxlan' = [up |-> vxlan'.up, master |-> vxlan'.attached,
                             hairpin |-> vxlan'.hairpin, ip |-> vxlan'.made, exists |-> TRUE]
  BY <1>3, MissingAssumption DEF KernelVxlan
<1>4. ASSUME vxlan' = [vxlan EXCEPT !.attached = b]
      PROVE  KernelVxlan' = [KernelVxlan EXCEPT !.master = b]
  <2>1. /\ vxlan' \in Vxlans /\ vxlan'.up = vxlan.up /\ vxlan'.attached = b
        /\ vxlan'.hairpin = vxlan.hairpin /\ vxlan'.made = vxlan.made
    BY <1>1, <1>4 DEF Vxlans
  <2>2. [KernelVxlan EXCEPT !.master = b] =
          [up |-> KernelVxlan.up, master |-> b, hairpin |-> KernelVxlan.hairpin,
           ip |-> KernelVxlan.ip, exists |-> KernelVxlan.exists]
    BY <1>1, ViewFlags, Zenon
  <2> QED
    BY <1>2, <1>3, <2>1, <2>2, Zenon
<1>5. ASSUME vxlan' = [vxlan EXCEPT !.hairpin = b]
      PROVE  KernelVxlan' = [KernelVxlan EXCEPT !.hairpin = b]
  <2>1. /\ vxlan' \in Vxlans /\ vxlan'.up = vxlan.up /\ vxlan'.attached = vxlan.attached
        /\ vxlan'.hairpin = b /\ vxlan'.made = vxlan.made
    BY <1>1, <1>5 DEF Vxlans
  <2>2. [KernelVxlan EXCEPT !.hairpin = b] =
          [up |-> KernelVxlan.up, master |-> KernelVxlan.master, hairpin |-> b,
           ip |-> KernelVxlan.ip, exists |-> KernelVxlan.exists]
    BY <1>1, ViewFlags, Zenon
  <2> QED
    BY <1>2, <1>3, <2>1, <2>2, Zenon
<1>6. ASSUME vxlan' = [vxlan EXCEPT !.up = b]
      PROVE  KernelVxlan' = [KernelVxlan EXCEPT !.up = b]
  <2>1. /\ vxlan' \in Vxlans /\ vxlan'.up = b /\ vxlan'.attached = vxlan.attached
        /\ vxlan'.hairpin = vxlan.hairpin /\ vxlan'.made = vxlan.made
    BY <1>1, <1>6 DEF Vxlans
  <2>2. [KernelVxlan EXCEPT !.up = b] =
          [up |-> b, master |-> KernelVxlan.master, hairpin |-> KernelVxlan.hairpin,
           ip |-> KernelVxlan.ip, exists |-> KernelVxlan.exists]
    BY <1>1, ViewFlags, Zenon
  <2> QED
    BY <1>2, <1>3, <2>1, <2>2, Zenon
<1> QED
  BY <1>4, <1>5, <1>6, Zenon

LEMMA KernelAttaches ==
  ASSUME KInv, Attach, op' = op, drift' = drift
  PROVE  Kernel!Attach(Cmd)
<1> USE DEF Attach, Goto
<1>1. KernelStep = "attach" /\ Kernel!Goto(Cmd, "hairpin")
  BY KernelUps, KernelGoes DEF KernelStep, Booting
<1>2. ~NoBridge /\ vxlan # Missing
  BY DEF KInv, IInv, Done
<1>3. KernelVxlan.exists /\ KernelBridge # "none"
  BY <1>2, KernelView DEF KInv, IInv, KernelBridge
<1>4. KernelVxlan' = [KernelVxlan EXCEPT !.master = TRUE]
  BY <1>2, KernelSets, Zenon
<1>5. UNCHANGED <<StateOf(config, "endpoint"), KernelBridge, Kernel!history>>
  BY DEF StateOf, KernelBridge, Kernel!history
<1> QED
  BY <1>1, <1>3, <1>4, <1>5 DEF Kernel!Attach, Kernel!At

LEMMA KernelSetsHairpin ==
  ASSUME KInv, SetHairpin, op' = op, drift' = drift
  PROVE  Kernel!SetHairpin(Cmd)
<1> USE DEF SetHairpin, Goto
<1>1. KernelStep = "hairpin" /\ Kernel!Goto(Cmd, "ports")
  BY KernelUps, KernelGoes DEF KernelStep, Booting
<1>2. vxlan # Missing /\ vxlan.attached /\ want \in Configs
  BY DEF KInv, IInv, Done, TypeOK
<1>3. KernelVxlan.master
  BY <1>2 DEF KernelVxlan
<1>4. want.root \in BOOLEAN /\ want.root = (KernelMem.role = "root")
  BY <1>2, KernelUps, ConfigFacts DEF StateOf
<1>5. KernelVxlan' = [KernelVxlan EXCEPT !.hairpin = (KernelMem.role = "root")]
  <2>1. KernelVxlan' = [KernelVxlan EXCEPT !.hairpin = want.root]
    BY <1>2, <1>4, KernelSets, Zenon
  <2> QED
    BY <1>4, <2>1, Zenon
<1>6. UNCHANGED <<StateOf(config, "endpoint"), KernelBridge, Kernel!history>>
  BY DEF StateOf, KernelBridge, Kernel!history
<1>7. [p \in {Cmd} |-> KernelMem][Cmd] = KernelMem
  OBVIOUS
<1> QED
  BY <1>1, <1>3, <1>5, <1>6, <1>7, Zenon DEF Kernel!SetHairpin, Kernel!At

LEMMA KernelUpsVxlan ==
  ASSUME KInv, UpVxlan, op' = op, drift' = drift
  PROVE  Kernel!UpVxlan(Cmd)
<1> USE DEF UpVxlan, Goto
<1>1. KernelStep = "ports" /\ Kernel!Goto(Cmd, "upbridge")
  BY KernelUps, KernelGoes DEF KernelStep, Booting
<1>2. ~NoBridge /\ vxlan # Missing
  BY DEF KInv, IInv, Done
<1>3. KernelVxlan.exists /\ KernelBridge # "none"
  BY <1>2, KernelView DEF KInv, IInv, KernelBridge
<1>4. KernelVxlan' = [KernelVxlan EXCEPT !.up = TRUE]
  BY <1>2, KernelSets, Zenon
<1>5. UNCHANGED <<StateOf(config, "endpoint"), KernelBridge, Kernel!history>>
  BY DEF StateOf, KernelBridge, Kernel!history
<1> QED
  BY <1>1, <1>3, <1>4, <1>5 DEF Kernel!UpVxlan, Kernel!At

LEMMA KernelUpsBridge ==
  ASSUME KInv, KInv', UpBridge, op' = "none", drift' = drift \ {"l2"}
  PROVE  Kernel!UpBridge(Cmd)
<1> USE DEF UpBridge, Exit
<1>1. KernelStep = "upbridge" /\ op \in {"up", "sync"}
  BY KernelUps DEF KernelStep, Booting
<1>2. KernelStep' = "idle"
  BY DEF KernelStep, Booting
<1>3. Kernel!End(Cmd)
  BY <1>1, <1>2, KernelEnds
<1>4. ~NoBridge /\ bridge.up \in BOOLEAN /\ KernelBridge # "none"
  BY BridgeFacts DEF KInv, IInv, Done, KernelBridge
<1>5. KernelBridge' = "up"
  <2>1. /\ bridge' = [addrs |-> bridge'.addrs, up |-> TRUE]
        /\ bridge' # Missing
    BY MissingAssumption, UpBridgeFacts DEF KInv, IInv
  <2> QED
    BY <2>1 DEF KernelBridge
<1>6. ~Kernel!Locks([p \in {Cmd} |-> [op |-> op]][Cmd])
  BY <1>1, KernelCommands
<1>7. UNCHANGED <<StateOf(config, "endpoint"), KernelVxlan>>
  BY DEF StateOf, KernelVxlan
<1>8. (IF op = "none" THEN Nobody ELSE Cmd) = Cmd
  BY <1>1
<1> QED
  BY <1>1, <1>3, <1>4, <1>5, <1>6, <1>7, <1>8 DEF Kernel!UpBridge, Kernel!At

\* What the calls do that NodeKernel does not have: nothing, or the command ends with an error.
LEMMA KernelIdles ==
  ASSUME KInv, pc \in Upping, KernelStep' = KernelStep, pc' \in Upping, op' = op, drift' = drift,
         config' = config, want' = want, vxlan' = vxlan, KernelBridge' = KernelBridge
  PROVE  UNCHANGED Kernel!vars
<1>1. KernelMem' = KernelMem
  BY KernelUps
<1>2. UNCHANGED <<StateOf(config, "endpoint"), KernelVxlan>>
  BY DEF StateOf, KernelVxlan
<1> QED
  BY <1>1, <1>2 DEF Kernel!vars

LEMMA KernelAddrs ==
  ASSUME KInv, KInv', ListAddrs \/ AddAddr \/ DelAddr, OpEnds,
         drift' = IF pc' = "idle" THEN drift \cup {"l2"} ELSE drift
  PROVE  Kernel!Abort(Cmd) \/ UNCHANGED Kernel!vars
<1> USE DEF ListAddrs, AddAddr, DelAddr, Goto, Exit, OpEnds, kernel
<1>1. /\ pc \in {"list", "add", "del"} /\ pc' \in {"add", "del", "vxlan", "idle"}
      /\ op \in {"up", "sync"} /\ ~Booting /\ KernelStep = "vxlan"
      /\ UNCHANGED <<config, want, vxlan>>
  BY KernelUps DEF KernelStep, Booting
<1>2. KernelBridge' = KernelBridge
  <2>1. ~NoBridge /\ bridge \in Bridges
    BY <1>1, BridgeThere DEF KInv, IInv, Done
  <2>2. bridge' \in Bridges \/ bridge' = bridge
    <3>1. CASE ~NoBridge'
      BY <3>1 DEF KInv, IInv, TypeOK
    <3>2. CASE NoBridge'
      <4>1. pc' = "idle" /\ bridge' = bridge
        BY <1>1, <3>2 DEF KInv, IInv, Done
      <4> QED
        BY <4>1
    <3> QED
      BY <3>1, <3>2
  <2>3. bridge' = bridge \/ \E addrs : bridge' = [bridge EXCEPT !.addrs = addrs]
    OBVIOUS
  <2>4. bridge'.up = bridge.up
    BY <2>1, <2>3 DEF Bridges
  <2> QED
    BY <2>1, <2>2, <2>4, MissingAssumption DEF KernelBridge
<1>3. CASE pc' = "idle"
  <2>1. op # "none" /\ op' = "none" /\ pc \in Upping /\ drift' = drift \cup {"l2"}
    BY <1>1, <1>3
  <2>2. KernelStep' = "idle"
    BY <1>3, <2>1 DEF KernelStep, Booting
  <2>3. KernelVxlan' = KernelVxlan
    BY <1>1 DEF KernelVxlan
  <2> QED
    BY <1>1, <1>2, <2>1, <2>2, <2>3, KernelAborts
<1>4. CASE pc' # "idle"
  <2>1. KernelStep' = "vxlan" /\ pc' \in Upping /\ op' = op /\ drift' = drift
    BY <1>1, <1>4 DEF KernelStep, Booting
  <2> QED
    BY <1>1, <1>2, <2>1, KernelIdles
<1> QED
  BY <1>3, <1>4

LEMMA KernelPorts ==
  ASSUME KInv, AttachPort \/ RaisePort, OpEnds,
         drift' = IF pc' = "idle" THEN drift \cup {"l2"} ELSE drift
  PROVE  Kernel!Abort(Cmd) \/ UNCHANGED Kernel!vars
<1> USE DEF AttachPort, RaisePort, Goto, Exit, OpEnds
<1>1. /\ pc \in {"port", "raise"} /\ pc' \in {"port", "raise", "upvxlan", "idle"}
      /\ op \in {"up", "sync"} /\ ~Booting /\ KernelStep = "ports"
      /\ UNCHANGED <<config, want, bridge, vxlan>>
  BY KernelUps DEF KernelStep, Booting
<1>2. KernelBridge' = KernelBridge
  BY <1>1 DEF KernelBridge
<1>3. CASE pc' = "idle"
  <2>1. op # "none" /\ op' = "none" /\ pc \in Upping /\ drift' = drift \cup {"l2"}
    BY <1>1, <1>3
  <2>2. KernelStep' = "idle"
    BY <1>3, <2>1 DEF KernelStep, Booting
  <2>3. KernelVxlan' = KernelVxlan
    BY <1>1 DEF KernelVxlan
  <2> QED
    BY <1>1, <1>2, <2>1, <2>2, <2>3, KernelAborts
<1>4. CASE pc' # "idle"
  <2>1. KernelStep' = "ports" /\ pc' \in Upping /\ op' = op /\ drift' = drift
    BY <1>1, <1>4 DEF KernelStep, Booting
  <2> QED
    BY <1>1, <1>2, <2>1, KernelIdles
<1> QED
  BY <1>3, <1>4

\* The other calls of l2.Up.
LEMMA KernelGoesUp ==
  ASSUME KInv, KInv', UpToKernel
  PROVE  Kernel!Next \/ UNCHANGED Kernel!vars
<1>1. CASE UpBridge /\ drift' = drift \ {"l2"} /\ OpEnds
  <2>1. op' = "none"
    BY <1>1 DEF UpBridge, Exit, OpEnds
  <2> QED
    BY <1>1, <2>1, KernelUpsBridge DEF Kernel!Next, Kernel!Step
<1>2. CASE /\ ensureBridge \/ ensureVxlan \/ Attach \/ SetHairpin \/ UpVxlan
           /\ drift' = IF pc' = "idle" THEN drift \cup {"l2"} ELSE drift
           /\ OpEnds
  <2>1. op' = op /\ drift' = drift
    BY <1>2 DEF ensureBridge, ensureVxlan, Attach, SetHairpin, UpVxlan, Goto, OpEnds
  <2>2. \/ Kernel!EnsureBridge(Cmd) \/ Kernel!EnsureVxlan(Cmd) \/ Kernel!Attach(Cmd)
        \/ Kernel!SetHairpin(Cmd) \/ Kernel!UpVxlan(Cmd)
    BY <1>2, <2>1, KernelEnsuresBridge, KernelEnsuresVxlan, KernelAttaches, KernelSetsHairpin, KernelUpsVxlan
  <2> QED
    BY <2>2 DEF Kernel!Next, Kernel!Step
<1>3. CASE /\ ListAddrs \/ AddAddr \/ DelAddr \/ AttachPort \/ RaisePort
           /\ drift' = IF pc' = "idle" THEN drift \cup {"l2"} ELSE drift
           /\ OpEnds
  BY <1>3, KernelAddrs, KernelPorts DEF Kernel!Next, Kernel!Step
<1> QED
  BY <1>1, <1>2, <1>3 DEF UpToKernel

\* l2.Up begins: for `l2mesh up`, or after the WireGuard part of a sync.
LEMMA KernelStartsUp ==
  ASSUME KInv, StartUpToKernel
  PROVE  Kernel!Next
<1> USE DEF StartUpToKernel, StartUp, kernel
<1>1. /\ pc = "idle" /\ pc' = "bridge" /\ want' = config
      /\ UNCHANGED <<config, KernelBridge, KernelVxlan, StateOf(config, "endpoint")>>
  BY DEF KernelBridge, KernelVxlan, StateOf
<1>2. CASE ~Booting
  <2>1. op = "none" /\ op' = "up" /\ drift' = drift /\ KernelStep = "idle"
    BY <1>1, <1>2 DEF KInv, Ops, Booting, KernelStep
  <2>2. KernelStep' = "bridge" /\ ~Booting'
    BY <1>1 DEF KernelStep, Booting
  <2>3. KernelMem' = StateOf(config, "none")
    BY <1>1, <2>1, <2>2 DEF KernelMem, StateOf
  <2>4. Kernel!FirstStep([op |-> "up"]) = "bridge"
    BY DEF Kernel!FirstStep
  <2>5. Kernel!StartUnlocked(Cmd, [op |-> "up"])
    BY <1>1, <2>1, <2>2, <2>3, <2>4, KernelStates, KernelStarts
  <2> QED
    BY <2>5 DEF Kernel!Next, Kernel!Unlocked
<1>3. CASE Booting
  <2>1. op = "sync" /\ op' = "sync" /\ drift' = drift \ {"wg"} /\ KernelStep = "wg"
    BY <1>3 DEF Booting, KernelStep
  <2>2. KernelStep' = "bridge" /\ ~Booting'
    BY <1>1 DEF KernelStep, Booting
  <2>3. KernelMem = StateOf(config, "endpoint") /\ KernelMem' = StateOf(config, "none")
    BY <1>1, <1>3, <2>1, <2>2 DEF KernelMem, StateOf
  <2>4. [p \in {Cmd} |-> KernelMem][Cmd] = StateOf(config, "endpoint")
    BY <2>3
  <2>5. ~Kernel!Locks([p \in {Cmd} |-> [op |-> op]][Cmd])
    BY <2>1, KernelCommands
  <2>6. \A y, z : [[p \in {Cmd} |-> y] EXCEPT ![Cmd] = z] = [p \in {Cmd} |-> z]
    OBVIOUS
  <2>7. /\ [p \in {Cmd} |-> KernelStep'] = [[p \in {Cmd} |-> KernelStep] EXCEPT ![Cmd] = "bridge"]
        /\ [p \in {Cmd} |-> KernelMem'] =
             [[p \in {Cmd} |-> KernelMem] EXCEPT
                ![Cmd] = Kernel!NodeOnly([p \in {Cmd} |-> KernelMem][Cmd])]
    BY <2>2, <2>3, <2>4, <2>6, KernelStates, Zenon
  <2>8. /\ Kernel!FlatPeers([p \in {Cmd} |-> KernelMem][Cmd]) = {}
        /\ Kernel!Entries([p \in {Cmd} |-> KernelMem][Cmd]) = {}
    BY <2>4, KernelStates
  <2>9. Kernel!SyncPeers(Cmd)
    BY <1>1, <2>1, <2>5, <2>7, <2>8 DEF Kernel!SyncPeers, Kernel!At
  <2> QED
    BY <2>9 DEF Kernel!Next, Kernel!Step
<1> QED
  BY <1>2, <1>3

\* l2.Down.
LEMMA KernelGoesDown ==
  ASSUME KInv, DownToKernel
  PROVE  Kernel!Next
<1>1. CASE StartDown /\ op = "none" /\ op' = "down" /\ drift' = drift
  <2> USE DEF StartDown, kernel
  <2>1. /\ KernelStep = "idle" /\ KernelStep' = "delvxlan"
        /\ KernelMem' = Kernel!DefaultState
    BY <1>1 DEF KernelStep, KernelMem, Booting, Kernel!DefaultState
  <2>2. UNCHANGED <<config, KernelBridge, KernelVxlan>>
    BY <1>1 DEF KernelBridge, KernelVxlan
  <2>3. Kernel!FirstStep([op |-> "down"]) = "delvxlan"
    BY DEF Kernel!FirstStep
  <2>4. Kernel!StartUnlocked(Cmd, [op |-> "down"])
    BY <1>1, <2>1, <2>2, <2>3, KernelStarts
  <2> QED
    BY <2>4 DEF Kernel!Next, Kernel!Unlocked
<1>2. CASE DelVxlan /\ OpEnds /\ drift' = drift
  <2> USE DEF DelVxlan, Goto, OpEnds
  <2>1. /\ KernelStep = "delvxlan" /\ KernelStep' = "delbridge" /\ op = "down" /\ op' = op
        /\ KernelMem' = KernelMem
    BY <1>2 DEF KInv, Ops, KernelStep, KernelMem, Booting
  <2>2. Kernel!Goto(Cmd, "delbridge")
    BY <2>1, KernelGoes
  <2>3. KernelVxlan' = Kernel!NoVxlan
    BY <1>2 DEF KernelVxlan, Kernel!NoVxlan
  <2>4. UNCHANGED <<StateOf(config, "endpoint"), KernelBridge, Kernel!history>>
    BY <1>2 DEF StateOf, KernelBridge, Kernel!history
  <2>5. Kernel!DelVxlan(Cmd)
    BY <2>1, <2>2, <2>3, <2>4 DEF Kernel!DelVxlan, Kernel!At
  <2> QED
    BY <2>5 DEF Kernel!Next, Kernel!Step
<1>3. CASE DelBridge /\ OpEnds /\ drift' = drift
  <2> USE DEF DelBridge, OpEnds
  <2>1. /\ KernelStep = "delbridge" /\ KernelStep' = "idle" /\ op = "down" /\ op' = "none"
    BY <1>3 DEF KInv, Ops, KernelStep, Booting
  <2>2. Kernel!End(Cmd)
    BY <2>1, KernelEnds
  <2>3. vxlan = Missing /\ vxlan' = Missing
    BY <1>3 DEF KInv, IInv, Done
  <2>4. KernelVxlan = Kernel!NoVxlan /\ KernelVxlan' = Kernel!NoVxlan
    BY <2>3 DEF KernelVxlan, Kernel!NoVxlan
  <2>5. KernelVxlan' = [KernelVxlan EXCEPT !.master = FALSE, !.hairpin = FALSE]
    BY <2>4, NoView, Zenon
  <2>6. KernelBridge' = "none"
    BY <1>3 DEF KernelBridge
  <2>7. UNCHANGED <<StateOf(config, "endpoint"), Kernel!history>>
    BY <1>3 DEF StateOf, Kernel!history
  <2>8. Kernel!DelBridge(Cmd)
    BY <2>1, <2>2, <2>5, <2>6, <2>7 DEF Kernel!DelBridge, Kernel!At
  <2> QED
    BY <2>8 DEF Kernel!Next, Kernel!Step
<1> QED
  BY <1>1, <1>2, <1>3 DEF DownToKernel, Down

\* A command fails or is killed, in l2.Up, in l2.Down, or before a sync has come to l2.Up.
LEMMA KernelFails ==
  ASSUME KInv, SyncFails \/ AbortToKernel
  PROVE  Kernel!Next
<1>1. /\ op # "none" /\ op' = "none" /\ pc' = "idle"
      /\ UNCHANGED <<config, bridge, vxlan>>
      /\ drift' = IF pc \in Upping THEN drift \cup {"l2"} ELSE drift
  BY DEF SyncFails, AbortToKernel, Abort, Booting, KInv, IInv, Done, Ops, kernel
<1>2. KernelStep' = "idle" /\ UNCHANGED <<KernelBridge, KernelVxlan>>
  BY <1>1 DEF KernelStep, Booting, KernelBridge, KernelVxlan
<1>3. Kernel!Abort(Cmd)
  BY <1>1, <1>2, KernelAborts
<1> QED
  BY <1>3 DEF Kernel!Next

\* To NodeKernel, state.json as edited is one `l2mesh init` may write.
LEMMA KernelFresh ==
  ASSUME NEW c \in Configs
  PROVE  StateOf(c, "endpoint") \in Kernel!FreshState
<1>1. c.vxlan \in Attributes
  BY DEF Attributes
<1> QED
  BY <1>1 DEF StateOf, Kernel!FreshState, Kernel!Role

LEMMA KernelOthers ==
  ASSUME KInv, OthersToKernel
  PROVE  Kernel!Next \/ UNCHANGED Kernel!vars
<1>1. CASE Replace /\ op = "none" /\ op' = op /\ drift' = {"wg", "l2"}
  <2>1. /\ config' \in Configs /\ pc = "idle" /\ pc' = "idle"
        /\ UNCHANGED <<op, want, bridge, vxlan>>
    BY <1>1 DEF Replace, kernel
  <2>2. StateOf(config, "endpoint")' \in Kernel!FreshState
    <3>1. StateOf(config, "endpoint")' = StateOf(config', "endpoint")
      BY DEF StateOf
    <3> QED
      BY <2>1, <3>1, KernelFresh
  <2>3. /\ KernelStep = "idle" /\ KernelStep' = "idle"
        /\ UNCHANGED <<KernelMem, KernelBridge, KernelVxlan>>
    BY <1>1, <2>1 DEF KernelStep, KernelMem, KernelBridge, KernelVxlan, Booting
  <2>4. FALSE = (FALSE \/ \E p \in {Cmd} : ~Kernel!Idle(p))
    BY <2>3 DEF Kernel!Idle
  <2>5. Kernel!InitForce
    BY <1>1, <2>1, <2>2, <2>3, <2>4 DEF Kernel!InitForce, Kernel!kernel
  <2> QED
    BY <2>5 DEF Kernel!Next
<1>2. CASE Reboot /\ op' = "sync" /\ drift' = {"wg"}
  <2>1. /\ pc' = "idle" /\ op' = "sync" /\ bridge' = Missing /\ vxlan' = Missing /\ config' = config
    BY <1>2 DEF Reboot
  <2>2. Booting' /\ KernelStep' = "wg" /\ KernelBridge' = "none"
    BY <2>1 DEF Booting, KernelStep, KernelBridge
  <2>3. KernelVxlan' = Kernel!NoVxlan
    BY <2>1 DEF KernelVxlan, Kernel!NoVxlan
  <2>4. KernelMem' = StateOf(config, "endpoint")
    BY <2>1, <2>2 DEF KernelMem, StateOf
  <2>5. UNCHANGED StateOf(config, "endpoint")
    BY <2>1 DEF StateOf
  <2>6. \A y, z : [q \in {Cmd} |-> IF q = Cmd THEN y ELSE z] = [q \in {Cmd} |-> y]
    OBVIOUS
  <2>7. Kernel!Reboot(Cmd)
    BY <1>2, <2>1, <2>2, <2>3, <2>4, <2>5, <2>6 DEF Kernel!Reboot, Cmd, Nobody
  <2> QED
    BY <2>7 DEF Kernel!Next
<1>3. CASE (\E q \in Port : Unplug(q) \/ Plug(q)) /\ UNCHANGED <<op, drift>>
  <2>1. UNCHANGED <<config, bridge, vxlan, pc, want, op, drift>>
    BY <1>3 DEF Unplug, Plug
  <2> QED
    BY <2>1 DEF Kernel!vars, KernelStep, KernelMem, KernelBridge, KernelVxlan, Booting, StateOf
<1> QED
  BY <1>1, <1>2, <1>3 DEF OthersToKernel

LEMMA InitToKernelInit == InitToKernel => KInv /\ Kernel!Init
<1> SUFFICES ASSUME InitToKernel PROVE KInv /\ Kernel!Init
  OBVIOUS
<1>1. Init /\ op = "none" /\ drift = {}
  BY DEF InitToKernel
<1>2. /\ config \in Configs /\ bridge = Missing /\ vxlan = Missing /\ pc = "idle"
  BY <1>1 DEF Init
<1>3. KInv
  BY <1>1, <1>2, InitIInv DEF KInv, Ops
<1>4. StateOf(config, "endpoint") \in Kernel!FreshState
  BY <1>2, KernelFresh
<1>5. KernelStep = "idle" /\ KernelBridge = "none" /\ KernelMem = Kernel!DefaultState
  BY <1>1, <1>2 DEF KernelStep, KernelBridge, KernelMem, Booting, Kernel!DefaultState
<1>6. KernelVxlan = Kernel!NoVxlan
  BY <1>2 DEF KernelVxlan, Kernel!NoVxlan
<1>7. Kernel!Init
  BY <1>1, <1>4, <1>5, <1>6 DEF Kernel!Init, Kernel!NoCmd, Cmd, Nobody
<1> QED
  BY <1>3, <1>7

(***************************************************************************)
(* l2.go: whatever addresses, ports and configurations there are, the      *)
(* netlink calls of l2.Up and l2.Down take the bridge and the VXLAN port   *)
(* through the steps NodeKernel has, also when one of them fails, when the *)
(* command is killed, and when the host restarts.                          *)
(***************************************************************************)
THEOREM KernelImplemented == SpecToKernel => ImplementsKernel
<1>1. KInv /\ KInv' /\ [NextToKernel]_kvars => [Kernel!Next]_(Kernel!vars)
  <2> SUFFICES ASSUME KInv, KInv', [NextToKernel]_kvars
               PROVE  Kernel!Next \/ UNCHANGED Kernel!vars
    OBVIOUS
  <2>1. CASE UNCHANGED kvars
    BY <2>1 DEF kvars, Kernel!vars, KernelStep, KernelMem, KernelBridge, KernelVxlan, Booting, StateOf
  <2> QED
    BY <2>1, KernelStartsUp, KernelGoesUp, KernelGoesDown, KernelFails, KernelOthers DEF NextToKernel
<1> QED
  BY <1>1, InitToKernelInit, NextKInv, PTL DEF SpecToKernel, ImplementsKernel, Kernel!Spec

-----------------------------------------------------------------------------
\* PlaneInStep holds also while Down has not deleted the port yet.
InStep ==
  pc \in {"idle", "delvxlan"} /\ "l2" \notin drift /\ vxlan # Missing =>
    /\ ~NoBridge /\ bridge.up
    /\ vxlan.attached /\ vxlan.up /\ vxlan.hairpin = config.root

LEMMA NextInStep == KInv /\ KInv' /\ InStep /\ [NextToKernel]_kvars => InStep'
<1> SUFFICES ASSUME KInv, KInv', InStep, [NextToKernel]_kvars PROVE InStep'
  OBVIOUS
<1>1. CASE UNCHANGED kvars
  BY <1>1 DEF kvars, InStep
<1>2. CASE StartUpToKernel
  BY <1>2 DEF StartUpToKernel, StartUp, InStep
<1>3. CASE SyncFails
  BY <1>3 DEF SyncFails, Booting, InStep
<1>4. CASE UpToKernel
  <2>1. CASE UpBridge
    <3>1. /\ bridge' # Missing /\ bridge'.up /\ vxlan' = vxlan /\ config' = config
      BY <2>1, UpBridgeFacts DEF KInv, UpBridge, Exit
    <3>2. vxlan.attached /\ vxlan.up /\ vxlan.hairpin = config.root
      BY <2>1 DEF UpBridge, KInv, IInv, Done
    <3> QED
      BY <3>1, <3>2 DEF InStep
  <2>2. CASE Up /\ drift' = IF pc' = "idle" THEN drift \cup {"l2"} ELSE drift
    BY <2>2, UpLabels DEF KInv, InStep
  <2> QED
    BY <1>4, <2>1, <2>2 DEF UpToKernel, Up
<1>5. CASE DownToKernel
  BY <1>5 DEF DownToKernel, StartDown, Down, DelVxlan, DelBridge, Goto, kernel, KInv, IInv, Done, InStep
<1>6. CASE AbortToKernel
  <2>1. pc' = "idle" /\ UNCHANGED <<config, bridge, vxlan>> /\ pc # "idle"
    BY <1>6 DEF AbortToKernel, Abort, kernel
  <2>2. CASE pc \in Upping
    BY <1>6, <2>1, <2>2 DEF AbortToKernel, KInv, Ops, InStep
  <2>3. CASE pc \in {"delvxlan", "delbridge"}
    BY <1>6, <2>1, <2>3 DEF AbortToKernel, KInv, IInv, Done, Ops, InStep
  <2> QED
    BY <2>1, <2>2, <2>3 DEF KInv, IInv, Done
<1>7. CASE OthersToKernel
  BY <1>7 DEF OthersToKernel, Replace, Reboot, Unplug, Plug, InStep
<1> QED
  BY <1>1, <1>2, <1>3, <1>4, <1>5, <1>6, <1>7 DEF NextToKernel

(***************************************************************************)
(* l2.go, Up: between two commands, what the last Up did not end half-way  *)
(* and no edit of state.json concerns is in place: a VXLAN port up, on a   *)
(* bridge that is up, in the hairpin mode of the role.                     *)
(***************************************************************************)
THEOREM PlaneAlwaysInStep == SpecToKernel => []PlaneInStep
<1>1. InitToKernel => InStep
  BY DEF InitToKernel, Init, InStep
<1>2. KInv /\ InStep => PlaneInStep
  BY DEF KInv, IInv, Done, Ops, InStep, PlaneInStep
<1> QED
  BY <1>1, <1>2, InitToKernelInit, NextKInv, NextInStep, PTL DEF SpecToKernel
=============================================================================
