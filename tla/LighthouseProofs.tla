-------------------------- MODULE LighthouseProofs --------------------------
(***************************************************************************)
(* Waiting for a lighthouse's answer, for any number of calls, lighthouses *)
(* and messages, and any messages.  The properties are inductive together  *)
(* with what resolve knows between its two sections, and with how far      *)
(* register_with_lighthouses is.                                           *)
(***************************************************************************)
EXTENDS Lighthouse, WellFoundedInduction, TLAPS

\* A call that was made has all its fields.
Shaped(c) ==
    \/ c = [pc |-> "idle"]
    \/ /\ c = [pc |-> c.pc, target |-> c.target, asked |-> c.asked, rx |-> c.rx,
               addrs |-> c.addrs, gap |-> c.gap]
       /\ c.gap \in BOOLEAN

CallsShaped == /\ call = [k \in Tasks |-> call[k]]
               /\ \A k \in Tasks : Shaped(call[k])

\* Between its two sections a call does not see an address that comes: the one
\* way in which it may wait for what is known.
KnownIsNotMissed ==
    \A k \in Tasks :
        Running(k, {"missed"}) /\ call[k].target \in DOMAIN known_addrs => call[k].gap

\* Session::new has tunnels to the lighthouses it is done with, and is at the
\* next one.
RegisteredHaveTunnels ==
    /\ session = [state |-> session.state, done |-> session.done]
    /\ session.done \in 0..Len(Hosts)
    /\ \A i \in 1..session.done : Hosts[i] \in tunnels
    /\ session.state = "building" /\ call[Builder].pc # "idle" =>
          session.done < Len(Hosts) /\ call[Builder].target = Hosts[session.done + 1]
    /\ session.state = "ready" => session.done = Len(Hosts)

WaitInv == /\ CallsShaped
           /\ WaitersAreRegistered
           /\ KnownIsNotAwaited
           /\ KnownIsNotMissed
           /\ RegisteredHaveTunnels

-----------------------------------------------------------------------------
\* The fields a section or a message sets leave the others as they are.
LEMMA AskingFields ==
    ASSUME NEW c, Shaped(c), c.pc # "idle", NEW d,
           d = [c EXCEPT !.pc = "asking", !.rx = "open"]
    PROVE  /\ Shaped(d)
           /\ d.pc = "asking" /\ d.rx = "open" /\ d.target = c.target /\ d.gap = c.gap
<1>1. /\ c = [pc |-> c.pc, target |-> c.target, asked |-> c.asked, rx |-> c.rx,
              addrs |-> c.addrs, gap |-> c.gap]
      /\ c.gap \in BOOLEAN
  BY DEF Shaped
<1>2. d = [pc |-> "asking", target |-> c.target, asked |-> c.asked, rx |-> "open",
           addrs |-> c.addrs, gap |-> c.gap]
  BY <1>1
<1>3. d.pc = "asking" /\ d.rx = "open" /\ d.target = c.target /\ d.gap = c.gap
      /\ d.asked = c.asked /\ d.addrs = c.addrs
  BY <1>2
<1>4. d.gap \in BOOLEAN
  BY <1>1, <1>3
<1>5. Shaped(d)
  BY <1>2, <1>3, <1>4 DEF Shaped
<1> QED
  BY <1>3, <1>5

LEMMA DroppedFields ==
    ASSUME NEW c, Shaped(c), c.pc # "idle", NEW d,
           d = [c EXCEPT !.rx = "dropped"]
    PROVE  /\ Shaped(d)
           /\ d.pc = c.pc /\ d.rx = "dropped" /\ d.target = c.target /\ d.gap = c.gap
<1>1. /\ c = [pc |-> c.pc, target |-> c.target, asked |-> c.asked, rx |-> c.rx,
              addrs |-> c.addrs, gap |-> c.gap]
      /\ c.gap \in BOOLEAN
  BY DEF Shaped
<1>2. d = [pc |-> c.pc, target |-> c.target, asked |-> c.asked, rx |-> "dropped",
           addrs |-> c.addrs, gap |-> c.gap]
  BY <1>1
<1>3. d.pc = c.pc /\ d.rx = "dropped" /\ d.target = c.target /\ d.gap = c.gap
      /\ d.asked = c.asked /\ d.addrs = c.addrs
  BY <1>2
<1>4. d.gap \in BOOLEAN
  BY <1>1, <1>3
<1>5. Shaped(d)
  BY <1>2, <1>3, <1>4 DEF Shaped
<1> QED
  BY <1>3, <1>5

LEMMA GapFields ==
    ASSUME NEW c, Shaped(c), c.pc # "idle", NEW d,
           d = [c EXCEPT !.gap = TRUE]
    PROVE  /\ Shaped(d)
           /\ d.pc = c.pc /\ d.rx = c.rx /\ d.target = c.target /\ d.gap = TRUE
<1>1. /\ c = [pc |-> c.pc, target |-> c.target, asked |-> c.asked, rx |-> c.rx,
              addrs |-> c.addrs, gap |-> c.gap]
      /\ c.gap \in BOOLEAN
  BY DEF Shaped
<1>2. d = [pc |-> c.pc, target |-> c.target, asked |-> c.asked, rx |-> c.rx,
           addrs |-> c.addrs, gap |-> TRUE]
  BY <1>1
<1>3. d.pc = c.pc /\ d.rx = c.rx /\ d.target = c.target /\ d.gap = TRUE
      /\ d.asked = c.asked /\ d.addrs = c.addrs
  BY <1>2
<1>4. d.gap \in BOOLEAN
  BY <1>1, <1>3
<1>5. Shaped(d)
  BY <1>2, <1>3, <1>4 DEF Shaped
<1> QED
  BY <1>3, <1>5

\* A session as it starts has no waiters.
LEMMA InitEstablishes == Init => WaitInv
<1> SUFFICES ASSUME Init PROVE WaitInv
  OBVIOUS
<1>1. Len(Hosts) \in Nat
  BY HostsAssumption
<1>2. Builder \in Tasks /\ \A k \in Tasks : call[k].pc = "idle"
  BY DEF Init, Tasks
<1>3. CallsShaped
  BY DEF Init, CallsShaped, Shaped
<1>4. WaitersAreRegistered /\ KnownIsNotAwaited /\ KnownIsNotMissed
  BY <1>2 DEF WaitersAreRegistered, KnownIsNotAwaited, KnownIsNotMissed, Running
<1>5. RegisteredHaveTunnels
  BY <1>1, <1>2 DEF Init, RegisteredHaveTunnels
<1> QED
  BY <1>3, <1>4, <1>5 DEF WaitInv

\* Each section of a call, each message and each step of Session::new keeps it.
LEMMA StepKeeps == WaitInv /\ [Next]_vars => WaitInv'
<1> SUFFICES ASSUME WaitInv, [Next]_vars PROVE WaitInv'
  OBVIOUS
<1> USE DEF WaitInv
<1>0. Builder \in Tasks /\ Calls \subseteq Tasks
  BY DEF Tasks
<1>1. ASSUME NEW k \in Tasks, Lookup(k) PROVE WaitInv'
  <2>1. CallsShaped'
    <3>1. call[k] = [pc |-> call[k].pc, target |-> call[k].target, asked |-> call[k].asked,
                     rx |-> call[k].rx, addrs |-> call[k].addrs, gap |-> call[k].gap]
          /\ call[k].gap \in BOOLEAN
      BY <1>1 DEF Lookup, CallsShaped, Shaped, Running
    <3>2. Shaped(call'[k])
      BY <1>1, <3>1 DEF Lookup, CallsShaped, Shaped
    <3> QED
      BY <1>1, <3>2 DEF Lookup, CallsShaped
  <2>2. WaitersAreRegistered' /\ KnownIsNotAwaited' /\ KnownIsNotMissed'
    BY <1>1 DEF Lookup, CallsShaped, Shaped, Running, WaitersAreRegistered,
                KnownIsNotAwaited, KnownIsNotMissed
  <2>3. RegisteredHaveTunnels'
    BY <1>0, <1>1 DEF Lookup, CallsShaped, Shaped, Running, RegisteredHaveTunnels
  <2> QED
    BY <2>1, <2>2, <2>3
<1>2. ASSUME NEW k \in Tasks, RegisterWaiter(k) PROVE WaitInv'
  <2>1. CallsShaped'
    <3>1. ASSUME NEW j \in Tasks PROVE Shaped(call'[j])
      <4>1. Shaped(call[j])
        BY DEF CallsShaped
      <4>2. CASE j = k
        <5>1. call[j].pc # "idle" /\ call'[j] = [call[j] EXCEPT !.pc = "asking", !.rx = "open"]
          BY <1>2, <4>2 DEF RegisterWaiter, Running
        <5> QED
          BY <4>1, <5>1, AskingFields
      <4>3. CASE call'[j] = call[j]
        BY <4>1, <4>3
      <4>4. CASE call[j].pc # "idle" /\ call'[j] = [call[j] EXCEPT !.rx = "dropped"]
        BY <4>1, <4>4, DroppedFields
      <4> QED
        BY <1>2, <4>2, <4>3, <4>4 DEF RegisterWaiter, Running
    <3> QED
      BY <1>2, <3>1 DEF RegisterWaiter, CallsShaped
  <2>2. WaitersAreRegistered' /\ KnownIsNotAwaited' /\ KnownIsNotMissed'
    BY <1>2 DEF RegisterWaiter, CallsShaped, Shaped, Running, WaitersAreRegistered,
                KnownIsNotAwaited, KnownIsNotMissed, Insert
  <2>3. RegisteredHaveTunnels'
    BY <1>0, <1>2 DEF RegisterWaiter, CallsShaped, Shaped, Running, RegisteredHaveTunnels
  <2> QED
    BY <2>1, <2>2, <2>3
<1>3. ASSUME NEW k \in Tasks, AskLighthouse(k) PROVE WaitInv'
  <2>1. CallsShaped'
    BY <1>3 DEF AskLighthouse, CallsShaped, Shaped, Running
  <2>2. WaitersAreRegistered' /\ KnownIsNotAwaited' /\ KnownIsNotMissed'
    BY <1>3 DEF AskLighthouse, CallsShaped, Shaped, Running, WaitersAreRegistered,
                KnownIsNotAwaited, KnownIsNotMissed
  <2>3. RegisteredHaveTunnels'
    BY <1>0, <1>3 DEF AskLighthouse, CallsShaped, Shaped, Running, RegisteredHaveTunnels
  <2> QED
    BY <2>1, <2>2, <2>3
<1>4. ASSUME NEW k \in Tasks, Resolved(k) PROVE WaitInv'
  <2>1. CallsShaped'
    BY <1>4 DEF Resolved, CallsShaped, Shaped, Running
  <2>2. WaitersAreRegistered' /\ KnownIsNotAwaited' /\ KnownIsNotMissed'
    BY <1>4 DEF Resolved, CallsShaped, Shaped, Running, WaitersAreRegistered,
                KnownIsNotAwaited, KnownIsNotMissed
  <2>3. RegisteredHaveTunnels'
    BY <1>0, <1>4 DEF Resolved, CallsShaped, Shaped, Running, RegisteredHaveTunnels
  <2> QED
    BY <2>1, <2>2, <2>3
<1>5. ASSUME NEW k \in Tasks, Handshake(k) PROVE WaitInv'
  <2>1. CallsShaped'
    BY <1>5 DEF Handshake, CallsShaped, Shaped, Running
  <2>2. WaitersAreRegistered' /\ KnownIsNotAwaited' /\ KnownIsNotMissed'
    BY <1>5 DEF Handshake, CallsShaped, Shaped, Running, WaitersAreRegistered,
                KnownIsNotAwaited, KnownIsNotMissed
  <2>3. RegisteredHaveTunnels'
    BY <1>0, <1>5 DEF Handshake, CallsShaped, Shaped, Running, RegisteredHaveTunnels
  <2> QED
    BY <2>1, <2>2, <2>3
<1>6. ASSUME NEW k \in Calls, NEW v \in Targets, Connect(k, v) PROVE WaitInv'
  <2>1. CallsShaped'
    BY <1>0, <1>6 DEF Connect, Fresh, CallsShaped, Shaped, Running
  <2>2. WaitersAreRegistered' /\ KnownIsNotAwaited' /\ KnownIsNotMissed'
    BY <1>0, <1>6 DEF Connect, Fresh, CallsShaped, Shaped, Running, WaitersAreRegistered,
                      KnownIsNotAwaited, KnownIsNotMissed
  <2>3. RegisteredHaveTunnels'
    BY <1>0, <1>6 DEF Connect, RegisteredHaveTunnels
  <2> QED
    BY <2>1, <2>2, <2>3
<1>7. ASSUME NEW v \in Peers, Accept(v) PROVE WaitInv'
  BY <1>7 DEF Accept, CallsShaped, Shaped, Running, WaitersAreRegistered,
              KnownIsNotAwaited, KnownIsNotMissed, RegisteredHaveTunnels
<1>8. ASSUME NEW meta \in Metas, handle_lighthouse_packet(meta) PROVE WaitInv'
  <2>1. CASE UNCHANGED <<known_addrs, lighthouse_waiters, call>>
    BY <1>8, <2>1 DEF handle_lighthouse_packet, CallsShaped, Shaped, Running,
          WaitersAreRegistered, KnownIsNotAwaited, KnownIsNotMissed, RegisteredHaveTunnels
  <2>2. CASE ~UNCHANGED <<known_addrs, lighthouse_waiters, call>>
    <3> DEFINE v == addr_to_ip(CHOOSE x \in meta.vpn_addr : TRUE)
               addrs == candidate_addrs(meta)
               Woken(k) == /\ v \in DOMAIN lighthouse_waiters
                           /\ lighthouse_waiters[v] = k
                           /\ Running(k, {"asking", "waiting"})
                           /\ call[k].rx = "open"
               InGap(k) == Running(k, {"missed"}) /\ call[k].target = v
    <3>1. /\ known_addrs' = Insert(known_addrs, v, addrs[1])
          /\ lighthouse_waiters' = Remove(lighthouse_waiters, v)
          /\ call' = [k \in Tasks |->
                  IF Woken(k) THEN [call[k] EXCEPT !.rx = "fired", !.addrs = addrs]
                  ELSE IF InGap(k) THEN [call[k] EXCEPT !.gap = TRUE]
                  ELSE call[k]]
          /\ UNCHANGED <<tunnels, session>>
      BY <1>8, <2>2 DEF handle_lighthouse_packet, handle_lighthouse
    <3> HIDE DEF v, addrs
    <3>2. DOMAIN known_addrs' = DOMAIN known_addrs \cup {v}
      BY <3>1 DEF Insert
    <3>3. /\ DOMAIN lighthouse_waiters' = DOMAIN lighthouse_waiters \ {v}
          /\ \A w \in DOMAIN lighthouse_waiters' :
                lighthouse_waiters'[w] = lighthouse_waiters[w]
      BY <3>1 DEF Remove
    <3>4. \A j \in Tasks : Shaped(call[j])
      BY DEF CallsShaped
    <3>5. ASSUME NEW j \in Tasks, call[j].pc = "idle" PROVE call'[j] = call[j]
      BY <3>1, <3>5 DEF Running
    <3>6. ASSUME NEW j \in Tasks, call[j].pc # "idle"
          PROVE /\ Shaped(call'[j])
                /\ call'[j].pc = call[j].pc
                /\ call'[j].target = call[j].target
                /\ Woken(j) => call'[j].rx = "fired"
                /\ ~Woken(j) => call'[j].rx = call[j].rx
                /\ IF InGap(j) /\ ~Woken(j) THEN call'[j].gap = TRUE
                   ELSE call'[j].gap = call[j].gap
      <4>1. CASE Woken(j)
        <5>1. PICK x : call'[j] = [call[j] EXCEPT !.rx = "fired", !.addrs = x]
          BY <3>1, <4>1
        <5>2. /\ Shaped(call'[j])
              /\ call'[j].pc = call[j].pc /\ call'[j].rx = "fired"
              /\ call'[j].target = call[j].target /\ call'[j].gap = call[j].gap
          <6>1. Shaped(call[j]) /\ call[j].pc # "idle"
            BY <3>4, <3>6
          <6>2. /\ call[j] = [pc |-> call[j].pc, target |-> call[j].target,
                              asked |-> call[j].asked, rx |-> call[j].rx,
                              addrs |-> call[j].addrs, gap |-> call[j].gap]
                /\ call[j].gap \in BOOLEAN
            BY <6>1 DEF Shaped
          <6>3. call'[j] = [pc |-> call[j].pc, target |-> call[j].target,
                            asked |-> call[j].asked, rx |-> "fired",
                            addrs |-> x, gap |-> call[j].gap]
            BY ONLY <5>1, <6>2
          <6> QED
            BY ONLY <6>2, <6>3 DEF Shaped
        <5> HIDE DEF InGap
        <5> QED
          BY <4>1, <5>2
      <4>2. CASE ~Woken(j) /\ InGap(j)
        <5>1. call'[j] = [call[j] EXCEPT !.gap = TRUE]
          BY <3>1, <4>2
        <5> QED
          BY <3>4, <3>6, <4>2, <5>1, GapFields
      <4>3. CASE ~Woken(j) /\ ~InGap(j)
        <5>1. call'[j] = call[j]
          BY <3>1, <4>3
        <5> QED
          BY <3>4, <4>3, <5>1
      <4> QED
        BY <4>1, <4>2, <4>3
    <3>7. CallsShaped'
      BY <3>1, <3>4, <3>5, <3>6 DEF CallsShaped
    <3> HIDE DEF InGap
    <3>8. WaitersAreRegistered'
      <4> SUFFICES ASSUME NEW j \in Tasks, call'[j].pc \in {"asking", "waiting"},
                          call'[j].rx = "open"
                   PROVE  /\ call'[j].target \in DOMAIN lighthouse_waiters'
                          /\ lighthouse_waiters'[call'[j].target] = j
        BY DEF WaitersAreRegistered, Running
      <4>1. call[j].pc # "idle" /\ call'[j].target = call[j].target
            /\ call[j].pc \in {"asking", "waiting"} /\ call[j].rx = "open" /\ ~Woken(j)
        <5> HIDE DEF Woken
        <5> QED
          BY <3>5, <3>6
      <4>2. /\ call[j].target \in DOMAIN lighthouse_waiters
            /\ lighthouse_waiters[call[j].target] = j
        BY <4>1 DEF WaitersAreRegistered, Running
      <4>3. call[j].target # v
        BY <4>1, <4>2 DEF Running
      <4> QED
        BY <3>3, <4>1, <4>2, <4>3
    <3>9. KnownIsNotAwaited'
      <4> SUFFICES ASSUME NEW j \in Tasks, call'[j].pc \in {"asking", "waiting"},
                          call'[j].rx = "open", call'[j].target \in DOMAIN known_addrs'
                   PROVE  call'[j].gap
        BY DEF KnownIsNotAwaited, Running
      <4>1. call[j].pc # "idle" /\ call'[j].target = call[j].target
            /\ call[j].pc \in {"asking", "waiting"} /\ call[j].rx = "open" /\ ~Woken(j)
            /\ (call'[j].gap = TRUE \/ call'[j].gap = call[j].gap)
        <5> HIDE DEF Woken
        <5> QED
          BY <3>5, <3>6
      <4>2. /\ call[j].target \in DOMAIN lighthouse_waiters
            /\ lighthouse_waiters[call[j].target] = j
        BY <4>1 DEF WaitersAreRegistered, Running
      <4>3. call[j].target # v
        BY <4>1, <4>2 DEF Running
      <4>4. call[j].gap
        BY <3>2, <4>1, <4>3 DEF KnownIsNotAwaited, Running
      <4> QED
        BY <4>1, <4>4
    <3>10. KnownIsNotMissed'
      BY <3>2, <3>5, <3>6 DEF Running, KnownIsNotMissed, InGap
    <3>11. RegisteredHaveTunnels'
      BY <1>0, <3>1, <3>5, <3>6 DEF RegisteredHaveTunnels
    <3> QED
      BY <3>8, <3>9, <3>10, <3>11, <3>7
  <2> QED
    BY <2>1, <2>2
<1>9. CASE RegisterConnect
  <2>1. CallsShaped'
    BY <1>0, <1>9 DEF RegisterConnect, Fresh, CallsShaped, Shaped, Running
  <2>2. WaitersAreRegistered' /\ KnownIsNotAwaited' /\ KnownIsNotMissed'
    BY <1>0, <1>9 DEF RegisterConnect, Fresh, CallsShaped, Shaped, Running,
                      WaitersAreRegistered, KnownIsNotAwaited, KnownIsNotMissed
  <2>3. RegisteredHaveTunnels'
    BY <1>0, <1>9 DEF RegisterConnect, Fresh, CallsShaped, RegisteredHaveTunnels
  <2> QED
    BY <2>1, <2>2, <2>3
<1>10. CASE RegisterSend
  <2>1. CallsShaped'
    BY <1>0, <1>10 DEF RegisterSend, CallsShaped, Shaped, Running
  <2>2. WaitersAreRegistered' /\ KnownIsNotAwaited' /\ KnownIsNotMissed'
    BY <1>0, <1>10 DEF RegisterSend, CallsShaped, Shaped, Running,
                       WaitersAreRegistered, KnownIsNotAwaited, KnownIsNotMissed
  <2>3. RegisteredHaveTunnels'
    <3>1. Len(Hosts) \in Nat
      BY HostsAssumption
    <3>2. session.done < Len(Hosts) /\ call[Builder].target = Hosts[session.done + 1]
      BY <1>10 DEF RegisterSend, Running, RegisteredHaveTunnels
    <3>3. call'[Builder].pc = "idle"
      BY <1>0, <1>10 DEF RegisterSend, CallsShaped
    <3>4. CASE session' = [session EXCEPT !.state = "failed"]
      BY <1>10, <3>3, <3>4 DEF RegisterSend, RegisteredHaveTunnels
    <3>5. CASE /\ call[Builder].target \in tunnels
               /\ session' = [session EXCEPT !.done = @ + 1]
      BY <1>10, <3>1, <3>2, <3>3, <3>5 DEF RegisterSend, RegisteredHaveTunnels
    <3> QED
      BY <1>10, <3>4, <3>5 DEF RegisterSend
  <2> QED
    BY <2>1, <2>2, <2>3
<1>11. CASE Ready
  BY <1>11 DEF Ready, CallsShaped, Shaped, Running, WaitersAreRegistered,
               KnownIsNotAwaited, KnownIsNotMissed, RegisteredHaveTunnels
<1>12. CASE UNCHANGED vars
  BY <1>12 DEF vars, CallsShaped, Shaped, Running, WaitersAreRegistered,
               KnownIsNotAwaited, KnownIsNotMissed, RegisteredHaveTunnels
<1> QED
  BY <1>1, <1>2, <1>3, <1>4, <1>5, <1>6, <1>7, <1>8, <1>9, <1>10, <1>11, <1>12
     DEF Next, Step, Build

LEMMA AlwaysWaitInv == Spec => []WaitInv
  BY InitEstablishes, StepKeeps, PTL DEF Spec

-----------------------------------------------------------------------------
\* resolve (session.rs:440-445): a call that waits is the one the table holds,
\* whichever calls for the same address come, give up or are answered.
THEOREM WaitersStayRegistered == Spec => []WaitersAreRegistered
  BY AlwaysWaitInv, PTL DEF WaitInv

\* resolve (session.rs:433-445): only an address that comes between the two
\* sections is waited for although it is known.
THEOREM KnownWakes == Spec => []KnownIsNotAwaited
  BY AlwaysWaitInv, PTL DEF WaitInv

\* register_with_lighthouses (session.rs:415-431): a session that is handed out
\* has a tunnel to every lighthouse.
THEOREM ReadyHasLighthouses == Spec => []LighthousesHaveTunnels
<1>1. WaitInv => LighthousesHaveTunnels
  BY HostsAssumption DEF WaitInv, RegisteredHaveTunnels, LighthousesHaveTunnels, Range
<1> QED
  BY <1>1, AlwaysWaitInv, PTL

-----------------------------------------------------------------------------
\* A call is for an address, and what was handled is a list of messages.
TargetsAreIps == /\ \A k \in Tasks : call[k].pc # "idle" => call[k].target \in Ips
                 /\ handled \in Seq(Metas)

LEMMA TargetsStayIps == Spec => []TargetsAreIps
<1>1. Init => TargetsAreIps
  BY DEF Init, TargetsAreIps
<1>2. CallsShaped /\ RegisteredHaveTunnels /\ TargetsAreIps /\ [Next]_vars => TargetsAreIps'
  <2> SUFFICES ASSUME CallsShaped, RegisteredHaveTunnels, TargetsAreIps, [Next]_vars
               PROVE  TargetsAreIps'
    OBVIOUS
  <2>0. Builder \in Tasks /\ Calls \subseteq Tasks
    BY DEF Tasks
  <2>1. ASSUME NEW k \in Tasks, Step(k) PROVE TargetsAreIps'
    <3>1. CASE RegisterWaiter(k)
      BY <3>1 DEF RegisterWaiter, TargetsAreIps, CallsShaped, Shaped, Running
    <3>2. CASE Lookup(k)
      BY <3>2 DEF Lookup, TargetsAreIps, CallsShaped, Shaped, Running
    <3>3. CASE AskLighthouse(k) \/ Resolved(k)
      BY <3>3 DEF AskLighthouse, Resolved, TargetsAreIps, CallsShaped, Shaped, Running
    <3>4. CASE Handshake(k)
      BY <3>4 DEF Handshake, TargetsAreIps, CallsShaped, Shaped, Running
    <3> QED
      BY <2>1, <3>1, <3>2, <3>3, <3>4 DEF Step
  <2>2. ASSUME NEW k \in Calls, NEW v \in Targets, Connect(k, v) PROVE TargetsAreIps'
    BY <2>0, <2>2, AddressAssumption DEF Connect, Fresh, TargetsAreIps, CallsShaped
  <2>3. ASSUME NEW v \in Peers, Accept(v) PROVE TargetsAreIps'
    BY <2>3 DEF Accept, TargetsAreIps
  <2>4. ASSUME NEW meta \in Metas, handle_lighthouse_packet(meta) PROVE TargetsAreIps'
    <3>1. handled' \in Seq(Metas)
      BY <2>4 DEF handle_lighthouse_packet, TargetsAreIps
    <3>2. ASSUME NEW k \in Tasks
          PROVE  call'[k].pc = call[k].pc
                 /\ (call[k].pc # "idle" => call'[k].target = call[k].target)
      <4>1. \/ call'[k] = call[k]
            \/ call[k].pc # "idle" /\ call'[k] = [call[k] EXCEPT !.gap = TRUE]
            \/ /\ call[k].pc # "idle"
               /\ \E x : call'[k] = [call[k] EXCEPT !.rx = "fired", !.addrs = x]
        BY <2>4 DEF handle_lighthouse_packet, handle_lighthouse, Running
      <4>2. CASE call[k].pc # "idle" /\ call'[k] = [call[k] EXCEPT !.gap = TRUE]
        BY <4>2, GapFields DEF CallsShaped
      <4>3. CASE call[k].pc # "idle"
                 /\ \E x : call'[k] = [call[k] EXCEPT !.rx = "fired", !.addrs = x]
        BY <4>3 DEF CallsShaped, Shaped
      <4> QED
        BY <4>1, <4>2, <4>3
    <3> QED
      BY <3>1, <3>2 DEF TargetsAreIps
  <2>5. CASE RegisterConnect
    <3>1. Hosts[session.done + 1] \in Ips
      BY <2>5, HostsAssumption, AddressAssumption
         DEF RegisterConnect, RegisteredHaveTunnels, Range
    <3> QED
      BY <2>0, <2>5, <3>1 DEF RegisterConnect, Fresh, TargetsAreIps, CallsShaped
  <2>6. CASE RegisterSend \/ Ready
    BY <2>0, <2>6 DEF RegisterSend, Ready, TargetsAreIps, CallsShaped
  <2>7. CASE UNCHANGED vars
    BY <2>7 DEF vars, TargetsAreIps
  <2> QED
    BY <2>1, <2>2, <2>3, <2>4, <2>5, <2>6, <2>7 DEF Next, Build
<1> QED
  BY <1>1, <1>2, AlwaysWaitInv, PTL DEF Spec, WaitInv

\* The wire's form of an address stands for that address alone, but for the
\* IPv4-mapped ones (lighthouse.rs:11-32).
LEMMA WireRoundTrip ==
    ASSUME NEW ip \in Ips, Plain(ip)
    PROVE  addr_to_ip(ip_to_addr(ip)) = ip
<1>1. CASE ip.family = 4
  <2>1. ip.value \in 0..(V4Size - 1) /\ ip = [family |-> 4, value |-> ip.value]
    BY <1>1 DEF Ips
  <2> QED
    BY <1>1, <2>1, AddressAssumption DEF addr_to_ip, ip_to_addr, Mapped, V4
<1>2. CASE ip.family # 4
  <2>1. ip = [family |-> 6, value |-> ip.value] /\ ~Mapped(ip.value)
    BY <1>2 DEF Ips, Plain
  <2> QED
    BY <1>2, <2>1 DEF addr_to_ip, ip_to_addr, V6
<1> QED
  BY <1>1, <1>2

\* handle_lighthouse (session.rs:241-264): the answer to a call's query wakes
\* that call with the addresses in it, for every order of calls and messages.
THEOREM AnswersWake == Spec => AnswerWakes
<1>1. WaitInv /\ TargetsAreIps /\ [Next]_vars =>
        [\A k \in Tasks :
          LET meta == handled'[Len(handled')] IN
          /\ handled' # handled
          /\ Running(k, {"asking", "waiting"}) /\ call[k].rx = "open"
          /\ Plain(call[k].target)
          /\ meta.type = "HostQueryReply"
          /\ meta.vpn_addr = host_query(call[k].target).vpn_addr
          /\ candidate_addrs(meta) # <<>>
          => call'[k].rx = "fired" /\ call'[k].addrs = candidate_addrs(meta)]_vars
  <2> SUFFICES ASSUME WaitInv, TargetsAreIps, Next, NEW k \in Tasks,
                      handled' # handled,
                      Running(k, {"asking", "waiting"}), call[k].rx = "open",
                      Plain(call[k].target),
                      handled'[Len(handled')].type = "HostQueryReply",
                      handled'[Len(handled')].vpn_addr = host_query(call[k].target).vpn_addr,
                      candidate_addrs(handled'[Len(handled')]) # <<>>
               PROVE  /\ call'[k].rx = "fired"
                      /\ call'[k].addrs = candidate_addrs(handled'[Len(handled')])
    OBVIOUS
  <2>1. PICK meta \in Metas : handle_lighthouse_packet(meta)
    BY DEF Next, Step, Build, Lookup, RegisterWaiter, AskLighthouse, Resolved, Handshake,
           RegisterConnect, RegisterSend, Ready, Connect, Accept
  <2>2. handled'[Len(handled')] = meta
    BY <2>1 DEF handle_lighthouse_packet, TargetsAreIps
  <2>3. call[k].pc # "idle" /\ call[k].target \in Ips
    BY DEF Running, TargetsAreIps
  <2>4. meta.vpn_addr = {ip_to_addr(call[k].target)}
    BY <2>2 DEF host_query, Meta
  <2> DEFINE v == addr_to_ip(CHOOSE x \in meta.vpn_addr : TRUE)
             addrs == candidate_addrs(meta)
  <2>5. v = call[k].target
    BY <2>3, <2>4, WireRoundTrip
  <2>6. v \in DOMAIN lighthouse_waiters /\ lighthouse_waiters[v] = k
    BY <2>5 DEF WaitInv, WaitersAreRegistered
  <2>7. call'[k] = [call[k] EXCEPT !.rx = "fired", !.addrs = addrs]
    <3>1. /\ meta.type \in {"HostQueryReply", "HostUpdateNotification"}
          /\ candidate_addrs(meta) # <<>>
          /\ meta.vpn_addr # {}
      BY <2>2, <2>4
    <3> DEFINE Woken(j) == /\ v \in DOMAIN lighthouse_waiters
                           /\ lighthouse_waiters[v] = j
                           /\ Running(j, {"asking", "waiting"})
                           /\ call[j].rx = "open"
               InGap(j) == Running(j, {"missed"}) /\ call[j].target = v
    <3>2. call' = [j \in Tasks |->
                  IF Woken(j) THEN [call[j] EXCEPT !.rx = "fired", !.addrs = addrs]
                  ELSE IF InGap(j) THEN [call[j] EXCEPT !.gap = TRUE]
                  ELSE call[j]]
      BY <2>1, <3>1 DEF handle_lighthouse_packet, handle_lighthouse
    <3>3. Woken(k)
      BY <2>6
    <3> HIDE DEF Woken, InGap, addrs, v
    <3> QED
      BY <3>2, <3>3
  <2> HIDE DEF addrs
  <2>8. call[k] = [pc |-> call[k].pc, target |-> call[k].target, asked |-> call[k].asked,
                   rx |-> call[k].rx, addrs |-> call[k].addrs, gap |-> call[k].gap]
    BY <2>3 DEF WaitInv, CallsShaped, Shaped
  <2>9. call'[k].rx = "fired" /\ call'[k].addrs = addrs
    BY ONLY <2>7, <2>8
  <2> QED
    BY <2>2, <2>9 DEF addrs
<1> QED
  BY <1>1, AlwaysWaitInv, TargetsStayIps, PTL DEF Spec, AnswerWakes

-----------------------------------------------------------------------------
(* What is published is learned.                                           *)

\* Every nonempty set of naturals has a least element.
LEMMA LeastNat ==
    ASSUME NEW T, T \subseteq Nat, T # {}
    PROVE  \E x \in T : \A y \in T : x <= y
<1>1. PICK R : IsWellFoundedOn(R, Nat) /\ \A x, y \in Nat : y < x => <<y, x>> \in R
  <2> DEFINE S == OpToRel(<, Nat)
  <2>1. IsWellFoundedOn(S, Nat)
    BY NatLessThanWellFounded
  <2>2. \A x, y \in Nat : y < x => <<y, x>> \in S
    BY DEF OpToRel
  <2> HIDE DEF S
  <2> QED
    BY <2>1, <2>2
<1>2. PICK x \in T : \A y \in T : ~(<<y, x>> \in R)
  BY <1>1, WFMin
<1>3. ASSUME NEW y \in T PROVE x <= y
  <2>1. x \in Nat /\ y \in Nat
    OBVIOUS
  <2>2. ~(y < x)
    BY <1>1, <1>2, <2>1
  <2> QED
    BY <2>1, <2>2
<1> QED
  BY <1>3

\* f is what the loop over the first n addresses pushes.
IsPushed(f, n, sockets, fam) ==
    f = [i \in 0..n |-> IF i = 0 THEN <<>>
                        ELSE IF sockets[i].ip.family = fam THEN Append(f[i - 1], sockets[i])
                        ELSE f[i - 1]]

LEMMA PushedExist ==
    ASSUME NEW sockets, NEW fam, NEW n \in Nat
    PROVE  \E f : IsPushed(f, n, sockets, fam)
<1> DEFINE T == {m \in Nat : ~\E f : IsPushed(f, m, sockets, fam)}
<1> SUFFICES ASSUME T # {} PROVE FALSE
  OBVIOUS
<1>1. PICK m \in T : \A y \in T : m <= y
  <2>1. T \subseteq Nat
    OBVIOUS
  <2> HIDE DEF T
  <2> QED
    BY <2>1, LeastNat
<1>2. m \in Nat /\ ~\E f : IsPushed(f, m, sockets, fam)
  OBVIOUS
<1>3. CASE m = 0
  <2> DEFINE f == [i \in 0..0 |-> <<>>]
  <2>1. \A i \in 0..0 : i = 0
    OBVIOUS
  <2>2. IsPushed(f, 0, sockets, fam)
    BY <2>1 DEF IsPushed
  <2> QED
    BY <1>2, <1>3, <2>2
<1>4. CASE m # 0
  <2>1. PICK k \in Nat : m = k + 1
    <3>1. m - 1 \in Nat /\ m = (m - 1) + 1
      BY <1>2, <1>4
    <3> QED
      BY <3>1
  <2>2. PICK f : IsPushed(f, k, sockets, fam)
    <3>1. ~(m <= k)
      BY <2>1
    <3>2. k \notin T
      BY <1>1, <3>1
    <3> QED
      BY <3>2
  <2> DEFINE Next1(x, i) == IF sockets[i].ip.family = fam THEN Append(x, sockets[i]) ELSE x
             g == [i \in 0..m |-> IF i = m THEN Next1(f[k], m) ELSE f[i]]
  <2>3. \A i \in 0..k : f[i] = IF i = 0 THEN <<>> ELSE Next1(f[i - 1], i)
    BY <2>2 DEF IsPushed
  <2> HIDE DEF Next1
  <2>4. ASSUME NEW i \in 0..m
        PROVE  g[i] = IF i = 0 THEN <<>> ELSE Next1(g[i - 1], i)
    <3>1. CASE i = 0
      <4>1. 0 \in 0..k /\ 0 # m
        BY <1>4
      <4> QED
        BY <2>3, <3>1, <4>1
    <3>2. CASE i = m
      <4>1. i # 0 /\ i - 1 = k /\ k \in 0..m /\ k # m
        BY <1>2, <1>4, <2>1, <3>2
      <4>2. g[k] = f[k] /\ g[i] = Next1(f[k], m)
        BY <3>2, <4>1
      <4> HIDE DEF g
      <4> QED
        BY <3>2, <4>1, <4>2
    <3>3. CASE i # 0 /\ i # m
      <4>1. i \in 0..k /\ i - 1 \in 0..m /\ i - 1 # m
        BY <1>2, <2>1, <3>3
      <4>2. g[i] = f[i] /\ g[i - 1] = f[i - 1]
        BY <3>3, <4>1
      <4> HIDE DEF g
      <4> QED
        BY <2>3, <3>3, <4>1, <4>2
    <3> QED
      BY <3>1, <3>2, <3>3
  <2>5. g = [i \in 0..m |-> g[i]]
    OBVIOUS
  <2> HIDE DEF g
  <2>6. IsPushed(g, m, sockets, fam)
    BY <2>4, <2>5 DEF IsPushed, Next1
  <2> QED
    BY <1>2, <2>6
<1> QED
  BY <1>3, <1>4

\* The lists host_update_notification makes hold addresses of the family they
\* are for, and no address is lost from both of them.
LEMMA OfFamilyIs ==
    ASSUME NEW sockets \in Seq(Sockets), NEW fam
    PROVE  /\ OfFamily(sockets, fam) \in Seq(Sockets)
           /\ \A i \in 1..Len(OfFamily(sockets, fam)) :
                 OfFamily(sockets, fam)[i].ip.family = fam
           /\ sockets # <<>> /\ sockets[Len(sockets)].ip.family = fam =>
                 OfFamily(sockets, fam) # <<>>
<1> HIDE DEF Sockets
<1>1. PICK n \in Nat : n = Len(sockets)
  OBVIOUS
<1> DEFINE f == CHOOSE g : IsPushed(g, n, sockets, fam)
<1>2. IsPushed(f, n, sockets, fam)
  BY PushedExist
<1>3. OfFamily(sockets, fam) = f[n]
  BY <1>1 DEF OfFamily, IsPushed
<1> HIDE DEF f
<1>4. \A i \in 0..n : f[i] = IF i = 0 THEN <<>>
                             ELSE IF sockets[i].ip.family = fam THEN Append(f[i - 1], sockets[i])
                             ELSE f[i - 1]
  BY <1>2 DEF IsPushed
<1> DEFINE Good(i) == f[i] \in Seq(Sockets) /\ \A j \in 1..Len(f[i]) : f[i][j].ip.family = fam
           T == {m \in Nat : m <= n /\ ~Good(m)}
<1>5. Good(0)
  <2>1. 0 \in 0..n
    BY <1>1
  <2>2. f[0] = <<>>
    BY <1>4, <2>1
  <2>3. <<>> \in Seq(Sockets) /\ Len(<<>>) = 0 /\ \A j \in 1..0 : FALSE
    OBVIOUS
  <2> QED
    BY <2>2, <2>3
<1>6. ASSUME NEW i \in Nat, i + 1 <= n, Good(i) PROVE Good(i + 1)
  <2>1. i + 1 \in 0..n /\ i + 1 # 0 /\ (i + 1) - 1 = i /\ i + 1 \in 1..Len(sockets)
    BY <1>1, <1>6
  <2>2. PICK s \in Sockets : s = sockets[i + 1]
    BY <2>1
  <2>3. PICK x \in Seq(Sockets) : x = f[i]
    BY <1>6
  <2>4. f[i + 1] = IF s.ip.family = fam THEN Append(x, s) ELSE x
    BY <1>4, <2>1, <2>2, <2>3
  <2>5. \A j \in 1..Len(x) : x[j].ip.family = fam
    BY <1>6, <2>3
  <2>6. CASE s.ip.family = fam
    <3>1. f[i + 1] = Append(x, s) /\ Append(x, s) \in Seq(Sockets)
      BY <2>4, <2>6
    <3>2. ASSUME NEW j \in 1..Len(Append(x, s)) PROVE Append(x, s)[j].ip.family = fam
      <4>1. j = Len(x) + 1 \/ j \in 1..Len(x)
        OBVIOUS
      <4>2. CASE j = Len(x) + 1
        <5>1. Append(x, s)[j] = s
          BY <4>2
        <5> QED
          BY <2>6, <5>1
      <4>3. CASE j \in 1..Len(x)
        <5>1. Append(x, s)[j] = x[j]
          BY <4>3
        <5> QED
          BY <2>5, <4>3, <5>1
      <4> QED
        BY <4>1, <4>2, <4>3
    <3> QED
      BY <3>1, <3>2
  <2>7. CASE s.ip.family # fam
    BY <2>3, <2>4, <2>5, <2>7
  <2> QED
    BY <2>6, <2>7
<1>7. T = {}
  <2> SUFFICES ASSUME T # {} PROVE FALSE
    OBVIOUS
  <2>1. T \subseteq Nat /\ \A y : y \in T <=> (y \in Nat /\ y <= n /\ ~Good(y))
    OBVIOUS
  <2> HIDE DEF T, Good
  <2>2. PICK m \in T : \A y \in T : m <= y
    BY <2>1, LeastNat
  <2>3. m \in Nat /\ m <= n /\ ~Good(m)
    BY <2>1, <2>2
  <2>4. m # 0
    BY <1>5, <2>3
  <2>5. PICK i \in Nat : m = i + 1
    <3>1. m - 1 \in Nat /\ m = (m - 1) + 1
      BY <2>3, <2>4
    <3> QED
      BY <3>1
  <2>6. ~(m <= i) /\ i <= n /\ i + 1 <= n
    BY <2>3, <2>5
  <2>7. Good(i)
    BY <2>1, <2>2, <2>6
  <2> QED
    BY <1>6, <2>3, <2>5, <2>6, <2>7
<1>8. ASSUME sockets # <<>>, sockets[Len(sockets)].ip.family = fam PROVE f[n] # <<>>
  <2>1. n # 0
    BY <1>1, <1>8
  <2>2. PICK i \in Nat : n = i + 1 /\ n - 1 = i /\ n \in 0..n /\ i + 1 <= n /\ i <= n
    <3>1. /\ n - 1 \in Nat /\ n = (n - 1) + 1 /\ n \in 0..n
          /\ (n - 1) + 1 <= n /\ n - 1 <= n
      BY <2>1
    <3> QED
      BY <3>1
  <2>3. f[n] = Append(f[i], sockets[n])
    BY <1>1, <1>4, <1>8, <2>1, <2>2
  <2>4. Len(f[n]) >= 1
    <3>1. f[i] \in Seq(Sockets)
      <4>1. Good(i)
        <5> HIDE DEF Good
        <5> QED
          BY <1>7, <2>2
      <4> QED
        BY <4>1
    <3>2. sockets[n] \in Sockets
      BY <1>1, <2>1
    <3>3. PICK x \in Seq(Sockets) : x = f[i]
      BY <3>1
    <3> QED
      BY <2>3, <3>2, <3>3
  <2> QED
    BY <2>4
<1>9. Good(n)
  <2> HIDE DEF Good
  <2> QED
    BY <1>7
<1> QED
  BY <1>3, <1>8, <1>9

\* A port that fits in 16 bits comes back from 32 bits as it was.
LEMMA SmallModulo == ASSUME NEW x \in Nat, NEW n \in Nat, x < n PROVE x % n = x
OBVIOUS

\* On the wire an address is its number and its port a wider number: read back
\* as the family of the list they are in, they are what they were.
LEMMA WireList ==
    ASSUME NEW fam \in {4, 6}, NEW A \in Seq(Sockets),
           \A i \in 1..Len(A) : A[i].ip.family = fam
    PROVE  /\ DOMAIN AddrPorts(A) = 1..Len(A)
           /\ \A i \in 1..Len(A) :
                 Socket([family |-> fam, value |-> AddrPorts(A)[i][1]],
                        AddrPorts(A)[i][2] % PortSize) = A[i]
<1>1. DOMAIN A = 1..Len(A) /\ DOMAIN AddrPorts(A) = DOMAIN A
  BY DEF AddrPorts
<1>2. ASSUME NEW i \in 1..Len(A)
      PROVE  Socket([family |-> fam, value |-> AddrPorts(A)[i][1]],
                    AddrPorts(A)[i][2] % PortSize) = A[i]
  <2>1. PICK s \in Sockets : s = A[i]
    <3> HIDE DEF Sockets
    <3> QED
      OBVIOUS
  <2>2. s.ip \in Ips /\ s.port \in Nat /\ s.port < PortSize
        /\ s = [ip |-> s.ip, port |-> s.port]
    BY DEF Sockets
  <2>3. s.ip = [family |-> s.ip.family, value |-> s.ip.value]
    BY <2>2 DEF Ips
  <2>4. s.ip.family = fam
    BY <2>1
  <2>5. AddrPorts(A)[i] = <<s.ip.value, s.port>>
    BY <1>1, <2>1 DEF AddrPorts
  <2>6. s.port % PortSize = s.port
    BY <2>2, PublicationAssumption, SmallModulo
  <2> QED
    BY <2>1, <2>2, <2>3, <2>4, <2>5, <2>6 DEF Socket
<1> QED
  BY <1>1, <1>2

\* A host's publication carries its addresses, the IPv4 ones first.
LEMMA PublishedAddrs ==
    ASSUME NEW a, NEW sockets \in Seq(Sockets)
    PROVE  candidate_addrs(host_update_notification(a, sockets))
              = OfFamily(sockets, 4) \o OfFamily(sockets, 6)
<1>1. PICK A : A = OfFamily(sockets, 4)
  OBVIOUS
<1>2. PICK B : B = OfFamily(sockets, 6)
  OBVIOUS
<1>3. A \in Seq(Sockets) /\ \A i \in 1..Len(A) : A[i].ip.family = 4
  BY <1>1, OfFamilyIs
<1>4. B \in Seq(Sockets) /\ \A i \in 1..Len(B) : B[i].ip.family = 6
  BY <1>2, OfFamilyIs
<1> DEFINE m == host_update_notification(a, sockets)
<1>5. m.v4_addr_ports = AddrPorts(A) /\ m.v6_addr_ports = AddrPorts(B)
  BY <1>1, <1>2 DEF host_update_notification, Meta
<1> HIDE DEF m
<1> DEFINE C == [i \in DOMAIN m.v4_addr_ports |->
                    Socket(V4(m.v4_addr_ports[i][1]), m.v4_addr_ports[i][2] % PortSize)]
           D == [i \in DOMAIN m.v6_addr_ports |->
                    Socket(V6(m.v6_addr_ports[i][1]), m.v6_addr_ports[i][2] % PortSize)]
<1>6. C = A
  <2>1. /\ DOMAIN AddrPorts(A) = 1..Len(A)
        /\ \A i \in 1..Len(A) : Socket([family |-> 4, value |-> AddrPorts(A)[i][1]],
                                       AddrPorts(A)[i][2] % PortSize) = A[i]
    BY <1>3, WireList
  <2>2. C = [i \in 1..Len(A) |-> A[i]]
    BY <1>5, <2>1 DEF V4
  <2>3. A = [i \in 1..Len(A) |-> A[i]]
    <3> HIDE DEF Sockets
    <3> QED
      BY <1>3
  <2> HIDE DEF C
  <2> QED
    BY <2>2, <2>3
<1>7. D = B
  <2>1. /\ DOMAIN AddrPorts(B) = 1..Len(B)
        /\ \A i \in 1..Len(B) : Socket([family |-> 6, value |-> AddrPorts(B)[i][1]],
                                       AddrPorts(B)[i][2] % PortSize) = B[i]
    BY <1>4, WireList
  <2>2. D = [i \in 1..Len(B) |-> B[i]]
    BY <1>5, <2>1 DEF V6
  <2>3. B = [i \in 1..Len(B) |-> B[i]]
    <3> HIDE DEF Sockets
    <3> QED
      BY <1>4
  <2> HIDE DEF D
  <2> QED
    BY <2>2, <2>3
<1>8. candidate_addrs(m) = C \o D
  BY DEF candidate_addrs
<1> HIDE DEF C, D
<1> QED
  BY <1>1, <1>2, <1>6, <1>7, <1>8 DEF m

\* A host with an address publishes one.
LEMMA PublishedNotEmpty ==
    ASSUME NEW sockets \in Seq(Sockets), sockets # <<>>
    PROVE  /\ OfFamily(sockets, 4) \o OfFamily(sockets, 6) # <<>>
           /\ OfFamily(sockets, 4) \o OfFamily(sockets, 6) \in Seq(Sockets)
<1>1. PICK A : A = OfFamily(sockets, 4)
  OBVIOUS
<1>2. PICK B : B = OfFamily(sockets, 6)
  OBVIOUS
<1>3. A \in Seq(Sockets) /\ (sockets[Len(sockets)].ip.family = 4 => A # <<>>)
  BY <1>1, OfFamilyIs
<1>4. B \in Seq(Sockets) /\ (sockets[Len(sockets)].ip.family = 6 => B # <<>>)
  BY <1>2, OfFamilyIs
<1>5. sockets[Len(sockets)].ip.family \in {4, 6}
  <2>1. sockets[Len(sockets)] \in Sockets
    <3> HIDE DEF Sockets
    <3> QED
      OBVIOUS
  <2> QED
    BY <2>1 DEF Sockets, Ips
<1> HIDE DEF Sockets
<1>6. A # <<>> \/ B # <<>>
  BY <1>3, <1>4, <1>5
<1>7. A \o B \in Seq(Sockets) /\ Len(A \o B) = Len(A) + Len(B)
  BY <1>3, <1>4
<1>8. Len(A) >= 1 \/ Len(B) >= 1
  BY <1>3, <1>4, <1>6
<1>9. Len(A) \in Nat /\ Len(B) \in Nat
  BY <1>3, <1>4
<1>10. Len(A \o B) # 0
  BY <1>7, <1>8, <1>9
<1>11. A \o B # <<>>
  BY <1>10
<1> QED
  BY <1>1, <1>2, <1>7, <1>11

\* A host that publishes itself is found by those who take its message in, at
\* its first IPv4 address or else its first IPv6 address (lighthouse.rs:54-105,
\* handle_lighthouse), whatever the size of the address space, the hosts, their
\* addresses and the messages between.
THEOREM PublicationsAreLearned == Spec => []PublishedIsLearned
<1>1. Init => PublishedIsLearned
  BY DEF Init, PublishedIsLearned
<1>2. TargetsAreIps /\ PublishedIsLearned /\ [Next]_vars => PublishedIsLearned'
  <2> SUFFICES ASSUME TargetsAreIps, PublishedIsLearned, [Next]_vars,
                      NEW p \in Publications, Plain(p.addr), p.sockets # <<>>,
                      handled' # <<>>,
                      handled'[Len(handled')] = host_update_notification(p.addr, p.sockets)
               PROVE  /\ p.addr \in DOMAIN known_addrs'
                      /\ known_addrs'[p.addr]
                            = Head(OfFamily(p.sockets, 4) \o OfFamily(p.sockets, 6))
    BY DEF PublishedIsLearned
  <2>1. CASE UNCHANGED <<known_addrs, handled>>
    BY <2>1 DEF PublishedIsLearned
  <2>2. CASE \E meta \in Metas : handle_lighthouse_packet(meta)
    <3>1. PICK meta \in Metas : handle_lighthouse_packet(meta)
      BY <2>2
    <3>2. handled'[Len(handled')] = meta
      BY <3>1 DEF handle_lighthouse_packet, TargetsAreIps
    <3>3. meta = host_update_notification(p.addr, p.sockets)
      BY <3>2
    <3>4. p.addr \in Ips /\ p.sockets \in Seq(Sockets)
      BY PublicationAssumption
    <3>5. PICK L : L = OfFamily(p.sockets, 4) \o OfFamily(p.sockets, 6)
      OBVIOUS
    <3>6. L \in Seq(Sockets) /\ L # <<>>
      BY <3>4, <3>5, PublishedNotEmpty
    <3>7. candidate_addrs(meta) = L
      BY <3>3, <3>4, <3>5, PublishedAddrs
    <3>8. meta.type = "HostUpdateNotification" /\ meta.vpn_addr = {ip_to_addr(p.addr)}
      BY <3>3 DEF host_update_notification, Meta
    <3>9. addr_to_ip(CHOOSE x \in meta.vpn_addr : TRUE) = p.addr
      BY <3>4, <3>8, WireRoundTrip
    <3>10. known_addrs' = Insert(known_addrs, p.addr, L[1])
      BY <3>1, <3>6, <3>7, <3>8, <3>9 DEF handle_lighthouse_packet, handle_lighthouse
    <3>11. L[1] = Head(L)
      <4> HIDE DEF Sockets
      <4> QED
        BY <3>6
    <3> QED
      BY <3>5, <3>10, <3>11 DEF Insert
  <2>3. \/ UNCHANGED <<known_addrs, handled>>
        \/ \E meta \in Metas : handle_lighthouse_packet(meta)
    BY DEF Next, Step, Build, Lookup, RegisterWaiter, AskLighthouse, Resolved, Handshake,
           RegisterConnect, RegisterSend, Ready, Connect, Accept, vars
  <2> QED
    BY <2>1, <2>2, <2>3
<1> QED
  BY <1>1, <1>2, TargetsStayIps, PTL DEF Spec
=============================================================================
