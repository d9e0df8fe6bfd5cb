--------------------------- MODULE KalModemProofs ---------------------------
(* The engine's table (KalModem) for any number of links, slots and        *)
(* profiles, as long as calls of different threads do not overlap.         *)
EXTENDS KalModem, TLAPS, FiniteSetTheorems, WellFoundedInduction

Opened == {"query", "unprobe"}
Established == {"buffers", "arrays", "live"}

\* What l's place says of the slots it has found and occupied.
Holds(l) ==
  /\ link[l].at = "found" => engine[link[l].probe] = "none"
  /\ link[l].at \in Opened => engine[link[l].probe] # "none"
  /\ link[l].at = "chosen" => engine[link[l].instance] = "none"
  /\ link[l].at \in Established => engine[link[l].instance] = "hears"
  /\ link[l].at \notin Working => link[l].instance = NoSlot

OneCall == \A k, l \in Link : InCall(k) /\ InCall(l) => k = l

\* NoEngineLost is inductive only together with what the caller has found so far.
IInv == TypeOK /\ OneCall /\ NoEngineLost /\ \A l \in Link : Holds(l)

\* In its initial states no link holds anything.
LEMMA InitInv == Init => IInv
<1> SUFFICES ASSUME Init PROVE IInv OBVIOUS
<1>1. Gone.profile \in Profile  BY SlotsAssumption DEF Gone
<1>2. TypeOK
  BY <1>1, SlotsAssumption
  DEF Init, TypeOK, EngineState, Gone, NoSlot, Place, Probing, Working, Slot
<1>3. \A l \in Link : Held(l) = {} /\ ~InCall(l) /\ Holds(l)
  BY DEF Init, Held, InCall, Holds, Gone, Probing, Working, Opened, Established
<1> QED  BY <1>2, <1>3 DEF IInv, OneCall, NoEngineLost, Init

\* A set of natural numbers that is not empty has a least member.
LEMMA LeastNat ==
  ASSUME NEW T, T \subseteq Nat, T # {}
  PROVE  \E x \in T : \A y \in T : x =< y
<1> DEFINE R == {ss \in Nat \X Nat : ss[1] < ss[2]}
<1>1. IsWellFoundedOn(R, Nat)  BY NatLessThanWellFounded DEF OpToRel
<1>2. \A x, y \in Nat : <<x, y>> \in R <=> x < y  OBVIOUS
<1> HIDE DEF R
<1>3. PICK x \in T : \A y \in T : <<y, x>> \notin R  BY <1>1, WFMin
<1>4. \A y \in T : ~(y < x)  BY <1>2, <1>3
<1>5. \A y \in T : x =< y  BY <1>4
<1> QED  BY <1>5

\* A free slot that is found is one.
LEMMA FirstFree ==
  ASSUME TypeOK, Free # {}
  PROVE  First \in Slot /\ First \in 0 .. Slots /\ engine[First] = "none"
<1>1. Free \subseteq Nat  BY DEF Free, Slot
<1>2. \E i \in Free : \A j \in Free : i =< j  BY <1>1, LeastNat
<1>3. First \in Free  BY <1>2 DEF First
<1> QED  BY <1>3, SlotsAssumption DEF Free, Slot

\* Another thread is not in a call while l's is.
LEMMA OtherIdle ==
  ASSUME IInv, ~Overlap, NEW l \in Link, NEW k \in Link, k # l,
         InCall(l) \/ MayCall(l)
  PROVE  ~InCall(k)
BY DEF IInv, OneCall, MayCall

\* A slot that two links do not share, or that is not occupied, is not the other's.
LEMMA OtherSlot ==
  ASSUME IInv, ~Overlap, NEW l \in Link, NEW k \in Link, k # l, ~InCall(k),
         NEW i \in Slot, i \in Held(l) \/ engine[i] = "none"
  PROVE  i \notin Held(k)
<1>1. i \in Held(l) => i \notin Held(k)  BY DEF IInv, NoEngineLost
<1>2. engine[i] = "none" => i \notin Held(k)  BY DEF IInv, NoEngineLost
<1> QED  BY <1>1, <1>2

\* What a link outside a call holds.
LEMMA IdleHolds ==
  ASSUME IInv, NEW k \in Link, ~InCall(k)
  PROVE  /\ link[k].at = "gone" => Held(k) = {}
         /\ link[k].at = "live" => /\ Held(k) = {link[k].instance}
                                   /\ engine[link[k].instance] = "hears"
                                   /\ link[k].instance \in Slot
  BY DEF IInv, TypeOK, Holds, Held, InCall, Working, Probing, Established

\* A step of l that occupies, releases or leaves alone one slot i of its own keeps the
\* invariant when it keeps l's own part of it.
LEMMA StepInv ==
  ASSUME IInv, ~Overlap, NEW l \in Link, InCall(l) \/ MayCall(l),
         NEW L, link' = [link EXCEPT ![l] = L],
         NEW i, NEW v \in EngineState,
         i \in Slot => engine' = [engine EXCEPT ![i] = v],
         i \notin Slot => engine' = engine,
         i \in Slot => i \in Held(l) \/ engine[i] = "none",
         TypeOK', Holds(l)',
         \A j \in Slot : j # i => (j \in Held(l)' <=> j \in Held(l)),
         i \in Slot => (v # "none" <=> i \in Held(l)'),
         Held(l)' \subseteq Slot
  PROVE  IInv'
<1> DEFINE Idle(k) == ~InCall(k)
<1>1. \A k \in Link \ {l} : /\ ~InCall(k) /\ link'[k] = link[k]
                            /\ Held(k)' = Held(k) /\ InCall(k)' = InCall(k)
                            /\ i \in Slot => i \notin Held(k)
                            /\ Held(k) \subseteq Slot
  <2> SUFFICES ASSUME NEW k \in Link \ {l}
               PROVE  /\ ~InCall(k) /\ link'[k] = link[k]
                      /\ Held(k)' = Held(k) /\ InCall(k)' = InCall(k)
                      /\ i \in Slot => i \notin Held(k)
                      /\ Held(k) \subseteq Slot
    OBVIOUS
  <2>1. ~InCall(k)  BY OtherIdle
  <2>2. link'[k] = link[k]  BY DEF IInv, TypeOK
  <2>3. Held(k)' = Held(k) /\ InCall(k)' = InCall(k)  BY <2>2 DEF Held, InCall
  <2>4. i \in Slot => i \notin Held(k)  BY <2>1, OtherSlot
  <2>5. Held(k) \subseteq Slot  BY <2>1, IdleHolds DEF InCall
  <2> QED  BY <2>1, <2>2, <2>3, <2>4, <2>5
<1>2. OneCall'  BY <1>1 DEF OneCall
<1>3. \A k \in Link \ {l} : Holds(k)'
  <2> SUFFICES ASSUME NEW k \in Link \ {l} PROVE Holds(k)'  OBVIOUS
  <2>1. ~InCall(k) /\ link'[k] = link[k] /\ (i \in Slot => i \notin Held(k))  BY <1>1
  <2>2. Holds(k)  BY DEF IInv
  <2>3. CASE link[k].at = "gone"
    BY <2>1, <2>2, <2>3 DEF Holds, Opened, Established, Working
  <2>4. CASE link[k].at = "live"
    <3>1. link[k].instance \in Slot /\ engine[link[k].instance] = "hears" /\ Held(k) = {link[k].instance}
      BY <2>1, <2>4, IdleHolds
    <3>2. engine'[link[k].instance] = "hears"  BY <3>1, <2>1 DEF IInv, TypeOK
    <3> QED  BY <3>2, <2>1, <2>2, <2>4 DEF Holds, Opened, Established, Working
  <2> QED  BY <2>1, <2>3, <2>4 DEF InCall
<1>4. \A j \in Slot : engine'[j] # "none" <=> \E k \in Link : j \in Held(k)'
  <2> SUFFICES ASSUME NEW j \in Slot
               PROVE  engine'[j] # "none" <=> \E k \in Link : j \in Held(k)'
    OBVIOUS
  <2>1. engine[j] # "none" <=> \E k \in Link : j \in Held(k)  BY DEF IInv, NoEngineLost
  <2>2. CASE j = i
    <3>1. engine'[j] = v  BY <2>2 DEF IInv, TypeOK
    <3>2. \A k \in Link \ {l} : j \notin Held(k)'  BY <1>1, <2>2
    <3> QED  BY <3>1, <3>2, <2>2
  <2>3. CASE j # i
    <3>1. engine'[j] = engine[j]  BY <2>3 DEF IInv, TypeOK
    <3>2. \A k \in Link : j \in Held(k)' <=> j \in Held(k)  BY <1>1, <2>3
    <3> QED  BY <2>1, <3>1, <3>2
  <2> QED  BY <2>2, <2>3
<1>5. \A k \in Link \ {l} : Held(k)' \cap Held(l)' = {}
  <2> SUFFICES ASSUME NEW k \in Link \ {l}, NEW j, j \in Held(k)', j \in Held(l)' PROVE FALSE
    OBVIOUS
  <2>1. j \in Slot /\ j \in Held(k) /\ j # i  BY <1>1
  <2>2. j \in Held(l)  BY <2>1
  <2> QED  BY <2>1, <2>2 DEF IInv, NoEngineLost
<1>6. \A k, m \in Link : Held(k)' \cap Held(m)' # {} => k = m
  <2> SUFFICES ASSUME NEW k \in Link, NEW m \in Link, k # m PROVE Held(k)' \cap Held(m)' = {}
    OBVIOUS
  <2>1. CASE k = l \/ m = l  BY <1>5, <2>1
  <2>2. CASE k # l /\ m # l
    <3>1. Held(k)' = Held(k) /\ Held(m)' = Held(m)  BY <1>1, <2>2
    <3> QED  BY <3>1 DEF IInv, NoEngineLost
  <2> QED  BY <2>1, <2>2
<1> QED  BY <1>2, <1>3, <1>4, <1>6 DEF IInv, NoEngineLost

\* The types and places a step of one link has to keep: L is of the type of a link.
LinkState == [at : Place, profile : Profile, probe : 0 .. Slots, instance : 0 .. Slots]

\* A step of one link that touches no engine but one it holds, or a free one, keeps the
\* invariant: what every action below is an instance of.
LEMMA Kept ==
  ASSUME IInv, ~Overlap, NEW l \in Link, InCall(l) \/ MayCall(l),
         NEW L \in LinkState, link' = [link EXCEPT ![l] = L],
         L.at \in Probing => L.probe \in Slot,
         L.at \in Working => L.instance \in Slot,
         L.at \notin Working => L.instance = NoSlot,
         NEW i, NEW v \in EngineState,
         i \in Slot => engine' = [engine EXCEPT ![i] = v],
         i \notin Slot => engine' = engine,
         i \in Slot => i \in Held(l) \/ engine[i] = "none",
         L.at = "found" => engine'[L.probe] = "none",
         L.at \in Opened => engine'[L.probe] # "none",
         L.at = "chosen" => engine'[L.instance] = "none",
         L.at \in Established => engine'[L.instance] = "hears",
         \A j \in Slot : j # i => (j \in Held(l)' <=> j \in Held(l)),
         i \in Slot => (v # "none" <=> i \in Held(l)'),
         cache' \subseteq Profile
  PROVE  IInv'
<1>1. link'[l] = L  BY DEF IInv, TypeOK
<1>2. TypeOK'
  <2>1. engine' \in [Slot -> EngineState]  BY DEF IInv, TypeOK
  <2>2. link' \in [Link -> LinkState]  BY DEF IInv, TypeOK, LinkState
  <2>3. \A k \in Link : /\ link'[k].at \in Probing => link'[k].probe \in Slot
                        /\ link'[k].at \in Working => link'[k].instance \in Slot
    BY <1>1 DEF IInv, TypeOK
  <2> QED  BY <2>1, <2>2, <2>3 DEF TypeOK, LinkState
<1>3. Holds(l)'  BY <1>1 DEF Holds
<1>4. Held(l)' \subseteq Slot
  BY <1>1 DEF Held, LinkState
<1> QED  BY <1>2, <1>3, <1>4, StepInv

\* What a link in a given place is, and what it has occupied.
LEMMA Here ==
  ASSUME IInv, NEW l \in Link
  PROVE  /\ link[l] \in LinkState
         /\ link[l].at \in Probing => link[l].probe \in Slot
         /\ link[l].at \in Working => link[l].instance \in Slot
         /\ link[l].at \notin Working => link[l].instance = NoSlot
         /\ link[l].at \in Opened => Held(l) = {link[l].probe}
         /\ link[l].at \in Established => Held(l) = {link[l].instance}
         /\ link[l].at \notin Opened \cup Established => Held(l) = {}
         /\ NoSlot \notin Slot
         /\ Gone \in LinkState
<1>1. Gone \in LinkState
  BY SlotsAssumption DEF Gone, LinkState, Place, Probing, Working, NoSlot
<1>2. NoSlot \notin Slot  BY SlotsAssumption DEF NoSlot, Slot
<1>3. link[l] \in LinkState  BY DEF IInv, TypeOK, LinkState
<1> QED
  BY <1>1, <1>2, <1>3
  DEF IInv, TypeOK, Holds, Held, Probing, Working, Opened, Established

\* What a link occupies once it is L.
LEMMA There ==
  ASSUME IInv, NEW l \in Link, NEW L \in LinkState, link' = [link EXCEPT ![l] = L]
  PROVE  /\ L.at \in Opened => Held(l)' = {L.probe}
         /\ L.at \in Established => Held(l)' = {L.instance}
         /\ L.at \notin Opened \cup Established => Held(l)' = {}
<1>1. link'[l] = L  BY DEF IInv, TypeOK
<1> QED  BY <1>1 DEF Held, Probing, Working, Opened, Established

\* Giving up gives back the working instance, if there is one.
LEMMA AbandonInv ==
  ASSUME IInv, ~Overlap, NEW l \in Link, InCall(l) \/ MayCall(l), Abandon(l),
         link[l].at \notin Opened, link[l].at # "chosen", cache' = cache
  PROVE  IInv'
<1> DEFINE i == link[l].instance
<1>1. link' = [link EXCEPT ![l] = Gone] /\ Gone.at = "gone" /\ Gone.instance = NoSlot
  BY DEF Abandon, Goes, Gone
<1>2. "gone" \notin Probing \cup Working \cup Opened \cup Established
  BY DEF Probing, Working, Opened, Established
<1>3. Held(l)' = {} /\ Gone \in LinkState  BY <1>1, <1>2, There, Here
<1>4. "none" \in EngineState /\ NoSlot \notin Slot  BY Here DEF EngineState
<1>5. CASE i \in Slot
  <2>1. link[l].at \in Working  BY <1>5, Here
  <2>2. Held(l) = {i}  BY <2>1, Here DEF Working, Established
  <2>3. engine' = [engine EXCEPT ![i] = "none"]  BY <1>5, Here DEF Abandon, ReleasedAny, Released
  <2>4. cache' \subseteq Profile  BY DEF IInv, TypeOK
  <2> HIDE DEF i
  <2> QED  BY <1>1, <1>2, <1>3, <1>5, <1>4, <2>2, <2>3, <2>4, Kept DEF Opened
<1>6. CASE i \notin Slot
  <2>1. link[l].at \notin Working /\ i = NoSlot  BY <1>6, Here
  <2>2. Held(l) = {}  BY <2>1, Here DEF Working, Established
  <2>3. engine' = engine  BY <2>1 DEF Abandon, ReleasedAny
  <2>4. cache' \subseteq Profile  BY DEF IInv, TypeOK
  <2> HIDE DEF i
  <2> QED  BY <1>1, <1>2, <1>3, <1>6, <1>4, <2>2, <2>3, <2>4, Kept DEF Opened
<1> QED  BY <1>5, <1>6

\* Every step of a call keeps the invariant.
LEMMA NextInv == ASSUME IInv, ~Overlap, NEW l \in Link PROVE
  /\ \A p \in Profile : kal_link_create(l, p) => IInv'
  /\ FindProbe(l) => IInv'
  /\ OpenProbe(l) => IInv'
  /\ Query(l) => IInv'
  /\ FreeProbe(l) => IInv'
  /\ FindInstance(l) => IInv'
  /\ OpenInstance(l) => IInv'
  /\ Allocate(l, "buffers", "arrays") => IInv'
  /\ Allocate(l, "arrays", "live") => IInv'
  /\ kal_link_free(l) => IInv'
<1> DEFINE i == link[l].instance
           pr == link[l].probe
<1>0. cache \subseteq Profile /\ engine \in [Slot -> EngineState]  BY DEF IInv, TypeOK
<1>1. ASSUME NEW p \in Profile, kal_link_create(l, p) PROVE IInv'
  <2> DEFINE L == [Gone EXCEPT !.at = IF p \in cache THEN "init" ELSE "sizing", !.profile = p]
  <2>1. L \in LinkState /\ L.at \notin Probing \cup Working \cup Opened \cup Established
    BY <1>1, Here DEF LinkState, Place, Probing, Working, Opened, Established, Gone
  <2>2. L.instance = NoSlot  BY DEF Gone
  <2>3. link' = [link EXCEPT ![l] = L] /\ engine' = engine /\ cache' = cache /\ MayCall(l)
        /\ link[l].at = "gone"
    BY <1>1 DEF kal_link_create, Goes
  <2> HIDE DEF L
  <2>4. Held(l)' = {} /\ Held(l) = {}
    BY <2>1, <2>3, There, Here DEF Opened, Established
  <2> QED  BY <1>0, <2>1, <2>2, <2>3, <2>4, Here, Kept DEF EngineState, Opened, Established, Probing, Working
<1>2. ASSUME FindProbe(l) PROVE IInv'
  <2>1. CASE Free = {}  BY <1>2, <2>1, AbandonInv DEF FindProbe, InCall, Opened
  <2>2. CASE Free # {}
    <3> DEFINE L == [link[l] EXCEPT !.at = "found", !.probe = First]
    <3>1. First \in Slot /\ First \in 0 .. Slots /\ engine[First] = "none"  BY <2>2, FirstFree DEF IInv
    <3>2. L \in LinkState /\ L.at = "found" /\ L.probe = First /\ L.instance = NoSlot
      <4>1. link[l].instance = NoSlot  BY <1>2, Here DEF FindProbe, Working
      <4>2. "found" \in Place  BY DEF Place, Probing
      <4> QED  BY <3>1, <4>1, <4>2, Here DEF LinkState
    <3>3. link' = [link EXCEPT ![l] = L] /\ engine' = engine /\ cache' = cache /\ InCall(l)
          /\ link[l].at = "sizing"
      BY <1>2, <2>2 DEF FindProbe, Goes, InCall
    <3> HIDE DEF L
    <3>4. Held(l)' = {} /\ Held(l) = {}  BY <3>2, <3>3, There, Here DEF Opened, Established
    <3> QED
      BY <1>0, <3>1, <3>2, <3>3, <3>4, Here, Kept DEF EngineState, Opened, Established, Probing, Working
  <2> QED  BY <2>1, <2>2
<1>3. ASSUME OpenProbe(l) PROVE IInv'
  <2> DEFINE L == [link[l] EXCEPT !.at = "query"]
  <2>1. pr \in Slot /\ engine[pr] = "none" /\ link[l].at = "found"
    BY <1>3, Here DEF OpenProbe, IInv, Holds, Probing
  <2>2. L \in LinkState /\ L.at = "query" /\ L.probe = pr /\ L.instance = NoSlot
    BY <2>1, Here DEF LinkState, Place, Probing, Working
  <2>3. link' = [link EXCEPT ![l] = L] /\ engine' = [engine EXCEPT ![pr] = "hears"]
        /\ cache' = cache /\ InCall(l)
    BY <1>3 DEF OpenProbe, Goes, InCall
  <2> HIDE DEF L
  <2>4. Held(l)' = {pr} /\ Held(l) = {}  BY <2>1, <2>2, <2>3, There, Here DEF Opened, Established
  <2>5. engine'[pr] = "hears"  BY <1>0, <2>1, <2>3
  <2>6. "hears" \in EngineState /\ "hears" # "none"  BY DEF EngineState
  <2>7. L.at \in Opened /\ L.at \in Probing /\ L.at \notin Working \cup Established
    BY <2>2 DEF Opened, Probing, Working, Established
  <2> HIDE DEF pr
  <2> QED
    BY <1>0, <2>1, <2>2, <2>3, <2>4, <2>5, <2>6, <2>7, Kept
<1>4. ASSUME Query(l) PROVE IInv'
  <2> DEFINE L == [link[l] EXCEPT !.at = "unprobe"]
  <2>1. pr \in Slot /\ engine[pr] # "none" /\ link[l].at = "query"
    BY <1>4, Here DEF Query, IInv, Holds, Probing, Opened
  <2>2. L \in LinkState /\ L.at = "unprobe" /\ L.probe = pr /\ L.instance = NoSlot
    BY <2>1, Here DEF LinkState, Place, Probing, Working
  <2>3. link' = [link EXCEPT ![l] = L] /\ engine' = [engine EXCEPT ![pr] = "deaf"]
        /\ cache' = cache /\ InCall(l)
    BY <1>4, <2>1 DEF Query, Goes, InCall
  <2> HIDE DEF L
  <2>4. Held(l)' = {pr} /\ Held(l) = {pr}  BY <2>1, <2>2, <2>3, There, Here DEF Opened, Established
  <2>5. engine'[pr] = "deaf"  BY <1>0, <2>1, <2>3
  <2> HIDE DEF pr
  <2> QED
    BY <1>0, <2>1, <2>2, <2>3, <2>4, <2>5, Here, Kept DEF EngineState, Opened, Established, Probing, Working
<1>5. ASSUME FreeProbe(l) PROVE IInv'
  <2>1. pr \in Slot /\ Held(l) = {pr} /\ link[l].at = "unprobe" /\ InCall(l)
    BY <1>5, Here DEF FreeProbe, Probing, Opened, InCall
  <2>2. engine' = [engine EXCEPT ![pr] = "none"]  BY <1>5 DEF FreeProbe, Released
  <2>3. PICK L \in LinkState : /\ link' = [link EXCEPT ![l] = L]
                               /\ L.at \in {"init", "gone"} /\ L.instance = NoSlot
                               /\ cache' \subseteq Profile
    <3>1. CASE cache' = cache \cup {link[l].profile}
               /\ Goes(l, [link[l] EXCEPT !.at = "init", !.probe = NoSlot])
      <4> DEFINE L == [link[l] EXCEPT !.at = "init", !.probe = NoSlot]
      <4>1. L \in LinkState /\ L.at = "init" /\ L.instance = NoSlot
        BY <2>1, Here, SlotsAssumption DEF LinkState, Place, Working, NoSlot
      <4>2. link[l].profile \in Profile  BY Here DEF LinkState
      <4>3. link' = [link EXCEPT ![l] = L]  BY <3>1 DEF Goes
      <4>4. cache' \subseteq Profile  BY <1>0, <3>1, <4>2
      <4> HIDE DEF L
      <4> QED  BY <4>1, <4>3, <4>4
    <3>2. CASE cache' = cache /\ Goes(l, Gone)
      BY <1>0, <3>2, Here DEF Goes, Gone
    <3> QED  BY <1>5, <3>1, <3>2 DEF FreeProbe
  <2>4. Held(l)' = {}  BY <2>3, There DEF Opened, Established
  <2> HIDE DEF pr
  <2> QED
    BY <1>0, <2>1, <2>2, <2>3, <2>4, Here, Kept DEF EngineState, Opened, Established, Probing, Working
<1>6. ASSUME FindInstance(l) PROVE IInv'
  <2>1. CASE Free = {}  BY <1>6, <2>1, AbandonInv DEF FindInstance, InCall, Opened
  <2>2. CASE Free # {}
    <3> DEFINE L == [link[l] EXCEPT !.at = "chosen", !.instance = First]
    <3>1. First \in Slot /\ First \in 0 .. Slots /\ engine[First] = "none"  BY <2>2, FirstFree DEF IInv
    <3>2. L \in LinkState /\ L.at = "chosen" /\ L.instance = First
      <4>1. "chosen" \in Place  BY DEF Place, Working
      <4> QED  BY <3>1, <4>1, Here DEF LinkState
    <3>3. link' = [link EXCEPT ![l] = L] /\ engine' = engine /\ cache' = cache /\ InCall(l)
          /\ link[l].at = "init"
      BY <1>6, <2>2 DEF FindInstance, Goes, InCall
    <3> HIDE DEF L
    <3>4. Held(l)' = {} /\ Held(l) = {}  BY <3>2, <3>3, There, Here DEF Opened, Established
    <3> QED
      BY <1>0, <3>1, <3>2, <3>3, <3>4, Here, Kept DEF EngineState, Opened, Established, Probing, Working
  <2> QED  BY <2>1, <2>2
<1>7. ASSUME OpenInstance(l) PROVE IInv'
  <2> DEFINE L == [link[l] EXCEPT !.at = "buffers"]
  <2>1. i \in Slot /\ engine[i] = "none" /\ link[l].at = "chosen"
    BY <1>7, Here DEF OpenInstance, IInv, Holds, Working
  <2>2. L \in LinkState /\ L.at = "buffers" /\ L.instance = i
    BY <2>1, Here DEF LinkState, Place, Working
  <2>3. link' = [link EXCEPT ![l] = L] /\ engine' = [engine EXCEPT ![i] = "hears"]
        /\ cache' = cache /\ InCall(l)
    BY <1>7 DEF OpenInstance, Goes, InCall
  <2> HIDE DEF L
  <2>4. Held(l)' = {i} /\ Held(l) = {}  BY <2>1, <2>2, <2>3, There, Here DEF Opened, Established
  <2>5. engine'[i] = "hears"  BY <1>0, <2>1, <2>3
  <2> HIDE DEF i
  <2> QED
    BY <1>0, <2>1, <2>2, <2>3, <2>4, <2>5, Here, Kept DEF EngineState, Opened, Established, Probing, Working
<1>8. ASSUME NEW from \in {"buffers", "arrays"}, NEW to \in {"arrays", "live"}, Allocate(l, from, to)
      PROVE IInv'
  <2>1. link[l].at = from /\ from \in Established /\ InCall(l) /\ cache' = cache
    BY <1>8 DEF Allocate, Established, InCall
  <2>2. CASE Abandon(l)  BY <2>1, <2>2, AbandonInv DEF Established, Opened
  <2>3. CASE Goes(l, [link[l] EXCEPT !.at = to]) /\ engine' = engine
    <3> DEFINE L == [link[l] EXCEPT !.at = to]
    <3>1. i \in Slot /\ engine[i] = "hears" /\ Held(l) = {i}
      BY <2>1, Here DEF IInv, Holds, Working, Established
    <3>2. L \in LinkState /\ L.at = to /\ L.instance = i
      BY <1>8, Here DEF LinkState, Place, Working
    <3>3. link' = [link EXCEPT ![l] = L]  BY <2>3 DEF Goes
    <3> HIDE DEF L
    <3>4. Held(l)' = {i}  BY <3>2, <3>3, There DEF Established
    <3> HIDE DEF i
    <3> QED
      BY <1>0, <1>8, <2>1, <2>3, <3>1, <3>2, <3>3, <3>4, Here, Kept
      DEF EngineState, Opened, Established, Probing, Working
  <2> QED  BY <1>8, <2>2, <2>3 DEF Allocate
<1>9. ASSUME kal_link_free(l) PROVE IInv'
  BY <1>9, AbandonInv DEF kal_link_free, Opened
<1> QED  BY <1>1, <1>2, <1>3, <1>4, <1>5, <1>6, <1>7, <1>8, <1>9

\* A live link has a slot of its own.
LEMMA LiveSlots ==
  ASSUME IInv
  PROVE  /\ \A l \in Live : link[l].instance \in Slot
         /\ \A k, l \in Live : link[k].instance = link[l].instance => k = l
<1>1. \A l \in Live : l \in Link /\ link[l].at = "live"  BY DEF Live
<1>2. \A l \in Live : Held(l) = {link[l].instance} /\ link[l].instance \in Slot
  BY <1>1, Here DEF Established, Working
<1> QED  BY <1>1, <1>2 DEF IInv, NoEngineLost

\* So there are no more live links than slots, and as many only if every slot is one's.
LEMMA LiveFit ==
  ASSUME IInv
  PROVE  /\ Cardinality(Live) =< Slots
         /\ (\A i \in Slot : \E l \in Live : link[l].instance = i) => Cardinality(Live) = Slots
<1> DEFINE f == [l \in Live |-> link[l].instance]
<1>1. IsFiniteSet(Slot) /\ Cardinality(Slot) = Slots
  <2>1. 0 \in Int /\ Slots - 1 \in Int  BY SlotsAssumption
  <2>2. Cardinality(0 .. Slots - 1) = Slots
    BY <2>1, SlotsAssumption, FS_Interval
  <2> QED  BY <2>1, <2>2, FS_Interval DEF Slot
<1>2. f \in Injection(Live, Slot)
  <2>1. f \in [Live -> Slot]  BY LiveSlots
  <2>2. \A k, l \in Live : f[k] = f[l] => k = l  BY LiveSlots
  <2> QED  BY <2>1, <2>2 DEF Injection, IsInjective
<1>3. Cardinality(Live) =< Slots  BY <1>1, <1>2, FS_Injection
<1>4. ASSUME \A i \in Slot : \E l \in Live : link[l].instance = i
      PROVE  Cardinality(Live) = Slots
  <2>1. \A i \in Slot : \E l \in Live : f[l] = i  BY <1>4
  <2>2. f \in Surjection(Live, Slot)  BY <1>2, <2>1 DEF Surjection, Injection
  <2> QED  BY <1>1, <1>2, <2>2, FS_Injection
<1> QED  BY <1>3, <1>4

\* When a link that holds nothing finds no slot, every slot is a live link's.
LEMMA FullOfLive ==
  ASSUME IInv, ~Overlap, NEW l \in Link, InCall(l), Held(l) = {}, Free = {}
  PROVE  Cardinality(Live) = Slots
<1>1. ASSUME NEW i \in Slot PROVE \E k \in Live : link[k].instance = i
  <2>1. PICK k \in Link : i \in Held(k)  BY DEF Free, IInv, NoEngineLost
  <2>2. k # l /\ ~InCall(k)  BY <2>1, OtherIdle
  <2>3. link[k].at = "live" /\ Held(k) = {link[k].instance}  BY <2>1, <2>2, IdleHolds DEF InCall
  <2> QED  BY <2>1, <2>3 DEF Live
<1> QED  BY <1>1, LiveFit

\* The invariant holds.
LEMMA Invariance == ASSUME ~Overlap PROVE Spec => []IInv
<1>1. Init => IInv  BY InitInv
<1>2. IInv /\ [Next]_modemVars => IInv'
  <2> SUFFICES ASSUME IInv, [Next]_modemVars PROVE IInv'  OBVIOUS
  <2>1. CASE Next  BY <2>1, NextInv DEF Next
  <2>2. CASE UNCHANGED modemVars
    BY <2>2
    DEF modemVars, IInv, TypeOK, OneCall, InCall, NoEngineLost, Held, Holds
  <2> QED  BY <2>1, <2>2
<1> QED  BY <1>1, <1>2, PTL DEF Spec

\* The table, the cache and the links keep their type, and a call that goes on after
\* ggwave_init has the instance it asked for.
THEOREM TypeCorrect == ASSUME ~Overlap PROVE Spec => []TypeOK
<1>1. IInv => TypeOK  BY DEF IInv
<1> QED  BY <1>1, Invariance, PTL

\* Every engine in the table belongs to one link, however creations fail: nothing is
\* leaked by query_frame_samples, kal_modem_create or kal_link_create.
THEOREM EnginesKept == ASSUME ~Overlap PROVE Spec => []NoEngineLost
<1>1. IInv => NoEngineLost  BY DEF IInv
<1> QED  BY <1>1, Invariance, PTL

\* The working instance of a link is never one that was asked for a size.
THEOREM LinksHear == ASSUME ~Overlap PROVE Spec => []EveryLinkHears
<1>1. IInv => EveryLinkHears  BY DEF IInv, Holds, EveryLinkHears, Live, Established
<1> QED  BY <1>1, Invariance, PTL

\* As many links as there are slots, and no more: with one thread at a time.
THEOREM LinksFit == ASSUME ~Overlap PROVE Spec => []AtMostAllSlots
<1>1. IInv => AtMostAllSlots  BY LiveFit DEF AtMostAllSlots
<1> QED  BY <1>1, Invariance, PTL

\* A creation fails for want of an engine only when all of them are in use by links.
THEOREM EnginesUsable == ASSUME ~Overlap PROVE Spec => EveryEngineUsable
<1> DEFINE Full == \A l \in Link : link[l].at \in {"sizing", "init"} /\ link'[l].at = "gone"
                     => Cardinality(Live) = Slots
<1>1. IInv /\ [Next]_modemVars => [Full]_modemVars
  <2> SUFFICES ASSUME IInv, Next, NEW l \in Link,
                      link[l].at \in {"sizing", "init"}, link'[l].at = "gone"
               PROVE  Cardinality(Live) = Slots
    OBVIOUS
  <2>1. InCall(l) /\ Held(l) = {}  BY Here DEF InCall, Opened, Established
  <2>2. PICK k \in Link : \/ \E p \in Profile : kal_link_create(k, p)
                          \/ FindProbe(k) \/ OpenProbe(k) \/ Query(k) \/ FreeProbe(k)
                          \/ FindInstance(k) \/ OpenInstance(k)
                          \/ Allocate(k, "buffers", "arrays") \/ Allocate(k, "arrays", "live")
                          \/ kal_link_free(k)
    BY DEF Next
  <2>3. k = l
    <3>1. SUFFICES ASSUME k # l PROVE FALSE  OBVIOUS
    <3>2. link[k].at = link'[k].at \/ InCall(k) \/ MayCall(k)
      BY <2>2 DEF InCall, kal_link_create, kal_link_free, FindProbe, OpenProbe, Query, FreeProbe,
                  FindInstance, OpenInstance, Allocate
    <3>3. \E L : link' = [link EXCEPT ![k] = L]
      BY <2>2 DEF kal_link_create, kal_link_free, FindProbe, OpenProbe, Query, FreeProbe,
                  FindInstance, OpenInstance, Allocate, Abandon, Goes
    <3> QED  BY <2>1, <3>1, <3>3 DEF IInv, TypeOK
  <2>4. (FindProbe(l) \/ FindInstance(l)) /\ Free = {}
    <3>1. CASE link[l].at = "sizing"
      <4>1. FindProbe(l)
        BY <2>2, <2>3, <3>1
        DEF kal_link_create, kal_link_free, FindProbe, OpenProbe, Query, FreeProbe,
            FindInstance, OpenInstance, Allocate
      <4>2. Free = {}
        <5>1. SUFFICES ASSUME Free # {} PROVE FALSE  OBVIOUS
        <5>2. link' = [link EXCEPT ![l] = [link[l] EXCEPT !.at = "found", !.probe = First]]
          BY <4>1, <5>1 DEF FindProbe, Goes
        <5> QED  BY <5>2, Here DEF IInv, TypeOK
      <4> QED  BY <4>1, <4>2
    <3>2. CASE link[l].at = "init"
      <4>1. FindInstance(l)
        BY <2>2, <2>3, <3>2
        DEF kal_link_create, kal_link_free, FindProbe, OpenProbe, Query, FreeProbe,
            FindInstance, OpenInstance, Allocate
      <4>2. Free = {}
        <5>1. SUFFICES ASSUME Free # {} PROVE FALSE  OBVIOUS
        <5>2. link' = [link EXCEPT ![l] = [link[l] EXCEPT !.at = "chosen", !.instance = First]]
          BY <4>1, <5>1 DEF FindInstance, Goes
        <5> QED  BY <5>2, Here DEF IInv, TypeOK
      <4> QED  BY <4>1, <4>2
    <3> QED  BY <3>1, <3>2
  <2> QED  BY <2>1, <2>4, FullOfLive
<1> QED  BY <1>1, Invariance, PTL DEF Spec, EveryEngineUsable

=============================================================================
